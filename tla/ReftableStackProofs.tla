------------------------- MODULE ReftableStackProofs -------------------------
(* Proofs about ReftableStack, for any callers, transactions and stacks. *)
EXTENDS ReftableStack, SequenceTheorems, WellFoundedInduction, TLAPS

------------------------------
(* The inductive invariant. *)

Els(ts) == {ts[i] : i \in 1 .. Len(ts)}
Distinct(ts) == \A i, j \in 1 .. Len(ts) : i # j => ts[i] # ts[j]
Last(ts) == ts[Len(ts)]

MeFields == {"pc", "op", "plan", "id", "names", "next", "seg", "left", "victims",
             "threw", "key", "tries", "ans"}
TableSeq == Seq(Tables)

(* The tables a process may still write: its own and, for compaction, the next.*)
Writing == {"lockWrite", "prepare", "stage", "rename", "lockBody", "commit"}
Merging == {"invalidate", "probe", "sizes", "names", "lockPlan", "check", "tables", "giveUp",
            "unplan", "merge", "lockSplice", "splice", "rename", "lockBody", "commit"}
Unborn(p) ==
  IF me[p].pc \in Writing /\ ~Compacting(p) THEN {me[p].id, me[p].id + 1}
  ELSE IF me[p].pc \in Merging THEN {me[p].id + 1} ELSE {}

(* A table whose records are final. *)
Settled(t) == t \in 1 .. issued /\ \A p \in Procs : t \notin Unborn(p)

MeTypes(p) ==
  /\ DOMAIN me[p] = MeFields
  /\ me[p].pc \in Labels /\ me[p].plan \in Plans \cup {NoPlan} /\ me[p].id \in Nat
  /\ me[p].names \in TableSeq /\ me[p].next \in TableSeq
  /\ me[p].seg \in TableSeq /\ me[p].left \in TableSeq
  /\ me[p].victims \subseteq Tables \X {"ref", "temp"}
  /\ me[p].op \in {"none", "update", "pack", "read"}

DiskTypes ==
  /\ DOMAIN me = Procs
  /\ use \in Use /\ list \in TableSeq /\ stamp \in Nat
  /\ issued \in 0..MaxTables /\ faults \in 0..use.faults
  /\ lockFile \in TableSeq \cup {NoFile}
  /\ tlocks \subseteq Tables /\ files \subseteq Tables /\ temps \subseteq Tables
  /\ body \in [Tables -> [recs : Records, index : Nat]]

(* The list with n of its tables, from the i-th on, replaced. *)
Spliced(ts, i, n, new) == SubSeq(ts, 1, i - 1) \o new \o SubSeq(ts, i + n, Len(ts))

(* The list a process is about to commit: what it read under the lock, with *)
(* its table appended, or with its segment replaced by the merged table. *)
NextOK(p) ==
  IF Compacting(p)
  THEN \E i \in 1 .. (Len(list) - Len(me[p].seg) + 1) :
         /\ SubSeq(list, i, i + Len(me[p].seg) - 1) = me[p].seg
         /\ me[p].next = Spliced(list, i, Len(me[p].seg),
                           IF body[OwnTable(p)].recs = NoRecords THEN <<>> ELSE <<OwnTable(p)>>)
  ELSE /\ me[p].next = Append(list, me[p].id)
       /\ body[me[p].id].index = MaxUpdateIndex(list) + 1

(* The labels at which a process may hold tables, and at which they are listed.*)
Listed == {"tables", "giveUp", "unplan", "merge", "lockSplice", "splice", "rename", "lockBody", "commit"}
SegLabels == Listed \cup {"unlock", "unlink", "free"}

(* Its sequences name final tables; the tables it has locked are locked, and *)
(* on the list until it has replaced them. *)
SegOK(p) ==
  /\ \A t \in Els(me[p].names) \cup Els(me[p].left) \cup Els(me[p].seg) : Settled(t)
  /\ Els(me[p].seg) \subseteq tlocks /\ Distinct(me[p].seg)
  /\ Compacting(p) => me[p].pc \in SegLabels
  /\ me[p].pc \in {"merge", "lockSplice", "splice"} => Compacting(p)
  /\ me[p].pc \in Listed => Els(me[p].seg) \subseteq Els(list)

(* What it goes by. *)
PlaceOK(p) ==
  /\ me[p].pc \in {"lockWrite", "prepare", "stage"} => me[p].plan \in Plans
  /\ me[p].pc \in {"lockPlan", "check"} => me[p].left # <<>> /\ Els(me[p].left) \subseteq Els(me[p].names)
  /\ me[p].pc = "tables" => me[p].left # <<>> /\ Els(me[p].left) \subseteq Els(list)
  /\ me[p].pc = "stage" => me[p].names = list
  /\ me[p].pc = "unlink" => Els(me[p].left) \cap Els(list) = {}
  /\ me[p].pc \in {"lockSplice", "splice", "rename", "lockBody", "commit"} /\ Compacting(p) =>
       body[OwnTable(p)].index = body[Last(me[p].seg)].index
  /\ me[p].pc \in {"rename", "lockBody", "commit"} => NextOK(p)
  /\ me[p].pc = "commit" => lockFile = me[p].next
  /\ me[p].pc = "sweep" =>
       /\ \A v \in me[p].victims : v[2] = "ref" => v[1] \notin Els(list)
       /\ \A v \in me[p].victims : v[2] = "temp" => tlocks = {}

(* Its table is where it left it. *)
FlightOK(p) ==
  /\ At(p, "rename") => OwnTable(p) \in temps
  /\ me[p].pc \in {"lockSplice", "splice"} /\ body[OwnTable(p)].recs # NoRecords
       => OwnTable(p) \in temps
  /\ me[p].pc \in {"lockBody", "commit"} /\ (Compacting(p) => body[OwnTable(p)].recs # NoRecords)
       => OwnTable(p) \in files

IdsOK(p) == Unborn(p) \subseteq 1 .. issued

ProcOK(p) == IdsOK(p) /\ SegOK(p) /\ PlaceOK(p) /\ FlightOK(p)

(* The list: on disk, final, in order. *)
ListOK ==
  /\ \A t \in Els(list) : t \in files /\ Settled(t)
  /\ \A i, j \in 1 .. Len(list) : i < j => body[list[i]].index < body[list[j]].index

(* No two processes share what they hold. *)
Apart ==
  \A p, q \in Procs : p # q =>
    /\ Unborn(p) \cap Unborn(q) = {}
    /\ Els(me[p].seg) \cap Els(me[q].seg) = {}

(* Short of a fault, every lock has its holder. *)
LocksHeld ==
  faults = 0 =>
    /\ \A t \in tlocks : \E p \in Procs : t \in Els(me[p].seg)
    /\ lockFile # NoFile => \E p \in Procs : me[p].pc \in Holding

StackIndInv ==
  /\ DiskTypes /\ (\A p \in Procs : MeTypes(p))
  /\ ListLockExclusive /\ ListOK /\ Apart /\ LocksHeld
  /\ \A p \in Procs : ProcOK(p)

------------------------------
(* Sequences of tables. *)

(* The label sets, written out. *)
LEMMA LabelSets ==
  /\ Waiting = {"lockWrite", "lockPlan", "lockSplice", "lockSweep"}
  /\ Then["lockWrite"] = "prepare" /\ Then["lockPlan"] = "check"
  /\ Then["lockSplice"] = "splice" /\ Then["lockSweep"] = "readdir"
  /\ Holding = {"prepare", "check", "splice", "readdir", "unlock", "stage", "rename", "lockBody",
                "commit", "tables", "giveUp", "unplan", "sweep"}
  /\ Labels = {"lockWrite", "lockPlan", "lockSplice", "lockSweep", "prepare", "check", "splice",
               "readdir", "idle", "unlock", "stage", "rename", "lockBody", "commit", "invalidate",
               "names", "probe", "sizes", "tables", "giveUp", "unplan", "merge", "unlink", "free",
               "sweep", "stat", "load", "open", "answer"}
<1>1. Waiting = {"lockWrite", "lockPlan", "lockSplice", "lockSweep"} BY DEF Waiting, Then
<1>2. /\ Then["lockWrite"] = "prepare" /\ Then["lockPlan"] = "check"
      /\ Then["lockSplice"] = "splice" /\ Then["lockSweep"] = "readdir"
  BY DEF Then
<1>3. {Then[l] : l \in Waiting} = {"prepare", "check", "splice", "readdir"} BY <1>1, <1>2
<1> QED BY <1>1, <1>2, <1>3 DEF Holding, Labels

(* The tables of a sequence are tables. *)
LEMMA ElsType ==
  ASSUME NEW s \in TableSeq
  PROVE  Els(s) \subseteq Tables /\ Els(<<>>) = {} /\ Len(s) \in Nat
BY DEF Els, TableSeq

(* A sequence that is not empty is its head and its tail. *)
LEMMA ElsTail ==
  ASSUME NEW s \in TableSeq, s # <<>>
  PROVE  /\ Tail(s) \in TableSeq /\ Head(s) \in Tables
         /\ Els(s) = {Head(s)} \cup Els(Tail(s))
         /\ Distinct(s) => Distinct(Tail(s)) /\ Head(s) \notin Els(Tail(s))
<1>1. /\ Len(s) \in Nat /\ Len(s) >= 1 /\ Len(Tail(s)) = Len(s) - 1 /\ Head(s) = s[1]
      /\ Tail(s) \in TableSeq /\ Head(s) \in Tables
      /\ \A i \in 1 .. Len(s) - 1 : Tail(s)[i] = s[i + 1]
  BY DEF TableSeq
<1>2. ASSUME NEW t \in Els(s) PROVE t = Head(s) \/ t \in Els(Tail(s))
  <2>1. PICK i \in 1 .. Len(s) : t = s[i] BY DEF Els
  <2>2. CASE i = 1 BY <2>1, <2>2, <1>1
  <2>3. CASE i # 1
    <3>1. i - 1 \in 1 .. Len(s) - 1 /\ Tail(s)[i - 1] = s[i] BY <2>3, <1>1
    <3> QED BY <3>1, <2>1, <1>1 DEF Els
  <2> QED BY <2>2, <2>3
<1>3. Els(Tail(s)) \subseteq Els(s) /\ Head(s) \in Els(s) BY <1>1 DEF Els
<1>4. ASSUME Distinct(s) PROVE Distinct(Tail(s)) /\ Head(s) \notin Els(Tail(s))
  BY <1>1, <1>4 DEF Els, Distinct
<1> QED BY <1>1, <1>2, <1>3, <1>4

(* A table at the end, at the front, and part of a sequence. *)
LEMMA ElsAppend ==
  ASSUME NEW s \in TableSeq, NEW t \in Tables
  PROVE  Append(s, t) \in TableSeq /\ Els(Append(s, t)) = Els(s) \cup {t}
<1>1. /\ Append(s, t) \in TableSeq /\ Len(Append(s, t)) = Len(s) + 1 /\ Len(s) \in Nat
      /\ \A i \in 1 .. Len(s) : Append(s, t)[i] = s[i]
      /\ Append(s, t)[Len(s) + 1] = t
  BY DEF TableSeq
<1>2. \A i \in 1 .. Len(s) + 1 : i = Len(s) + 1 \/ i \in 1 .. Len(s) BY <1>1
<1> QED BY <1>1, <1>2 DEF Els

(* A table put in front. *)
LEMMA ElsFront ==
  ASSUME NEW s \in TableSeq, NEW t \in Tables
  PROVE  /\ <<t>> \o s \in TableSeq /\ Els(<<t>> \o s) = {t} \cup Els(s)
         /\ <<t>> \o s # <<>>
         /\ Distinct(s) /\ t \notin Els(s) => Distinct(<<t>> \o s)
<1>1. /\ <<t>> \in Seq(Tables) /\ Len(<<t>>) = 1 /\ <<t>>[1] = t /\ s \in Seq(Tables) /\ Len(s) \in Nat
  BY DEF TableSeq
<1>2. /\ <<t>> \o s \in TableSeq /\ Len(<<t>> \o s) = Len(s) + 1
      /\ (<<t>> \o s)[1] = t
      /\ \A i \in 2 .. Len(s) + 1 : (<<t>> \o s)[i] = s[i - 1]
  BY <1>1, ConcatProperties DEF TableSeq
<1>3. \A i \in 1 .. Len(s) + 1 : i = 1 \/ (i \in 2 .. Len(s) + 1 /\ i - 1 \in 1 .. Len(s)) BY <1>1
<1>4. \A i \in 1 .. Len(s) : i + 1 \in 2 .. Len(s) + 1 /\ (<<t>> \o s)[i + 1] = s[i] BY <1>1, <1>2
<1> DEFINE c == <<t>> \o s
<1>5. /\ c \in TableSeq /\ Len(c) = Len(s) + 1 /\ c[1] = t
      /\ \A i \in 2 .. Len(s) + 1 : c[i] = s[i - 1]
      /\ \A i \in 1 .. Len(s) : i + 1 \in 2 .. Len(s) + 1 /\ c[i + 1] = s[i]
  BY <1>2, <1>4
<1> HIDE DEF c
<1>6. c # <<>> BY <1>5, <1>1
<1>7. Els(c) \subseteq {t} \cup Els(s) BY <1>5, <1>3, <1>1 DEF Els
<1>8. t \in Els(c) BY <1>5, <1>1 DEF Els
<1>9. Els(s) \subseteq Els(c) BY <1>5, <1>1 DEF Els
<1>10. ASSUME Distinct(s), t \notin Els(s), NEW i \in 1 .. Len(c), NEW j \in 1 .. Len(c), i # j
       PROVE  c[i] # c[j]
  <2>1. \A k \in 1 .. Len(c) : k # 1 => k - 1 \in 1 .. Len(s) /\ c[k] = s[k - 1] BY <1>5, <1>1
  <2>2. \A k \in 1 .. Len(c) : k # 1 => c[k] # c[1] BY <2>1, <1>5, <1>10 DEF Els
  <2>3. CASE i # 1 /\ j # 1
    <3>1. i - 1 # j - 1 BY <1>10, <1>5, <1>1
    <3> QED BY <3>1, <2>1, <2>3, <1>10 DEF Distinct
  <2> QED BY <2>2, <2>3, <1>10
<1> QED BY <1>5, <1>6, <1>7, <1>8, <1>9, <1>10 DEF c, Distinct

(* A part of a sequence. *)
LEMMA ElsPart ==
  ASSUME NEW s \in TableSeq, NEW i \in Int, NEW j \in Int, 1 <= i, j <= Len(s)
  PROVE  /\ SubSeq(s, i, j) \in TableSeq /\ Els(SubSeq(s, i, j)) \subseteq Els(s)
         /\ Len(SubSeq(s, i, j)) = IF i <= j THEN j - i + 1 ELSE 0
         /\ \A k \in 1 .. Len(SubSeq(s, i, j)) : SubSeq(s, i, j)[k] = s[i + k - 1]
<1>1. s \in Seq(Tables) /\ Len(s) \in Nat BY DEF TableSeq
<1> DEFINE c == SubSeq(s, i, j)
<1>2. /\ c \in TableSeq /\ Len(c) = IF i <= j THEN j - i + 1 ELSE 0
      /\ \A k \in 1 .. Len(c) : c[k] = s[i + k - 1] /\ i + k - 1 \in 1 .. Len(s)
  BY <1>1 DEF TableSeq
<1> HIDE DEF c
<1>3. Els(c) \subseteq Els(s) BY <1>2 DEF Els
<1> QED BY <1>2, <1>3 DEF c


(* The last table is one of them. *)
LEMMA ElsLast ==
  ASSUME NEW s \in TableSeq, s # <<>>
  PROVE  Last(s) \in Els(s) /\ Len(s) >= 1
BY DEF Last, Els, TableSeq

(* The list c is s with n tables from the i-th on replaced by d = 0 or 1. *)
SplitAt(c, s, i, n, d, own) ==
  /\ Len(c) = Len(s) - n + d
  /\ \A k \in 1 .. i - 1 : c[k] = s[k]
  /\ d = 1 => c[i] = own
  /\ \A k \in (i + d) .. Len(c) : c[k] = s[k - d + n]

(* A list with a segment replaced by at most one table, position by position. *)
LEMMA SplicedShape ==
  ASSUME NEW s \in TableSeq, NEW n \in Nat \ {0}, NEW i \in 1 .. (Len(s) - n + 1),
         NEW new \in TableSeq, Len(new) \in {0, 1}, NEW c, c = Spliced(s, i, n, new)
  PROVE  /\ c \in TableSeq /\ Len(c) = Len(s) - n + Len(new)
         /\ \A k \in 1 .. i - 1 : c[k] = s[k]
         /\ Len(new) = 1 => c[i] = new[1]
         /\ \A k \in (i + Len(new)) .. Len(c) : c[k] = s[k - Len(new) + n]
         /\ \A own : (Len(new) = 1 => new[1] = own) => SplitAt(c, s, i, n, Len(new), own)
<1> DEFINE a == SubSeq(s, 1, i - 1)
           b == SubSeq(s, i + n, Len(s))
<1>0. s \in Seq(Tables) /\ new \in Seq(Tables) /\ Len(s) \in Nat /\ i \in Nat /\ i >= 1 /\ i + n - 1 <= Len(s)
  BY DEF TableSeq
<1>1. /\ a \in Seq(Tables) /\ Len(a) = i - 1 /\ \A k \in 1 .. i - 1 : a[k] = s[k]
  <2>1. a \in TableSeq /\ Len(a) = (IF 1 <= i - 1 THEN i - 1 - 1 + 1 ELSE 0)
        /\ \A k \in 1 .. Len(a) : a[k] = s[1 + k - 1]
    BY <1>0, ElsPart
  <2> HIDE DEF a
  <2>2. Len(a) = i - 1 BY <2>1, <1>0
  <2>3. \A k \in 1 .. i - 1 : a[k] = s[k] BY <2>1, <2>2, <1>0
  <2> QED BY <2>1, <2>2, <2>3 DEF TableSeq
<1>2. /\ b \in Seq(Tables) /\ Len(b) = Len(s) - (i + n) + 1
      /\ \A k \in 1 .. Len(b) : b[k] = s[i + n + k - 1]
  <2>1. b \in TableSeq /\ Len(b) = (IF i + n <= Len(s) THEN Len(s) - (i + n) + 1 ELSE 0)
        /\ \A k \in 1 .. Len(b) : b[k] = s[i + n + k - 1]
    BY <1>0, ElsPart
  <2> HIDE DEF b
  <2> QED BY <2>1, <1>0 DEF TableSeq
<1>3. Spliced(s, i, n, new) = (a \o new) \o b BY DEF Spliced
<1> HIDE DEF a, b
<1> DEFINE d == a \o new
<1>4. /\ d \in Seq(Tables) /\ Len(d) = i - 1 + Len(new)
      /\ \A k \in 1 .. i - 1 : d[k] = s[k]
      /\ Len(new) = 1 => d[i] = new[1]
  <2>1. d \in Seq(Tables) /\ Len(d) = Len(a) + Len(new)
        /\ \A k \in 1 .. Len(a) + Len(new) : d[k] = IF k <= Len(a) THEN a[k] ELSE new[k - Len(a)]
    BY <1>0, <1>1, ConcatProperties
  <2> HIDE DEF d
  <2>2. Len(d) = i - 1 + Len(new) BY <2>1, <1>1
  <2>3. \A k \in 1 .. i - 1 : d[k] = s[k]
    <3> TAKE k \in 1 .. i - 1
    <3>1. k \in 1 .. Len(a) + Len(new) /\ k <= Len(a) BY <1>1, <1>0
    <3> QED BY <3>1, <2>1, <1>1
  <2>4. ASSUME Len(new) = 1 PROVE d[i] = new[1]
    <3>1. i \in 1 .. Len(a) + Len(new) /\ ~(i <= Len(a)) /\ i - Len(a) = 1 BY <1>1, <1>0, <2>4
    <3> QED BY <3>1, <2>1
  <2> QED BY <2>1, <2>2, <2>3, <2>4
<1> HIDE DEF d
<1>6. c = d \o b BY <1>3 DEF d
<1>5. /\ c \in Seq(Tables) /\ Len(c) = Len(d) + Len(b)
      /\ \A k \in 1 .. Len(d) + Len(b) : c[k] = IF k <= Len(d) THEN d[k] ELSE b[k - Len(d)]
  <2>1. d \in Seq(Tables) /\ b \in Seq(Tables) BY <1>2, <1>4
  <2> QED BY <2>1, <1>6, ConcatProperties
<1>7. c \in TableSeq /\ Len(c) = Len(s) - n + Len(new) BY <1>5, <1>4, <1>2, <1>0 DEF TableSeq
<1>8. \A k \in 1 .. i - 1 : c[k] = s[k]
  <2> TAKE k \in 1 .. i - 1
  <2>1. Len(d) = i - 1 + Len(new) /\ Len(b) \in Nat /\ Len(new) \in Nat BY <1>4, <1>2, <1>0
  <2>2. i \in Nat /\ k \in Nat /\ 1 <= k /\ k <= i - 1 BY <1>0
  <2>3. k <= Len(d) /\ k \in 1 .. Len(d) + Len(b) BY <2>1, <2>2
  <2> QED BY <2>3, <1>5, <1>4
<1>9. Len(new) = 1 => c[i] = new[1]
  <2> SUFFICES ASSUME Len(new) = 1 PROVE c[i] = new[1] OBVIOUS
  <2>1. i <= Len(d) /\ i \in 1 .. Len(d) + Len(b) BY <1>4, <1>2, <1>0
  <2> QED BY <2>1, <1>5, <1>4
<1>10. \A k \in (i + Len(new)) .. Len(c) : c[k] = s[k - Len(new) + n]
  <2> TAKE k \in (i + Len(new)) .. Len(c)
  <2>1. k \in 1 .. Len(d) + Len(b) /\ ~(k <= Len(d)) /\ k - Len(d) \in 1 .. Len(b)
        /\ i + n + (k - Len(d)) - 1 = k - Len(new) + n
    <3>1. Len(c) = Len(d) + Len(b) /\ Len(d) = i - 1 + Len(new) /\ Len(new) \in Nat
          /\ Len(b) = Len(s) - (i + n) + 1
      BY <1>4, <1>2, <1>0, <1>5
    <3>2. k \in Int /\ i + Len(new) <= k /\ k <= Len(d) + Len(b) BY <3>1, <1>0
    <3> QED BY <3>1, <3>2, <1>0
  <2> QED BY <2>1, <1>5, <1>2
<1>11. ASSUME NEW own, Len(new) = 1 => new[1] = own PROVE SplitAt(c, s, i, n, Len(new), own)
  BY <1>7, <1>8, <1>9, <1>10, <1>11 DEF SplitAt
<1> QED BY <1>7, <1>8, <1>9, <1>10, <1>11

------------------------------
(* What a step of p leaves to the others: the guarantee. *)

OthersStay(p) ==
  /\ DOMAIN me' = Procs /\ \A q \in Procs \ {p} : me'[q] = me[q]
  /\ use' = use /\ faults' = faults

(* It writes only tables of its own, and takes up only new names. *)
OwnNames(p) ==
  /\ issued' \in Nat /\ issued <= issued'
  /\ Unborn(p)' \subseteq Unborn(p) \cup (issued + 1 .. issued')
  /\ \A t \in Tables : t \notin Unborn(p) => body'[t] = body[t]

(* It replaces the list only when it commits: its own table in, its locked *)
(* segment out. *)
OwnCommit(p) ==
  \/ list' = list
  \/ /\ me[p].pc = "commit"
     /\ Els(list') \subseteq Els(list) \cup Unborn(p)
     /\ Els(list) \ Els(list') \subseteq Els(me[p].seg)
     /\ ListOK'

(* It touches the list lock only when it holds it or when nobody does. *)
OwnListLock(p) ==
  /\ lockFile' # lockFile => me[p].pc \in Holding \/ lockFile = NoFile
  /\ me'[p].pc \in Holding => lockFile' # NoFile /\ (me[p].pc \in Holding \/ lockFile = NoFile)
  /\ lockFile' # NoFile => me'[p].pc \in Holding \/ (me[p].pc \notin Holding /\ lockFile # NoFile)

(* It releases only tables of its segment, and locks only free ones, under the *)
(* list lock. *)
OwnTableLocks(p) ==
  /\ tlocks \ tlocks' \subseteq Els(me[p].seg)
  /\ tlocks' # tlocks /\ tlocks = {} => me[p].pc \in Holding
  /\ Els(me'[p].seg) \cap tlocks \subseteq Els(me[p].seg)
  /\ \A t \in tlocks' : t \in Els(me'[p].seg) \/ (t \in tlocks /\ t \notin Els(me[p].seg))

(* It removes no listed table, and without the list lock no table that is not *)
(* final; a temporary one only if it is its own, or while no table is locked. *)
OwnFiles(p) ==
  /\ \A t \in files \ files' : t \notin Els(list') /\ (me[p].pc \in Holding \/ Settled(t))
  /\ \A t \in temps \ temps' : t \in Unborn(p) \/ (me[p].pc \in Holding /\ tlocks = {})

Guarantee(p) ==
  OthersStay(p) /\ OwnNames(p) /\ OwnCommit(p) /\ OwnListLock(p) /\ OwnTableLocks(p) /\ OwnFiles(p)

(* The guarantee of p and its own part of the invariant. *)
StepOK(p) == Guarantee(p) /\ DiskTypes' /\ MeTypes(p)' /\ ProcOK(p)'

(* A final table stays final, and so do its records. *)
LEMMA SettledStays ==
  ASSUME StackIndInv, NEW p \in Procs, OthersStay(p), OwnNames(p), NEW t, Settled(t)
  PROVE  Settled(t)' /\ t \in Tables /\ body'[t] = body[t]
<1>1. issued \in Nat /\ issued <= MaxTables /\ MaxTables \in Nat BY StackAssumption DEF StackIndInv, DiskTypes
<1>2. t \in Tables /\ t \in Nat /\ t <= issued /\ t \notin Unborn(p) BY <1>1 DEF Settled, Tables
<1>3. t \in 1 .. issued' BY <1>1, <1>2 DEF OwnNames, Settled
<1>4. t \notin Unborn(p)' BY <1>2, <1>1 DEF OwnNames
<1>5. ASSUME NEW q \in Procs \ {p} PROVE t \notin Unborn(q)'
  <2>1. me'[q] = me[q] BY <1>5 DEF OthersStay
  <2>2. Unborn(q)' = Unborn(q) BY <2>1 DEF Unborn, Compacting
  <2> QED BY <2>2 DEF Settled
<1>6. body'[t] = body[t] BY <1>2 DEF OwnNames
<1> QED BY <1>2, <1>3, <1>4, <1>5, <1>6 DEF Settled

(* A table a process is about to name is one of its own. *)
LEMMA OwnIsUnborn ==
  ASSUME StackIndInv, NEW p \in Procs,
         me[p].pc \in Writing \cup {"merge", "lockSplice", "splice"}
  PROVE  OwnTable(p) \in Unborn(p) /\ OwnTable(p) \in Tables /\ ~Settled(OwnTable(p))
<1>1. MeTypes(p) /\ SegOK(p) /\ IdsOK(p) BY DEF StackIndInv, ProcOK
<1>2. issued \in Nat /\ issued <= MaxTables /\ MaxTables \in Nat BY StackAssumption DEF StackIndInv, DiskTypes
<1>3. OwnTable(p) \in Unborn(p)
  BY <1>1 DEF MeTypes, SegOK, Unborn, OwnTable, Writing, Merging, SegLabels, Listed
<1> QED BY <1>1, <1>2, <1>3 DEF IdsOK, Tables, Settled


------------------------------
(* The guarantee of p keeps the others' part of the invariant. *)

(* Two processes are never both under the list lock. *)
LEMMA OneHolder ==
  ASSUME StackIndInv, NEW p \in Procs, NEW q \in Procs \ {p}, me[q].pc \in Holding
  PROVE  me[p].pc \notin Holding /\ lockFile # NoFile
BY DEF StackIndInv, ListLockExclusive

(* What another process at work under the list lock relies on. *)
LEMMA UnderLock ==
  ASSUME StackIndInv, NEW p \in Procs, Guarantee(p), NEW q \in Procs \ {p}, me[q].pc \in Holding
  PROVE  /\ list' = list /\ lockFile' = lockFile
         /\ tlocks = {} => tlocks' = {}
         /\ \A t \in temps \ temps' : t \in Unborn(p)
         /\ \A t \in files \ files' : Settled(t)
<1>1. me[p].pc \notin Holding /\ lockFile # NoFile BY OneHolder
<1>2. me[p].pc # "commit" BY <1>1, LabelSets
<1> QED BY <1>1, <1>2 DEF Guarantee, OwnCommit, OwnListLock, OwnTableLocks, OwnFiles

(* Its segment stays locked and listed. *)
LEMMA RelySeg ==
  ASSUME StackIndInv, NEW p \in Procs, Guarantee(p), NEW q \in Procs \ {p}
  PROVE  SegOK(q)' /\ IdsOK(q)'
<1>1. me'[q] = me[q] /\ SegOK(q) /\ IdsOK(q) BY DEF StackIndInv, ProcOK, Guarantee, OthersStay
<1>2. Els(me[p].seg) \cap Els(me[q].seg) = {} BY DEF StackIndInv, Apart
<1>3. \A t : Settled(t) => Settled(t)' BY SettledStays DEF Guarantee
<1>4. Els(me[q].seg) \subseteq tlocks' BY <1>1, <1>2 DEF SegOK, Guarantee, OwnTableLocks
<1>5. me[q].pc \in Listed => Els(me[q].seg) \subseteq Els(list') BY <1>1, <1>2 DEF SegOK, Guarantee, OwnCommit
<1>6. SegOK(q)' BY <1>1, <1>3, <1>4, <1>5 DEF SegOK, Compacting
<1>7. issued \in Nat BY DEF StackIndInv, DiskTypes
<1>8. Unborn(q)' = Unborn(q) BY <1>1 DEF Unborn, Compacting
<1>9. IdsOK(q)' BY <1>1, <1>7, <1>8 DEF IdsOK, Guarantee, OwnNames
<1> QED BY <1>6, <1>9

(* What it has read and what it is about to commit stay as they are. *)
LEMMA RelyPlace ==
  ASSUME StackIndInv, NEW p \in Procs, Guarantee(p), NEW q \in Procs \ {p}
  PROVE  PlaceOK(q)'
<1>1. /\ me'[q] = me[q] /\ PlaceOK(q) /\ SegOK(q) /\ MeTypes(q)
      /\ OthersStay(p) /\ OwnNames(p) /\ OwnCommit(p)
  BY DEF StackIndInv, ProcOK, Guarantee, OthersStay
<1>2. Unborn(p) \cap Unborn(q) = {} BY DEF StackIndInv, Apart
<1>3. \A t : Settled(t) => body'[t] = body[t] /\ t \notin Unborn(p) BY <1>1, SettledStays DEF Settled
<1>4. me[q].pc \in Holding =>
        /\ list' = list /\ lockFile' = lockFile /\ (tlocks = {} => tlocks' = {})
  BY UnderLock
<1>5. OwnTable(q)' = OwnTable(q) /\ Compacting(q)' = Compacting(q) BY <1>1 DEF OwnTable, Compacting
<1>6. me[q].pc \in Writing \cup {"merge", "lockSplice", "splice"} =>
        body'[OwnTable(q)] = body[OwnTable(q)]
  BY <1>1, <1>2, OwnIsUnborn DEF OwnNames
<1>7. me[q].pc = "unlink" => Els(me[q].left) \cap Els(list') = {} BY <1>1, <1>3 DEF SegOK, PlaceOK, OwnCommit
<1>8. Compacting(q) => body'[Last(me[q].seg)] = body[Last(me[q].seg)]
  <2> SUFFICES ASSUME Compacting(q) PROVE Last(me[q].seg) \in Els(me[q].seg) BY <1>1, <1>3 DEF SegOK
  <2>1. me[q].seg \in TableSeq /\ me[q].seg # <<>> BY <1>1 DEF Compacting, MeTypes
  <2> QED BY <2>1, ElsLast
<1>9. MaxUpdateIndex(list)' = MaxUpdateIndex(list) \/ list' # list
  <2> SUFFICES ASSUME list' = list, list # <<>> PROVE body'[list[Len(list)]] = body[list[Len(list)]]
    BY DEF MaxUpdateIndex
  <2>1. list[Len(list)] \in Els(list) BY DEF Els, StackIndInv, DiskTypes, TableSeq
  <2> QED BY <2>1, <1>3 DEF StackIndInv, ListOK
<1>10. me[q].pc \in {"rename", "lockBody", "commit"} => NextOK(q)'
  <2> SUFFICES ASSUME me[q].pc \in {"rename", "lockBody", "commit"} PROVE NextOK(q)' OBVIOUS
  <2>1. list' = list /\ NextOK(q) BY <1>4, <1>1, LabelSets DEF PlaceOK
  <2>2. body'[OwnTable(q)] = body[OwnTable(q)] BY <1>6 DEF Writing
  <2>3. CASE Compacting(q)
    <3>1. PICK i \in 1 .. (Len(list) - Len(me[q].seg) + 1) :
            /\ SubSeq(list, i, i + Len(me[q].seg) - 1) = me[q].seg
            /\ me[q].next = Spliced(list, i, Len(me[q].seg),
                 IF body[OwnTable(q)].recs = NoRecords THEN <<>> ELSE <<OwnTable(q)>>)
      BY <2>1, <2>3 DEF NextOK
    <3> QED BY <3>1, <2>1, <2>2, <2>3, <1>1, <1>5 DEF NextOK
  <2>4. CASE ~Compacting(q)
    <3>1. OwnTable(q) = me[q].id BY <2>4 DEF OwnTable
    <3> QED BY <3>1, <2>1, <2>2, <2>4, <1>1, <1>5, <1>9 DEF NextOK
  <2> QED BY <2>3, <2>4
<1>11. me[q].pc \in {"lockSplice", "splice", "rename", "lockBody", "commit"} /\ Compacting(q) =>
         body'[OwnTable(q)].index = body'[Last(me[q].seg)].index
  BY <1>1, <1>6, <1>8 DEF PlaceOK, Writing
<1>12. /\ me[q].pc = "commit" => lockFile' = me[q].next
       /\ me[q].pc = "tables" => me[q].left # <<>> /\ Els(me[q].left) \subseteq Els(list')
       /\ me[q].pc = "stage" => me[q].names = list'
       /\ me[q].pc = "sweep" =>
            /\ \A v \in me[q].victims : v[2] = "ref" => v[1] \notin Els(list')
            /\ \A v \in me[q].victims : v[2] = "temp" => tlocks' = {}
  BY <1>1, <1>4, LabelSets DEF PlaceOK
<1>13. /\ me[q].pc \in {"lockWrite", "prepare", "stage"} => me[q].plan \in Plans
       /\ me[q].pc \in {"lockPlan", "check"} => me[q].left # <<>> /\ Els(me[q].left) \subseteq Els(me[q].names)
  BY <1>1 DEF PlaceOK
<1> HIDE DEF NextOK, OwnTable, Compacting
<1> QED BY <1>1, <1>5, <1>7, <1>10, <1>11, <1>12, <1>13 DEF PlaceOK

(* Its table is not swept away. *)
LEMMA RelyFlight ==
  ASSUME StackIndInv, NEW p \in Procs, Guarantee(p), NEW q \in Procs \ {p}
  PROVE  FlightOK(q)'
<1>1. /\ me'[q] = me[q] /\ FlightOK(q) /\ SegOK(q) /\ OwnNames(p) /\ OwnFiles(p) /\ MeTypes(q)
  BY DEF StackIndInv, ProcOK, Guarantee, OthersStay
<1>2. Unborn(p) \cap Unborn(q) = {} BY DEF StackIndInv, Apart
<1>3. me[q].pc \in Holding =>
         /\ \A t \in temps \ temps' : t \in Unborn(p)
         /\ \A t \in files \ files' : Settled(t)
  BY UnderLock
<1>4. OwnTable(q)' = OwnTable(q) /\ Compacting(q)' = Compacting(q) BY <1>1 DEF OwnTable, Compacting
<1>5. me[q].pc \in Writing \cup {"merge", "lockSplice", "splice"} =>
        /\ body'[OwnTable(q)] = body[OwnTable(q)]
        /\ OwnTable(q) \notin Unborn(p) /\ ~Settled(OwnTable(q))
  BY <1>1, <1>2, OwnIsUnborn DEF OwnNames
<1>6. me[q].pc \in {"lockSplice", "splice"} => tlocks # {}
  <2> SUFFICES ASSUME me[q].pc \in {"lockSplice", "splice"} PROVE Els(me[q].seg) # {} BY <1>1 DEF SegOK
  <2>1. me[q].seg # <<>> /\ me[q].seg \in TableSeq BY <1>1 DEF SegOK, Compacting, MeTypes
  <2> QED BY <2>1, ElsTail
<1>7. me[q].pc \in {"lockSplice", "splice", "rename"} /\ OwnTable(q) \in temps => OwnTable(q) \in temps'
  BY <1>1, <1>3, <1>5, <1>6, LabelSets DEF OwnFiles, Writing
<1>8. me[q].pc \in {"lockBody", "commit"} /\ OwnTable(q) \in files => OwnTable(q) \in files'
  BY <1>3, <1>5, LabelSets DEF Writing
<1> QED BY <1>1, <1>4, <1>5, <1>7, <1>8 DEF FlightOK, Writing, At

(* The invariant after a step of p that is all right for p itself. *)
LEMMA StepKeeps ==
  ASSUME StackIndInv, NEW p \in Procs, StepOK(p)
  PROVE  StackIndInv'
<1>1. /\ Guarantee(p) /\ DiskTypes' /\ MeTypes(p)' /\ ProcOK(p)' /\ OthersStay(p) /\ OwnNames(p)
      /\ OwnCommit(p) /\ OwnListLock(p) /\ OwnTableLocks(p) /\ OwnFiles(p)
  BY DEF StepOK, Guarantee
<1>2. \A q \in Procs : MeTypes(q)' BY <1>1 DEF StackIndInv, MeTypes, OthersStay
<1>3. \A q \in Procs : ProcOK(q)'
  <2>1. \A q \in Procs \ {p} : ProcOK(q)' BY <1>1, RelySeg, RelyPlace, RelyFlight DEF ProcOK
  <2> QED BY <2>1, <1>1
<1>4. ListLockExclusive'
  <2> SUFFICES ASSUME NEW q \in Procs, me'[q].pc \in Holding
               PROVE  lockFile' # NoFile /\ \A r \in Procs \ {q} : me'[r].pc \notin Holding
    BY LabelSets DEF ListLockExclusive
  <2>1. CASE q = p
    <3>1. lockFile' # NoFile /\ (me[p].pc \in Holding \/ lockFile = NoFile) BY <1>1, <2>1 DEF OwnListLock
    <3>2. \A r \in Procs \ {p} : me[r].pc \notin Holding BY <3>1 DEF StackIndInv, ListLockExclusive
    <3> QED BY <3>1, <3>2, <2>1, <1>1 DEF OthersStay
  <2>2. CASE q # p
    <3>1. me[q].pc \in Holding /\ lockFile' = lockFile /\ lockFile # NoFile /\ me[p].pc \notin Holding
      BY <2>2, <1>1, UnderLock, OneHolder DEF OthersStay
    <3>2. \A r \in Procs \ {q} : me[r].pc \notin Holding BY <3>1 DEF StackIndInv, ListLockExclusive
    <3>3. me'[p].pc \notin Holding BY <3>1, <1>1 DEF OwnListLock
    <3> QED BY <3>1, <3>2, <3>3, <1>1 DEF OthersStay
  <2> QED BY <2>1, <2>2
<1>5. ListOK'
  <2>1. CASE list' = list
    <3>1. \A t \in Els(list) : t \in files /\ Settled(t) BY DEF StackIndInv, ListOK
    <3>2. \A t \in Els(list) : t \in files' /\ Settled(t)' /\ body'[t] = body[t]
      BY <3>1, <1>1, <2>1, SettledStays DEF OwnFiles
    <3>3. \A i \in 1 .. Len(list) : body'[list[i]] = body[list[i]] BY <3>2 DEF Els
    <3>4. \A i, j \in 1 .. Len(list) : i < j => body[list[i]].index < body[list[j]].index
      BY DEF StackIndInv, ListOK
    <3> QED BY <3>2, <3>3, <3>4, <2>1 DEF ListOK
  <2> QED BY <2>1, <1>1 DEF OwnCommit
<1>6. Apart'
  <2>1. \A q \in Procs \ {p} : Unborn(q)' = Unborn(q) /\ me'[q] = me[q]
    BY <1>1 DEF Unborn, Compacting, OthersStay
  <2>2. ASSUME NEW q \in Procs \ {p} PROVE Unborn(p)' \cap Unborn(q) = {}
    <3>1. Unborn(q) \subseteq 1 .. issued /\ Unborn(p) \cap Unborn(q) = {} /\ issued \in Nat
      BY DEF StackIndInv, ProcOK, IdsOK, Apart, DiskTypes
    <3> QED BY <3>1, <1>1 DEF OwnNames
  <2>3. ASSUME NEW q \in Procs \ {p} PROVE Els(me'[p].seg) \cap Els(me[q].seg) = {}
    <3>1. Els(me[q].seg) \subseteq tlocks /\ Els(me[p].seg) \cap Els(me[q].seg) = {}
      BY DEF StackIndInv, ProcOK, SegOK, Apart
    <3> QED BY <3>1, <1>1 DEF OwnTableLocks
  <2>4. \A q, r \in Procs : q # r => Unborn(q) \cap Unborn(r) = {} /\ Els(me[q].seg) \cap Els(me[r].seg) = {}
    BY DEF StackIndInv, Apart
  <2> SUFFICES ASSUME NEW q \in Procs, NEW r \in Procs, q # r
               PROVE  Unborn(q)' \cap Unborn(r)' = {} /\ Els(me'[q].seg) \cap Els(me'[r].seg) = {}
    BY DEF Apart, Els
  <2>5. CASE q = p BY <2>5, <2>1, <2>2, <2>3
  <2>6. CASE r = p BY <2>6, <2>1, <2>2, <2>3
  <2>7. CASE q # p /\ r # p BY <2>7, <2>1, <2>4
  <2> QED BY <2>5, <2>6, <2>7
<1>7. LocksHeld'
  <2> SUFFICES ASSUME faults' = 0
               PROVE  /\ \A t \in tlocks' : \E q \in Procs : t \in Els(me'[q].seg)
                      /\ lockFile' # NoFile => \E q \in Procs : me'[q].pc \in Holding
    BY LabelSets DEF LocksHeld, Els
  <2>0. faults = 0 BY <1>1 DEF OthersStay
  <2>1. ASSUME NEW t \in tlocks' PROVE \E q \in Procs : t \in Els(me'[q].seg)
    <3>1. CASE t \in Els(me'[p].seg) BY <3>1
    <3>2. CASE t \in tlocks /\ t \notin Els(me[p].seg)
      <4>1. PICK q \in Procs : t \in Els(me[q].seg) BY <2>0, <3>2 DEF StackIndInv, LocksHeld
      <4> QED BY <4>1, <3>2, <1>1 DEF OthersStay
    <3> QED BY <3>1, <3>2, <1>1 DEF OwnTableLocks
  <2>2. ASSUME lockFile' # NoFile PROVE \E q \in Procs : me'[q].pc \in Holding
    <3>1. CASE me'[p].pc \in Holding BY <3>1
    <3>2. CASE me[p].pc \notin Holding /\ lockFile # NoFile
      <4>1. PICK q \in Procs : me[q].pc \in Holding BY <2>0, <3>2 DEF StackIndInv, LocksHeld
      <4> QED BY <4>1, <3>2, <1>1 DEF OthersStay
    <3> QED BY <3>1, <3>2, <2>2, <1>1 DEF OwnListLock
  <2> QED BY <2>1, <2>2
<1> QED BY <1>1, <1>2, <1>3, <1>4, <1>5, <1>6, <1>7 DEF StackIndInv


------------------------------
(* The steps that leave the disk alone. *)

Still == UNCHANGED <<disk, issued, use, faults>>

(* The shape of the local state. *)
LEMMA MeShape ==
  ASSUME StackIndInv, NEW p \in Procs
  PROVE  DOMAIN me = Procs /\ DOMAIN me[p] = MeFields /\ MeTypes(p) /\ DiskTypes
         /\ SegOK(p) /\ IdsOK(p) /\ PlaceOK(p) /\ FlightOK(p) /\ list \in TableSeq
         /\ \A t \in Els(list) : t \in files /\ Settled(t)
BY DEF StackIndInv, DiskTypes, MeTypes, ProcOK, ListOK

(* Such a step gives the guarantee when it neither takes nor drops a lock. *)
LEMMA StillGuarantee ==
  ASSUME StackIndInv, NEW p \in Procs, Still, DOMAIN me' = Procs,
         \A q \in Procs \ {p} : me'[q] = me[q],
         (me'[p].pc \in Holding) <=> (me[p].pc \in Holding),
         Els(me'[p].seg) = Els(me[p].seg), Unborn(p)' \subseteq Unborn(p)
  PROVE  Guarantee(p) /\ DiskTypes' /\ IdsOK(p)' /\ (\A t : Settled(t) => Settled(t)')
<1>1. /\ list' = list /\ stamp' = stamp /\ lockFile' = lockFile /\ tlocks' = tlocks
      /\ files' = files /\ temps' = temps /\ body' = body /\ issued' = issued
      /\ use' = use /\ faults' = faults
  BY DEF Still, disk
<1>2. DiskTypes /\ issued \in Nat /\ issued <= issued BY DEF StackIndInv, DiskTypes
<1>3. OthersStay(p) BY <1>1 DEF OthersStay
<1>4. OwnNames(p) BY <1>1, <1>2 DEF OwnNames
<1>5. OwnListLock(p)
  <2>1. me[p].pc \in Holding => lockFile # NoFile BY DEF StackIndInv, ListLockExclusive
  <2> QED BY <2>1, <1>1 DEF OwnListLock
<1>6. OwnTableLocks(p)
  <2>1. Els(me[p].seg) \subseteq tlocks BY DEF StackIndInv, ProcOK, SegOK
  <2> QED BY <2>1, <1>1 DEF OwnTableLocks
<1>7. OwnCommit(p) /\ OwnFiles(p) BY <1>1 DEF OwnCommit, OwnFiles
<1>8. DiskTypes' BY <1>1, <1>2 DEF DiskTypes
<1>9. \A t : Settled(t) => Settled(t)' BY <1>3, <1>4, SettledStays
<1>10. IdsOK(p)' BY <1>1 DEF StackIndInv, ProcOK, IdsOK
<1> QED BY <1>3, <1>4, <1>5, <1>6, <1>7, <1>8, <1>9, <1>10 DEF Guarantee

(* A call that is over leaves nothing behind. *)
LEMMA IdleOK ==
  ASSUME NEW p \in Procs, me'[p] = Idle
  PROVE  ProcOK(p)' /\ MeTypes(p)' /\ me'[p].seg = <<>> /\ Unborn(p)' = {} /\ me'[p].pc = "idle"
         /\ Els(me'[p].seg) = {} /\ "idle" \notin Holding
<1>1. /\ DOMAIN Idle = MeFields /\ Idle.pc = "idle" /\ Idle.op = "none" /\ Idle.plan = NoPlan
      /\ Idle.id = 0 /\ Idle.names = <<>> /\ Idle.next = <<>> /\ Idle.seg = <<>> /\ Idle.left = <<>>
      /\ Idle.victims = {}
  BY DEF Idle, MeFields
<1>2. <<>> \in TableSeq /\ Els(<<>>) = {} /\ Distinct(<<>>) BY DEF TableSeq, Els, Distinct
<1>3. MeTypes(p)' BY <1>1, <1>2, LabelSets DEF MeTypes
<1>4. Unborn(p)' = {} BY <1>1 DEF Unborn, Writing, Merging
<1>5. IdsOK(p)' BY <1>4 DEF IdsOK
<1>6. SegOK(p)' BY <1>1, <1>2 DEF SegOK, Compacting, Listed
<1>7. PlaceOK(p)' BY <1>1 DEF PlaceOK
<1>8. FlightOK(p)' BY <1>1 DEF FlightOK, At
<1> QED BY <1>1, <1>2, <1>3, <1>4, <1>5, <1>6, <1>7, <1>8, LabelSets DEF ProcOK

(* A call that ends holding nothing disturbs nobody. *)
LEMMA ReturnOK ==
  ASSUME StackIndInv, NEW p \in Procs, Return(p), Still, me[p].pc \notin Holding, ~Compacting(p)
  PROVE  StepOK(p)
<1>1. DOMAIN me = Procs BY MeShape
<1>2. me'[p] = Idle /\ DOMAIN me' = Procs /\ \A q \in Procs \ {p} : me'[q] = me[q] BY <1>1 DEF Return
<1>3. Els(me[p].seg) = {} BY DEF Compacting, Els
<1> QED BY <1>2, <1>3, IdleOK, StillGuarantee DEF StepOK

(* A call begins. *)
LEMMA BeginReadOK ==
  ASSUME StackIndInv, NEW p \in Procs, BeginRead(p), UNCHANGED <<use, faults>>
  PROVE  StepOK(p)
<1>1. DOMAIN me = Procs /\ me[p].pc = "idle" /\ SegOK(p) /\ Still BY MeShape DEF BeginRead, At, Still
<1> DEFINE m == [Idle EXCEPT !.pc = "stat", !.op = "read", !.tries = 1]
<1>2. me'[p] = m /\ DOMAIN me' = Procs /\ \A q \in Procs \ {p} : me'[q] = me[q] BY <1>1 DEF BeginRead
<1>3. /\ DOMAIN m = MeFields /\ m.pc = "stat" /\ m.op = "read" /\ m.plan = NoPlan
      /\ m.id = 0 /\ m.names = <<>> /\ m.next = <<>> /\ m.seg = <<>> /\ m.left = <<>> /\ m.victims = {}
  BY DEF Idle, MeFields
<1> HIDE DEF m
<1>4. <<>> \in TableSeq /\ Els(<<>>) = {} /\ Distinct(<<>>) BY DEF TableSeq, Els, Distinct
<1>5. me[p].seg = <<>> /\ me[p].pc \notin Holding /\ "stat" \notin Holding
  BY <1>1, LabelSets DEF SegOK, Compacting, SegLabels, Listed
<1>6. Unborn(p)' = {} BY <1>2, <1>3 DEF Unborn, Writing, Merging
<1>7. MeTypes(p)' BY <1>2, <1>3, <1>4, LabelSets DEF MeTypes
<1>8. Guarantee(p) /\ DiskTypes' /\ IdsOK(p)' BY <1>1, <1>2, <1>3, <1>5, <1>6, StillGuarantee
<1>9. SegOK(p)' BY <1>2, <1>3, <1>4 DEF SegOK, Compacting, Listed
<1>10. PlaceOK(p)' /\ FlightOK(p)' BY <1>2, <1>3 DEF PlaceOK, FlightOK, At
<1> QED BY <1>7, <1>8, <1>9, <1>10 DEF StepOK, ProcOK


(* A call that begins takes new names only. *)
LEMMA BeginPackOK ==
  ASSUME StackIndInv, NEW p \in Procs, BeginPack(p) \/ BeginUpdate(p), UNCHANGED <<use, faults>>
  PROVE  StepOK(p)
<1>1. /\ DOMAIN me = Procs /\ me[p].pc = "idle" /\ SegOK(p) /\ DiskTypes
      /\ list' = list /\ stamp' = stamp /\ lockFile' = lockFile /\ tlocks' = tlocks
      /\ files' = files /\ temps' = temps /\ body' = body /\ use' = use /\ faults' = faults
  BY MeShape DEF BeginPack, BeginUpdate, At, disk
<1>2. issued \in Nat /\ issued <= MaxTables /\ MaxTables \in Nat /\ use \in Use
  BY <1>1, StackAssumption DEF DiskTypes
<1>3. use.tables \in 1 .. MaxTables BY <1>2 DEF Use, Tables
<1>4. DOMAIN me' = Procs /\ (\A q \in Procs \ {p} : me'[q] = me[q]) /\ DOMAIN me'[p] = MeFields
      /\ me'[p].names = <<>> /\ me'[p].next = <<>> /\ me'[p].seg = <<>> /\ me'[p].left = <<>>
      /\ me'[p].victims = {} /\ me'[p].plan \in Plans \cup {NoPlan} /\ me'[p].op \in {"update", "pack"}
      /\ \/ me'[p].pc = "names" /\ me'[p].id = issued /\ issued' = issued + 1 /\ issued + 1 <= use.tables
         \/ me'[p].pc = "lockWrite" /\ me'[p].plan \in Plans /\ me'[p].id = issued + 1 /\ issued' = issued + 2 /\ issued + 2 <= use.tables
  <2>1. CASE BeginPack(p)
    <3> DEFINE m == [Idle EXCEPT !.pc = "names", !.op = "pack", !.id = issued]
    <3>1. issued' = issued + 1 /\ issued + 1 <= use.tables BY <2>1, <1>2, <1>3 DEF BeginPack
    <3>2. me'[p] = m /\ DOMAIN me' = Procs /\ \A q \in Procs \ {p} : me'[q] = me[q]
      BY <2>1, <1>1 DEF BeginPack
    <3>3. /\ DOMAIN m = MeFields /\ m.pc = "names" /\ m.op = "pack" /\ m.plan = NoPlan
          /\ m.id = issued /\ m.names = <<>> /\ m.next = <<>> /\ m.seg = <<>> /\ m.left = <<>>
          /\ m.victims = {}
      BY DEF Idle, MeFields
    <3> HIDE DEF m
    <3> QED BY <3>1, <3>2, <3>3
  <2>2. CASE BeginUpdate(p)
    <3>1. PICK P \in Plans :
            me' = [me EXCEPT ![p] = [Idle EXCEPT !.pc = "lockWrite", !.op = "update",
                                                 !.plan = P, !.id = issued + 1]]
      BY <2>2 DEF BeginUpdate
    <3> DEFINE m == [Idle EXCEPT !.pc = "lockWrite", !.op = "update", !.plan = P, !.id = issued + 1]
    <3>2. issued' = issued + 2 /\ issued + 2 <= use.tables BY <2>2 DEF BeginUpdate
    <3>3. me'[p] = m /\ DOMAIN me' = Procs /\ \A q \in Procs \ {p} : me'[q] = me[q] BY <3>1, <1>1
    <3>4. /\ DOMAIN m = MeFields /\ m.pc = "lockWrite" /\ m.op = "update" /\ m.plan = P
          /\ m.id = issued + 1 /\ m.names = <<>> /\ m.next = <<>> /\ m.seg = <<>> /\ m.left = <<>>
          /\ m.victims = {}
      BY DEF Idle, MeFields
    <3> HIDE DEF m
    <3> QED BY <3>2, <3>3, <3>4
  <2> QED BY <2>1, <2>2
<1>8. <<>> \in TableSeq /\ Els(<<>>) = {} /\ Distinct(<<>>) BY DEF TableSeq, Els, Distinct
<1>9. me[p].seg = <<>> /\ me[p].pc \notin Holding /\ me'[p].pc \notin Holding /\ me'[p].pc \in Labels
  BY <1>1, <1>4, LabelSets DEF SegOK, Compacting, SegLabels, Listed
<1>10. Unborn(p)' \subseteq issued + 1 .. issued'
  <2>1. me'[p].pc = "lockWrite" => Unborn(p)' = {me'[p].id, me'[p].id + 1}
    BY <1>4 DEF Unborn, Writing, Compacting
  <2>2. me'[p].pc = "names" => Unborn(p)' = {me'[p].id + 1} BY <1>4 DEF Unborn, Writing, Merging, Compacting
  <2> QED BY <2>1, <2>2, <1>4, <1>2
<1>11. MeTypes(p)' BY <1>2, <1>4, <1>8, <1>9 DEF MeTypes
<1>12. OthersStay(p) BY <1>1, <1>4 DEF OthersStay
<1>13. OwnNames(p) BY <1>1, <1>2, <1>4, <1>10 DEF OwnNames
<1>14. OwnCommit(p) /\ OwnFiles(p) BY <1>1 DEF OwnCommit, OwnFiles
<1>15. OwnListLock(p) BY <1>1, <1>9 DEF OwnListLock
<1>16. OwnTableLocks(p) BY <1>1, <1>4, <1>8, <1>9 DEF OwnTableLocks
<1>17. DiskTypes'
  <2>1. issued' \in 0 .. MaxTables BY <1>2, <1>3, <1>4
  <2> QED BY <2>1, <1>1, <1>4 DEF DiskTypes
<1>18. IdsOK(p)' BY <1>10, <1>2, <1>4 DEF IdsOK
<1>19. SegOK(p)' BY <1>4, <1>8 DEF SegOK, Compacting, Listed
<1>20. PlaceOK(p)' /\ FlightOK(p)' BY <1>4 DEF PlaceOK, FlightOK, At
<1> QED BY <1>11, <1>12, <1>13, <1>14, <1>15, <1>16, <1>17, <1>18, <1>19, <1>20
  DEF StepOK, ProcOK, Guarantee

(* A step outside the list lock that only looks. *)
LEMMA LookOK ==
  ASSUME StackIndInv, NEW p \in Procs, Still, DOMAIN me' = Procs,
         \A q \in Procs \ {p} : me'[q] = me[q], DOMAIN me'[p] = MeFields,
         me'[p].op = me[p].op, me'[p].plan = me[p].plan, me'[p].id = me[p].id,
         me'[p].next = me[p].next, me'[p].seg = me[p].seg, me'[p].victims = me[p].victims,
         me'[p].names \in TableSeq, me'[p].left \in TableSeq,
         \A t \in Els(me'[p].names) \cup Els(me'[p].left) : Settled(t),
         me[p].pc \notin Holding,
         me'[p].pc \in {"free", "lockSweep", "lockPlan", "sizes", "probe", "answer", "load", "open"},
         me'[p].pc \in {"lockPlan", "sizes", "probe"} => me[p].pc \in Merging \ Writing,
         Compacting(p) => me'[p].pc = "free",
         me'[p].pc = "lockPlan" => me'[p].left # <<>> /\ Els(me'[p].left) \subseteq Els(me'[p].names)
  PROVE  StepOK(p)
<1>1. MeTypes(p) /\ SegOK(p) BY MeShape
<1>2. Unborn(p)' \subseteq Unborn(p) BY DEF Unborn, Compacting, Merging, Writing
<1>3. me'[p].pc \notin Holding /\ me'[p].pc \in Labels BY LabelSets
<1>4. Guarantee(p) /\ DiskTypes' /\ IdsOK(p)' /\ (\A t : Settled(t) => Settled(t)')
  BY <1>2, <1>3, StillGuarantee
<1>5. MeTypes(p)' BY <1>1, <1>3 DEF MeTypes
<1>6. tlocks' = tlocks BY DEF Still, disk
<1>7. \A t \in Els(me'[p].names) \cup Els(me'[p].left) \cup Els(me'[p].seg) : Settled(t)'
  BY <1>1, <1>4 DEF SegOK
<1>8. SegOK(p)' BY <1>1, <1>6, <1>7 DEF SegOK, Compacting, SegLabels, Listed
<1>9. PlaceOK(p)' BY DEF PlaceOK
<1>10. FlightOK(p)' BY DEF FlightOK, At
<1> QED BY <1>4, <1>5, <1>8, <1>9, <1>10 DEF StepOK, ProcOK


(* The labels of a process that holds no table. *)
LEMMA NoSegment ==
  ASSUME StackIndInv, NEW p \in Procs, me[p].pc \notin SegLabels
  PROVE  ~Compacting(p)
BY MeShape DEF SegOK

(* A call that does not get the list lock is all right. *)
LEMMA TimeoutOK ==
  ASSUME StackIndInv, NEW p \in Procs, Timeout(p), UNCHANGED <<use, faults>>
  PROVE  StepOK(p)
<1>1. /\ DOMAIN me = Procs /\ DOMAIN me[p] = MeFields /\ MeTypes(p) /\ SegOK(p) /\ Still
      /\ me[p].pc \in Waiting /\ me[p].pc \notin Holding
  BY MeShape, LabelSets DEF Timeout, Still
<1>2. CASE me[p].pc = "lockSplice"
  <2>1. me' = [me EXCEPT ![p].pc = "free", ![p].threw = TRUE] BY <1>2 DEF Timeout, At
  <2>2. /\ DOMAIN me' = Procs /\ (\A q \in Procs \ {p} : me'[q] = me[q]) /\ DOMAIN me'[p] = MeFields
        /\ me'[p].op = me[p].op /\ me'[p].plan = me[p].plan /\ me'[p].id = me[p].id
        /\ me'[p].next = me[p].next /\ me'[p].seg = me[p].seg /\ me'[p].victims = me[p].victims
        /\ me'[p].names = me[p].names /\ me'[p].left = me[p].left /\ me'[p].pc = "free"
    BY <1>1, <2>1 DEF MeFields
  <2> QED BY <1>1, <2>2, LookOK DEF MeTypes, SegOK
<1>3. CASE me[p].pc # "lockSplice"
  <2>1. Return(p) BY <1>3 DEF Timeout, At
  <2>2. ~Compacting(p) BY <1>1, <1>3, LabelSets, NoSegment DEF SegLabels, Listed
  <2> QED BY <1>1, <2>1, <2>2, ReturnOK
<1> QED BY <1>2, <1>3

(* The names of the list are read, and the tables they name are measured. *)
LEMMA ProbeOK ==
  ASSUME StackIndInv, NEW p \in Procs, UNCHANGED <<use, faults>>,
         \/ ReadFreshTableNames(p) \/ ProbeNames(p) \/ ReadList(p)
  PROVE  StepOK(p)
<1>1. /\ DOMAIN me = Procs /\ DOMAIN me[p] = MeFields /\ MeTypes(p) /\ SegOK(p) /\ Still
      /\ me[p].pc \in {"names", "probe", "load"} /\ me[p].pc \notin Holding
      /\ list \in TableSeq /\ \A t \in Els(list) : Settled(t)
  BY MeShape, LabelSets DEF ReadFreshTableNames, ProbeNames, ReadList, Still, At
<1>2. ~Compacting(p) BY <1>1, NoSegment DEF SegLabels, Listed
<1>3. PICK l \in {"lockSweep", "lockPlan", "sizes", "open"} :
        /\ me' = [me EXCEPT ![p].names = list, ![p].left = list, ![p].pc = l]
        /\ l = "lockPlan" => list # <<>>
        /\ me[p].pc = "load" <=> l = "open"
  <2>1. CASE ReadFreshTableNames(p)
    <3>1. me' = [me EXCEPT ![p].names = list, ![p].left = list,
                           ![p].pc = IF Len(list) < 2 THEN "lockSweep" ELSE "lockPlan"]
          /\ me[p].pc = "names"
      BY <2>1 DEF ReadFreshTableNames, At
    <3>2. ~(Len(list) < 2) => list # <<>> BY <1>1
    <3>3. CASE Len(list) < 2 BY <3>1, <3>3
    <3>4. CASE ~(Len(list) < 2) BY <3>1, <3>2, <3>4
    <3> QED BY <3>3, <3>4
  <2>2. CASE ProbeNames(p) BY <2>2 DEF ProbeNames, At
  <2>3. CASE ReadList(p)
    <3>1. me' = [me EXCEPT ![p].pc = "open", ![p].names = list, ![p].left = list] BY <2>3 DEF ReadList
    <3>2. me' = [me EXCEPT ![p].names = list, ![p].left = list, ![p].pc = "open"] BY <3>1, <1>1 DEF MeFields
    <3> QED BY <3>2, <2>3 DEF ReadList, At
  <2> QED BY <2>1, <2>2, <2>3
<1>4. /\ DOMAIN me' = Procs /\ (\A q \in Procs \ {p} : me'[q] = me[q]) /\ DOMAIN me'[p] = MeFields
      /\ me'[p].op = me[p].op /\ me'[p].plan = me[p].plan /\ me'[p].id = me[p].id
      /\ me'[p].next = me[p].next /\ me'[p].seg = me[p].seg /\ me'[p].victims = me[p].victims
      /\ me'[p].names = list /\ me'[p].left = list /\ me'[p].pc = l
  BY <1>1, <1>3 DEF MeFields
<1> QED BY <1>1, <1>2, <1>3, <1>4, LookOK DEF Merging, Writing

(* The sizes and the plan are local. *)
LEMMA SizeOK ==
  ASSUME StackIndInv, NEW p \in Procs, UNCHANGED <<use, faults>>,
         ProbeSize(p) \/ PlanCompaction(p)
  PROVE  StepOK(p)
<1>1. /\ DOMAIN me = Procs /\ DOMAIN me[p] = MeFields /\ MeTypes(p) /\ SegOK(p) /\ Still
      /\ me[p].pc = "sizes" /\ me[p].pc \notin Holding
  BY MeShape, LabelSets DEF ProbeSize, PlanCompaction, Still, At
<1>2. ~Compacting(p) BY <1>1, NoSegment DEF SegLabels, Listed
<1>3. \/ Return(p)
      \/ \E s \in TableSeq, l \in {"sizes", "lockPlan"} :
           /\ me' = [me EXCEPT ![p].left = s, ![p].pc = l]
           /\ Els(s) \subseteq Els(me[p].left) \cup Els(me[p].names)
           /\ l = "lockPlan" => s # <<>> /\ Els(s) \subseteq Els(me[p].names)
  <2>1. CASE ProbeSize(p) /\ ~Return(p)
    <3>1. me' = [me EXCEPT ![p].left = Tail(@)] /\ me[p].left # <<>> BY <2>1 DEF ProbeSize
    <3>2. me' = [me EXCEPT ![p].left = Tail(me[p].left), ![p].pc = "sizes"] BY <3>1, <1>1 DEF MeFields
    <3>3. Tail(me[p].left) \in TableSeq /\ Els(Tail(me[p].left)) \subseteq Els(me[p].left)
      BY <3>1, <1>1, ElsTail DEF MeTypes
    <3> QED BY <3>2, <3>3
  <2>2. CASE PlanCompaction(p) /\ ~Return(p)
    <3>1. PICK i, j \in DOMAIN me[p].names :
            i < j /\ me' = [me EXCEPT ![p].left = SubSeq(me[p].names, i, j), ![p].pc = "lockPlan"]
      BY <2>2 DEF PlanCompaction
    <3>2. i \in 1 .. Len(me[p].names) /\ j \in 1 .. Len(me[p].names) /\ me[p].names \in TableSeq
      BY <1>1 DEF MeTypes, TableSeq
    <3> DEFINE s == SubSeq(me[p].names, i, j)
    <3>3. /\ s \in TableSeq /\ Els(s) \subseteq Els(me[p].names)
          /\ Len(s) = j - i + 1
      BY <3>1, <3>2, ElsPart
    <3> HIDE DEF s
    <3>4. s # <<>> BY <3>1, <3>2, <3>3
    <3> QED BY <3>1, <3>3, <3>4 DEF s
  <2> QED BY <2>1, <2>2
<1>4. CASE Return(p) BY <1>1, <1>2, <1>4, ReturnOK
<1>5. CASE ~Return(p)
  <2>1. PICK s \in TableSeq, l \in {"sizes", "lockPlan"} :
           /\ me' = [me EXCEPT ![p].left = s, ![p].pc = l]
           /\ Els(s) \subseteq Els(me[p].left) \cup Els(me[p].names)
           /\ l = "lockPlan" => s # <<>> /\ Els(s) \subseteq Els(me[p].names)
    BY <1>3, <1>5
  <2>2. /\ DOMAIN me' = Procs /\ (\A q \in Procs \ {p} : me'[q] = me[q]) /\ DOMAIN me'[p] = MeFields
        /\ me'[p].op = me[p].op /\ me'[p].plan = me[p].plan /\ me'[p].id = me[p].id
        /\ me'[p].next = me[p].next /\ me'[p].seg = me[p].seg /\ me'[p].victims = me[p].victims
        /\ me'[p].names = me[p].names /\ me'[p].left = s /\ me'[p].pc = l
    BY <1>1, <2>1 DEF MeFields
  <2>3. me'[p].names \in TableSeq /\ \A t \in Els(me[p].left) \cup Els(me[p].names) : Settled(t)
    BY <1>1, <2>2 DEF MeTypes, SegOK
  <2> QED BY <1>1, <1>2, <2>1, <2>2, <2>3, LookOK DEF Merging, Writing
<1> QED BY <1>4, <1>5

(* Forgetting the memo is all right. *)
LEMMA InvalidateOK ==
  ASSUME StackIndInv, NEW p \in Procs, UNCHANGED <<use, faults>>, Invalidate(p)
  PROVE  StepOK(p)
<1>1. /\ DOMAIN me = Procs /\ DOMAIN me[p] = MeFields /\ MeTypes(p) /\ SegOK(p) /\ Still
      /\ me[p].pc = "invalidate" /\ me[p].pc \notin Holding
      /\ me' = [me EXCEPT ![p].pc = "probe"]
  BY MeShape, LabelSets DEF Invalidate, Still, At, Goto
<1>2. ~Compacting(p) BY <1>1, NoSegment DEF SegLabels, Listed
<1>3. /\ DOMAIN me' = Procs /\ (\A q \in Procs \ {p} : me'[q] = me[q]) /\ DOMAIN me'[p] = MeFields
      /\ me'[p].op = me[p].op /\ me'[p].plan = me[p].plan /\ me'[p].id = me[p].id
      /\ me'[p].next = me[p].next /\ me'[p].seg = me[p].seg /\ me'[p].victims = me[p].victims
      /\ me'[p].names = me[p].names /\ me'[p].left = me[p].left /\ me'[p].pc = "probe"
  BY <1>1 DEF MeFields
<1> QED BY <1>1, <1>2, <1>3, LookOK DEF Merging, Writing, MeTypes, SegOK

(* The rest of a read. *)
LEMMA ReadOK ==
  ASSUME StackIndInv, NEW p \in Procs, UNCHANGED <<use, faults>>,
         StatList(p) \/ OpenTable(p) \/ FillCache(p) \/ Answer(p)
  PROVE  StepOK(p)
<1>1. /\ DOMAIN me = Procs /\ DOMAIN me[p] = MeFields /\ MeTypes(p) /\ SegOK(p) /\ Still
      /\ me[p].pc \in {"stat", "open", "answer"} /\ me[p].pc \notin Holding
  BY MeShape, LabelSets DEF StatList, OpenTable, FillCache, Answer, Still, At
<1>2. ~Compacting(p) BY <1>1, NoSegment DEF SegLabels, Listed
<1>3. CASE Return(p) BY <1>1, <1>2, <1>3, ReturnOK
<1>4. CASE ~Return(p)
  <2>1. /\ DOMAIN me' = Procs /\ (\A q \in Procs \ {p} : me'[q] = me[q]) /\ DOMAIN me'[p] = MeFields
        /\ me'[p].op = me[p].op /\ me'[p].plan = me[p].plan /\ me'[p].id = me[p].id
        /\ me'[p].next = me[p].next /\ me'[p].seg = me[p].seg /\ me'[p].victims = me[p].victims
        /\ me'[p].names = me[p].names
        /\ me'[p].left = me[p].left \/ (me[p].left # <<>> /\ me'[p].left = Tail(me[p].left))
        /\ me'[p].pc \in {"answer", "load", "open"}
    <3>1. CASE StatList(p) BY <3>1, <1>1 DEF StatList, MeFields
    <3>2. CASE OpenTable(p)
      <4>1. \/ me' = [me EXCEPT ![p].left = Tail(@)] /\ me[p].pc = "open" /\ me[p].left # <<>>
            \/ me' = [me EXCEPT ![p].pc = "load", ![p].tries = 2]
        BY <3>2, <1>4 DEF OpenTable, At
      <4>2. CASE me' = [me EXCEPT ![p].left = Tail(@)] /\ me[p].pc = "open" /\ me[p].left # <<>>
        BY <4>2, <1>1 DEF MeFields
      <4>3. CASE me' = [me EXCEPT ![p].pc = "load", ![p].tries = 2] BY <4>3, <1>1 DEF MeFields
      <4> QED BY <4>1, <4>2, <4>3
    <3>3. CASE FillCache(p) BY <3>3, <1>1 DEF FillCache, MeFields
    <3>4. CASE Answer(p) BY <3>4, <1>4 DEF Answer
    <3> QED BY <3>1, <3>2, <3>3, <3>4
  <2>2. me'[p].left \in TableSeq /\ Els(me'[p].left) \subseteq Els(me[p].left)
    BY <1>1, <2>1, ElsTail DEF MeTypes
  <2> QED BY <1>1, <1>2, <2>1, <2>2, LookOK DEF MeTypes, SegOK
<1> QED BY <1>3, <1>4


------------------------------
(* The steps that change nothing on disk but the list lock. *)

(* An absent lock file is not a list. *)
LEMMA NoFileNoList == NoFile \notin TableSeq
<1> SUFFICES ASSUME NEW s \in TableSeq PROVE s \in Seq(Nat) BY StackAssumption
<1>1. s \in [1 .. Len(s) -> Tables] /\ Len(s) \in Nat BY DEF TableSeq
<1>2. s \in [1 .. Len(s) -> Nat] BY <1>1 DEF Tables
<1> QED BY <1>1, <1>2, SeqDef

(* A jump changes the label and nothing else. *)
LEMMA GotoFields ==
  ASSUME NEW p \in Procs, DOMAIN me = Procs, DOMAIN me[p] = MeFields, NEW l,
         me' = [me EXCEPT ![p].pc = l]
  PROVE  /\ DOMAIN me' = Procs /\ (\A q \in Procs \ {p} : me'[q] = me[q]) /\ DOMAIN me'[p] = MeFields
         /\ me'[p].op = me[p].op /\ me'[p].plan = me[p].plan /\ me'[p].id = me[p].id
         /\ me'[p].next = me[p].next /\ me'[p].seg = me[p].seg /\ me'[p].victims = me[p].victims
         /\ me'[p].names = me[p].names /\ me'[p].left = me[p].left /\ me'[p].pc = l
BY DEF MeFields

(* A step on the list lock gives the guarantee when it was free or one's *)
(* own. *)
LEMMA LockGuarantee ==
  ASSUME StackIndInv, NEW p \in Procs, DOMAIN me' = Procs,
         \A q \in Procs \ {p} : me'[q] = me[q],
         UNCHANGED <<list, stamp, tlocks, files, temps, body, issued, use, faults>>,
         lockFile' \in TableSeq \cup {NoFile}, OwnListLock(p),
         Els(me'[p].seg) = Els(me[p].seg), Unborn(p)' \subseteq Unborn(p)
  PROVE  Guarantee(p) /\ DiskTypes' /\ IdsOK(p)' /\ (\A t : Settled(t) => Settled(t)')
<1>2. DiskTypes /\ issued \in Nat /\ issued <= issued BY DEF StackIndInv, DiskTypes
<1>3. OthersStay(p) BY DEF OthersStay
<1>4. OwnNames(p) BY <1>2 DEF OwnNames
<1>6. OwnTableLocks(p)
  <2>1. Els(me[p].seg) \subseteq tlocks BY DEF StackIndInv, ProcOK, SegOK
  <2> QED BY <2>1 DEF OwnTableLocks
<1>7. OwnCommit(p) /\ OwnFiles(p) BY DEF OwnCommit, OwnFiles
<1>8. DiskTypes' BY <1>2 DEF DiskTypes
<1>9. \A t : Settled(t) => Settled(t)' BY <1>3, <1>4, SettledStays
<1>10. IdsOK(p)' BY DEF StackIndInv, ProcOK, IdsOK
<1> QED BY <1>3, <1>4, <1>6, <1>7, <1>8, <1>9, <1>10 DEF Guarantee

(* Taking the list lock is all right. *)
LEMMA AcquireOK ==
  ASSUME StackIndInv, NEW p \in Procs, UNCHANGED <<use, faults>>, TryAcquireLock(p)
  PROVE  StepOK(p)
<1>1. /\ DOMAIN me = Procs /\ DOMAIN me[p] = MeFields /\ MeTypes(p) /\ SegOK(p) /\ PlaceOK(p) /\ FlightOK(p)
      /\ me[p].pc \in Waiting
      /\ UNCHANGED <<list, stamp, tlocks, files, temps, body, issued>>
      /\ lockFile = NoFile /\ lockFile' = <<>>
      /\ me' = [me EXCEPT ![p].pc = Then[me[p].pc]]
  BY MeShape DEF TryAcquireLock, Goto
<1>2. PICK l \in {"prepare", "check", "splice", "readdir"} :
        /\ me' = [me EXCEPT ![p].pc = l] /\ l = Then[me[p].pc]
  BY <1>1, LabelSets
<1>4. /\ (me[p].pc = "lockWrite" /\ l = "prepare") \/ (me[p].pc = "lockPlan" /\ l = "check")
         \/ (me[p].pc = "lockSplice" /\ l = "splice") \/ (me[p].pc = "lockSweep" /\ l = "readdir")
  BY <1>1, <1>2, LabelSets
<1>5. /\ DOMAIN me' = Procs /\ (\A q \in Procs \ {p} : me'[q] = me[q]) /\ DOMAIN me'[p] = MeFields
      /\ me'[p].op = me[p].op /\ me'[p].plan = me[p].plan /\ me'[p].id = me[p].id
      /\ me'[p].next = me[p].next /\ me'[p].seg = me[p].seg /\ me'[p].victims = me[p].victims
      /\ me'[p].names = me[p].names /\ me'[p].left = me[p].left /\ me'[p].pc = l
  BY <1>1, <1>2, GotoFields
<1>6. Unborn(p)' = Unborn(p) BY <1>4, <1>5 DEF Unborn, Compacting, Writing, Merging
<1>7. <<>> \in TableSeq /\ NoFile # <<>>
  <2>1. <<>> \in TableSeq BY DEF TableSeq
  <2> QED BY <2>1, NoFileNoList
<1>8. l \in Holding /\ l \in Labels BY <1>4, LabelSets
<1>9. OwnListLock(p) BY <1>1, <1>5, <1>7, <1>8 DEF OwnListLock
<1>10. Guarantee(p) /\ DiskTypes' /\ IdsOK(p)' /\ (\A t : Settled(t) => Settled(t)')
  BY <1>1, <1>5, <1>6, <1>7, <1>9, LockGuarantee
<1>11. MeTypes(p)' BY <1>1, <1>5, <1>8 DEF MeTypes
<1>12. SegOK(p)' BY <1>1, <1>4, <1>5, <1>10 DEF SegOK, Compacting, SegLabels, Listed
<1>13. OwnTable(p)' = OwnTable(p) /\ Compacting(p)' = Compacting(p) BY <1>5 DEF OwnTable, Compacting
<1>14. PlaceOK(p)' BY <1>1, <1>4, <1>5, <1>13 DEF PlaceOK
<1>15. FlightOK(p)' BY <1>1, <1>4, <1>5, <1>13 DEF FlightOK, At
<1> QED BY <1>10, <1>11, <1>12, <1>14, <1>15 DEF StepOK, ProcOK

(* Releasing it is. *)
LEMMA UnlockOK ==
  ASSUME StackIndInv, NEW p \in Procs, UNCHANGED <<use, faults>>, Unlock(p)
  PROVE  StepOK(p)
<1>1. /\ DOMAIN me = Procs /\ DOMAIN me[p] = MeFields /\ MeTypes(p) /\ SegOK(p)
      /\ me[p].pc = "unlock" /\ me[p].pc \in Holding
      /\ UNCHANGED <<list, stamp, tlocks, files, temps, body, issued>>
      /\ lockFile' = NoFile
  BY MeShape, LabelSets DEF Unlock, At
<1>2. CASE me[p].seg # <<>>
  <2>1. me' = [me EXCEPT ![p].pc = "free"] BY <1>2 DEF Unlock, Goto
  <2>2. /\ DOMAIN me' = Procs /\ (\A q \in Procs \ {p} : me'[q] = me[q]) /\ DOMAIN me'[p] = MeFields
        /\ me'[p].op = me[p].op /\ me'[p].plan = me[p].plan /\ me'[p].id = me[p].id
        /\ me'[p].next = me[p].next /\ me'[p].seg = me[p].seg /\ me'[p].victims = me[p].victims
        /\ me'[p].names = me[p].names /\ me'[p].left = me[p].left /\ me'[p].pc = "free"
    BY <1>1, <2>1, GotoFields
  <2>3. Unborn(p)' = {} BY <2>2 DEF Unborn, Writing, Merging
  <2>4. OwnListLock(p) BY <1>1, <2>2, LabelSets DEF OwnListLock
  <2>5. Guarantee(p) /\ DiskTypes' /\ IdsOK(p)' /\ (\A t : Settled(t) => Settled(t)')
    BY <1>1, <2>2, <2>3, <2>4, LockGuarantee
  <2>6. MeTypes(p)' BY <1>1, <2>2, LabelSets DEF MeTypes
  <2>7. SegOK(p)' BY <1>1, <2>2, <2>5 DEF SegOK, Compacting, SegLabels, Listed
  <2>8. PlaceOK(p)' /\ FlightOK(p)' BY <2>2 DEF PlaceOK, FlightOK, At
  <2> QED BY <2>5, <2>6, <2>7, <2>8 DEF StepOK, ProcOK
<1>3. CASE me[p].seg = <<>>
  <2>1. me'[p] = Idle /\ DOMAIN me' = Procs /\ \A q \in Procs \ {p} : me'[q] = me[q]
    BY <1>1, <1>3 DEF Unlock, Return
  <2>2. OwnListLock(p) BY <1>1, <2>1, IdleOK, LabelSets DEF OwnListLock
  <2>3. Els(me[p].seg) = {} BY <1>3 DEF Els
  <2>4. Guarantee(p) /\ DiskTypes' BY <1>1, <2>1, <2>2, <2>3, IdleOK, LockGuarantee
  <2> QED BY <2>1, <2>4, IdleOK DEF StepOK
<1> QED BY <1>2, <1>3

(* Releasing it after the tables are locked is. *)
LEMMA UnlockPlanOK ==
  ASSUME StackIndInv, NEW p \in Procs, UNCHANGED <<use, faults>>, UnlockPlan(p)
  PROVE  StepOK(p)
<1>1. /\ DOMAIN me = Procs /\ DOMAIN me[p] = MeFields /\ MeTypes(p) /\ SegOK(p)
      /\ me[p].pc = "unplan" /\ me[p].pc \in Holding
      /\ UNCHANGED <<list, stamp, tlocks, files, temps, body, issued>>
      /\ lockFile' = NoFile
  BY MeShape, LabelSets DEF UnlockPlan, At
<1>2. ASSUME NEW l \in {"merge", "lockSweep"}, me' = [me EXCEPT ![p].pc = l],
             l = "merge" <=> Compacting(p)
      PROVE  StepOK(p)
  <2>2. /\ DOMAIN me' = Procs /\ (\A q \in Procs \ {p} : me'[q] = me[q]) /\ DOMAIN me'[p] = MeFields
        /\ me'[p].op = me[p].op /\ me'[p].plan = me[p].plan /\ me'[p].id = me[p].id
        /\ me'[p].next = me[p].next /\ me'[p].seg = me[p].seg /\ me'[p].victims = me[p].victims
        /\ me'[p].names = me[p].names /\ me'[p].left = me[p].left /\ me'[p].pc = l
    BY <1>1, <1>2, GotoFields
  <2>3. Unborn(p)' \subseteq Unborn(p) BY <1>1, <2>2 DEF Unborn, Writing, Merging
  <2>4. OwnListLock(p) BY <1>1, <2>2, LabelSets DEF OwnListLock
  <2>5. Guarantee(p) /\ DiskTypes' /\ IdsOK(p)' /\ (\A t : Settled(t) => Settled(t)')
    BY <1>1, <2>2, <2>3, <2>4, LockGuarantee
  <2>6. MeTypes(p)' BY <1>1, <2>2, LabelSets DEF MeTypes
  <2>7. SegOK(p)' BY <1>1, <1>2, <2>2, <2>5 DEF SegOK, Compacting, SegLabels, Listed
  <2>8. PlaceOK(p)' /\ FlightOK(p)' BY <2>2 DEF PlaceOK, FlightOK, At
  <2> QED BY <2>5, <2>6, <2>7, <2>8 DEF StepOK, ProcOK
<1>3. ASSUME Return(p), ~Compacting(p) PROVE StepOK(p)
  <2>1. me'[p] = Idle /\ DOMAIN me' = Procs /\ \A q \in Procs \ {p} : me'[q] = me[q] BY <1>1, <1>3 DEF Return
  <2>2. OwnListLock(p) BY <1>1, <2>1, IdleOK, LabelSets DEF OwnListLock
  <2>3. Els(me[p].seg) = {} BY <1>3 DEF Els, Compacting
  <2>4. Guarantee(p) /\ DiskTypes' BY <1>1, <2>1, <2>2, <2>3, IdleOK, LockGuarantee
  <2> QED BY <2>1, <2>4, IdleOK DEF StepOK
<1>4. \/ Compacting(p) /\ me' = [me EXCEPT ![p].pc = "merge"]
      \/ ~Compacting(p) /\ me' = [me EXCEPT ![p].pc = "lockSweep"]
      \/ ~Compacting(p) /\ Return(p)
  BY DEF UnlockPlan, NoCompaction, Goto
<1> QED BY <1>2, <1>3, <1>4

(* Writing the new list into the lock file is. *)
LEMMA WriteLockBodyOK ==
  ASSUME StackIndInv, NEW p \in Procs, UNCHANGED <<use, faults>>, WriteLockBody(p)
  PROVE  StepOK(p)
<1>1. /\ DOMAIN me = Procs /\ DOMAIN me[p] = MeFields /\ MeTypes(p) /\ SegOK(p) /\ PlaceOK(p) /\ FlightOK(p)
      /\ me[p].pc = "lockBody" /\ me[p].pc \in Holding
      /\ UNCHANGED <<list, stamp, tlocks, files, temps, body, issued>>
      /\ lockFile' = me[p].next
      /\ me' = [me EXCEPT ![p].pc = "commit"]
  BY MeShape, LabelSets DEF WriteLockBody, At, Goto
<1>2. /\ DOMAIN me' = Procs /\ (\A q \in Procs \ {p} : me'[q] = me[q]) /\ DOMAIN me'[p] = MeFields
      /\ me'[p].op = me[p].op /\ me'[p].plan = me[p].plan /\ me'[p].id = me[p].id
      /\ me'[p].next = me[p].next /\ me'[p].seg = me[p].seg /\ me'[p].victims = me[p].victims
      /\ me'[p].names = me[p].names /\ me'[p].left = me[p].left /\ me'[p].pc = "commit"
  BY <1>1, GotoFields
<1>3. Unborn(p)' = Unborn(p) BY <1>1, <1>2 DEF Unborn, Writing, Merging, Compacting
<1>4. me[p].next \in TableSeq /\ me[p].next # NoFile BY <1>1, NoFileNoList DEF MeTypes
<1>5. OwnListLock(p) BY <1>1, <1>2, <1>4, LabelSets DEF OwnListLock
<1>6. Guarantee(p) /\ DiskTypes' /\ IdsOK(p)' /\ (\A t : Settled(t) => Settled(t)')
  BY <1>1, <1>2, <1>3, <1>4, <1>5, LockGuarantee
<1>7. MeTypes(p)' BY <1>1, <1>2, LabelSets DEF MeTypes
<1>8. SegOK(p)' BY <1>1, <1>2, <1>6 DEF SegOK, Compacting, SegLabels, Listed
<1>9. OwnTable(p)' = OwnTable(p) /\ Compacting(p)' = Compacting(p) BY <1>2 DEF OwnTable, Compacting
<1>10. NextOK(p)' = NextOK(p) BY <1>1, <1>2, <1>9 DEF NextOK, MaxUpdateIndex
<1>11. PlaceOK(p)' BY <1>1, <1>2, <1>9, <1>10 DEF PlaceOK
<1>12. FlightOK(p)' BY <1>1, <1>2, <1>9 DEF FlightOK, At
<1> QED BY <1>6, <1>7, <1>8, <1>11, <1>12 DEF StepOK, ProcOK


(* The steps under the list lock that change nothing on disk. *)
LEMMA PrepareOK ==
  ASSUME StackIndInv, NEW p \in Procs, UNCHANGED <<use, faults>>, PrepareStackWrite(p)
  PROVE  StepOK(p)
<1>1. /\ DOMAIN me = Procs /\ DOMAIN me[p] = MeFields /\ MeTypes(p) /\ SegOK(p) /\ PlaceOK(p)
      /\ me[p].pc = "prepare" /\ Still /\ list' = list
      /\ list \in TableSeq /\ \A t \in Els(list) : Settled(t)
  BY MeShape DEF PrepareStackWrite, At, Still, disk
<1>2. ~Compacting(p) BY <1>1, NoSegment DEF SegLabels, Listed
<1>3. PICK l \in {"stage", "unlock"} : me' = [me EXCEPT ![p].names = list, ![p].pc = l]
  BY DEF PrepareStackWrite
<1>4. /\ DOMAIN me' = Procs /\ (\A q \in Procs \ {p} : me'[q] = me[q]) /\ DOMAIN me'[p] = MeFields
      /\ me'[p].op = me[p].op /\ me'[p].plan = me[p].plan /\ me'[p].id = me[p].id
      /\ me'[p].next = me[p].next /\ me'[p].seg = me[p].seg /\ me'[p].victims = me[p].victims
      /\ me'[p].names = list /\ me'[p].left = me[p].left /\ me'[p].pc = l
  BY <1>1, <1>3 DEF MeFields
<1>5. Unborn(p)' \subseteq Unborn(p) BY <1>1, <1>2, <1>4 DEF Unborn, Writing, Merging, Compacting
<1>6. Guarantee(p) /\ DiskTypes' /\ IdsOK(p)' /\ (\A t : Settled(t) => Settled(t)')
  BY <1>1, <1>4, <1>5, StillGuarantee, LabelSets
<1>7. MeTypes(p)' BY <1>1, <1>4, LabelSets DEF MeTypes
<1>8. SegOK(p)' BY <1>1, <1>2, <1>4, <1>6 DEF SegOK, Compacting, SegLabels, Listed, Still, disk
<1>9. PlaceOK(p)' BY <1>1, <1>4 DEF PlaceOK
<1>10. FlightOK(p)' BY <1>4 DEF FlightOK, At
<1> QED BY <1>6, <1>7, <1>8, <1>9, <1>10 DEF StepOK, ProcOK

(* Comparing the list with the one that was probed is. *)
LEMMA CheckNamesOK ==
  ASSUME StackIndInv, NEW p \in Procs, UNCHANGED <<use, faults>>, CheckNames(p)
  PROVE  StepOK(p)
<1>1. /\ DOMAIN me = Procs /\ DOMAIN me[p] = MeFields /\ MeTypes(p) /\ SegOK(p) /\ PlaceOK(p)
      /\ me[p].pc = "check" /\ Still /\ list' = list
  BY MeShape DEF CheckNames, At, Still, disk
<1>2. ~Compacting(p) BY <1>1, NoSegment DEF SegLabels, Listed
<1>3. PICK l \in {"tables", "unplan"} :
        me' = [me EXCEPT ![p].pc = l] /\ (l = "tables" => list = me[p].names)
  BY DEF CheckNames, Goto
<1>4. /\ DOMAIN me' = Procs /\ (\A q \in Procs \ {p} : me'[q] = me[q]) /\ DOMAIN me'[p] = MeFields
      /\ me'[p].op = me[p].op /\ me'[p].plan = me[p].plan /\ me'[p].id = me[p].id
      /\ me'[p].next = me[p].next /\ me'[p].seg = me[p].seg /\ me'[p].victims = me[p].victims
      /\ me'[p].names = me[p].names /\ me'[p].left = me[p].left /\ me'[p].pc = l
  BY <1>1, <1>3, GotoFields
<1>5. Unborn(p)' \subseteq Unborn(p) BY <1>1, <1>2, <1>4 DEF Unborn, Writing, Merging, Compacting
<1>6. Guarantee(p) /\ DiskTypes' /\ IdsOK(p)' /\ (\A t : Settled(t) => Settled(t)')
  BY <1>1, <1>4, <1>5, StillGuarantee, LabelSets
<1>7. MeTypes(p)' BY <1>1, <1>4, LabelSets DEF MeTypes
<1>8. SegOK(p)'
  <2>1. me[p].seg = <<>> /\ Els(<<>>) = {} BY <1>2 DEF Compacting, Els
  <2> QED BY <2>1, <1>1, <1>4, <1>6 DEF SegOK, Compacting, SegLabels, Listed
<1>9. PlaceOK(p)' BY <1>1, <1>3, <1>4 DEF PlaceOK
<1>10. FlightOK(p)' BY <1>4 DEF FlightOK, At
<1> QED BY <1>6, <1>7, <1>8, <1>9, <1>10 DEF StepOK, ProcOK

(* What a sweep means to unlink is named by nobody. *)
LEMMA ReadDirectoryOK ==
  ASSUME StackIndInv, NEW p \in Procs, UNCHANGED <<use, faults>>, ReadDirectory(p)
  PROVE  StepOK(p)
<1>1. /\ DOMAIN me = Procs /\ DOMAIN me[p] = MeFields /\ MeTypes(p) /\ SegOK(p) /\ PlaceOK(p) /\ DiskTypes
      /\ me[p].pc = "readdir" /\ Still /\ list' = list /\ tlocks' = tlocks /\ list \in TableSeq
  BY MeShape DEF ReadDirectory, At, Still, disk
<1>2. ~Compacting(p) BY <1>1, NoSegment DEF SegLabels, Listed
<1> DEFINE V == ((files \ {list[i] : i \in DOMAIN list}) \X {"ref"})
                        \cup (IF tlocks = {} THEN temps \X {"temp"} ELSE {})
<1>3. me' = [me EXCEPT ![p].pc = "sweep", ![p].victims = V] BY DEF ReadDirectory
<1>4. /\ V \subseteq Tables \X {"ref", "temp"}
      /\ \A v \in V : v[2] = "ref" => v[1] \notin Els(list)
      /\ \A v \in V : v[2] = "temp" => tlocks = {}
  <2>1. files \subseteq Tables /\ temps \subseteq Tables BY <1>1 DEF DiskTypes
  <2>2. {list[i] : i \in DOMAIN list} = Els(list) BY <1>1 DEF Els, TableSeq
  <2> QED BY <2>1, <2>2
<1> HIDE DEF V
<1>5. /\ DOMAIN me' = Procs /\ (\A q \in Procs \ {p} : me'[q] = me[q]) /\ DOMAIN me'[p] = MeFields
      /\ me'[p].op = me[p].op /\ me'[p].plan = me[p].plan /\ me'[p].id = me[p].id
      /\ me'[p].next = me[p].next /\ me'[p].seg = me[p].seg /\ me'[p].victims = V
      /\ me'[p].names = me[p].names /\ me'[p].left = me[p].left /\ me'[p].pc = "sweep"
  BY <1>1, <1>3 DEF MeFields
<1>6. Unborn(p)' = {} BY <1>5 DEF Unborn, Writing, Merging
<1>7. Guarantee(p) /\ DiskTypes' /\ IdsOK(p)' /\ (\A t : Settled(t) => Settled(t)')
  BY <1>1, <1>5, <1>6, StillGuarantee, LabelSets
<1>8. MeTypes(p)' BY <1>1, <1>4, <1>5, LabelSets DEF MeTypes
<1>9. SegOK(p)'
  <2>1. me[p].seg = <<>> /\ Els(<<>>) = {} BY <1>2 DEF Compacting, Els
  <2> QED BY <2>1, <1>1, <1>5, <1>7 DEF SegOK, Compacting, SegLabels, Listed
<1>10. PlaceOK(p)' BY <1>1, <1>4, <1>5 DEF PlaceOK
<1>11. FlightOK(p)' BY <1>5 DEF FlightOK, At
<1> QED BY <1>7, <1>8, <1>9, <1>10, <1>11 DEF StepOK, ProcOK

------------------------------
(* What the operators on tables return. *)

(* A set of positions has a last one. *)
LEMMA LastPosition ==
  ASSUME NEW n \in Nat, NEW I, I \subseteq 1 .. n, I # {}
  PROVE  Max(I) \in I /\ \A i \in I : i <= Max(I)
<1> DEFINE T == {n - i : i \in I}
<1>0. \A i \in I : n - i \in Nat OBVIOUS
<1>1. T \subseteq Nat /\ T # {} BY <1>0
<1>2. \E x \in T : \A y \in T : ~(<<y, x>> \in OpToRel(<, Nat)) BY <1>1, NatLessThanWellFounded, WFMin
<1>3. PICK x \in T : \A y \in T : ~(y < x) BY <1>1, <1>2 DEF OpToRel
<1>4. PICK j \in I : x = n - j OBVIOUS
<1>5. \A i \in I : ~(n - i < n - j) BY <1>3, <1>4
<1>6. \A i \in I : j >= i BY <1>5
<1>7. Max(I) \in I /\ \A i \in I : Max(I) >= i BY <1>6 DEF Max
<1> QED BY <1>7

(* The newest record of a name is a record. *)
LEMMA NewestType ==
  ASSUME body \in [Tables -> [recs : Records, index : Nat]], NEW ts \in TableSeq, NEW r \in Refs
  PROVE  Newest(ts, r) \in Vals \cup {None, NoRecord}
<1> DEFINE I == {i \in DOMAIN ts : body[ts[i]].recs[r] # NoRecord}
<1>1. Len(ts) \in Nat /\ I \subseteq 1 .. Len(ts) /\ \A i \in 1 .. Len(ts) : ts[i] \in Tables BY DEF TableSeq
<1>2. Newest(ts, r) = IF I = {} THEN NoRecord ELSE body[ts[Max(I)]].recs[r] BY DEF Newest
<1> HIDE DEF I
<1>3. CASE I = {} BY <1>2, <1>3
<1>4. CASE I # {}
  <2>1. ts[Max(I)] \in Tables BY <1>1, <1>4, LastPosition
  <2>2. body[ts[Max(I)]].recs \in Records BY <2>1
  <2> QED BY <2>2, <1>2, <1>4 DEF Records
<1> QED BY <1>3, <1>4

(* Merged tables have records. *)
LEMMA MergedType ==
  ASSUME body \in [Tables -> [recs : Records, index : Nat]], NEW ts \in TableSeq, NEW b
  PROVE  Merged(ts, b) \in Records
<1> SUFFICES ASSUME NEW r \in Refs
             PROVE  (IF b /\ Newest(ts, r) = None THEN NoRecord ELSE Newest(ts, r)) \in Vals \cup {None, NoRecord}
  BY DEF Merged, Records
<1> QED BY NewestType

(* So has a transaction. *)
LEMMA RecordsOfType ==
  ASSUME NEW P \in Plans, NEW m
  PROVE  RecordsOf(P, m) \in Records
<1> SUFFICES ASSUME NEW r \in Refs, r \in DOMAIN P PROVE P[r].val \in Vals \cup {None, NoRecord}
  BY DEF RecordsOf, Records
<1>1. PICK D \in (SUBSET Refs) \ {{}} :
        P \in [D -> [val : Vals \cup {None}, exp : Vals \cup {None, Always}]]
  BY StackAssumption
<1> QED BY <1>1

(* An update index is a number. *)
LEMMA UpdateIndexType ==
  ASSUME body \in [Tables -> [recs : Records, index : Nat]], NEW ts \in TableSeq
  PROVE  MaxUpdateIndex(ts) \in Nat
BY DEF MaxUpdateIndex, TableSeq


------------------------------
(* The steps that write tables. *)

(* The table of a transaction is written under its own name. *)
LEMMA WriteTempOK ==
  ASSUME StackIndInv, NEW p \in Procs, UNCHANGED <<use, faults>>, WriteTempTable(p)
  PROVE  StepOK(p)
<1> DEFINE n == me[p].id
           new == [recs |-> RecordsOf(me[p].plan, View(list)), index |-> MaxUpdateIndex(list) + 1]
<1>1. /\ DOMAIN me = Procs /\ DOMAIN me[p] = MeFields /\ MeTypes(p) /\ SegOK(p) /\ PlaceOK(p) /\ DiskTypes
      /\ me[p].pc = "stage" /\ me[p].names = list /\ list \in TableSeq
      /\ list' = list /\ stamp' = stamp /\ lockFile' = lockFile /\ tlocks' = tlocks
      /\ files' = files /\ issued' = issued /\ temps' = temps \cup {n}
      /\ \A t \in Els(list) : Settled(t)
  BY MeShape DEF WriteTempTable, At, PlaceOK
<1>2. ~Compacting(p) BY <1>1, NoSegment DEF SegLabels, Listed
<1>3. body' = [body EXCEPT ![n] = new] BY <1>1 DEF WriteTempTable
<1>4. me' = [me EXCEPT ![p].pc = "rename", ![p].next = Append(list, n)] BY <1>1 DEF WriteTempTable
<1>5. /\ DOMAIN me' = Procs /\ (\A q \in Procs \ {p} : me'[q] = me[q]) /\ DOMAIN me'[p] = MeFields
      /\ me'[p].op = me[p].op /\ me'[p].plan = me[p].plan /\ me'[p].id = n
      /\ me'[p].next = Append(list, n) /\ me'[p].seg = me[p].seg /\ me'[p].victims = me[p].victims
      /\ me'[p].names = me[p].names /\ me'[p].left = me[p].left /\ me'[p].pc = "rename"
  BY <1>1, <1>4 DEF MeFields
<1>6. n \in Unborn(p) /\ n \in Tables /\ ~Settled(n) BY <1>1, <1>2, OwnIsUnborn DEF Writing, OwnTable
<1>7. Unborn(p)' = Unborn(p) BY <1>1, <1>2, <1>5 DEF Unborn, Writing, Compacting
<1>8. new \in [recs : Records, index : Nat]
  <2>1. RecordsOf(me[p].plan, View(list)) \in Records BY <1>1, RecordsOfType DEF PlaceOK
  <2>2. MaxUpdateIndex(list) \in Nat BY <1>1, UpdateIndexType DEF DiskTypes
  <2> QED BY <2>1, <2>2
<1>9. /\ body' \in [Tables -> [recs : Records, index : Nat]]
      /\ body'[n] = new /\ \A t \in Tables : t # n => body'[t] = body[t]
  BY <1>1, <1>3, <1>6, <1>8 DEF DiskTypes
<1>10. new.index = MaxUpdateIndex(list) + 1 OBVIOUS
<1> HIDE DEF new
<1>11. OthersStay(p) BY <1>5 DEF OthersStay
<1>12. OwnNames(p)
  <2>1. issued \in Nat /\ issued <= issued BY <1>1 DEF DiskTypes
  <2> QED BY <2>1, <1>1, <1>6, <1>7, <1>9 DEF OwnNames
<1>13. \A t : Settled(t) => Settled(t)' BY <1>11, <1>12, SettledStays
<1>14. OwnCommit(p) /\ OwnFiles(p) BY <1>1 DEF OwnCommit, OwnFiles
<1>15. OwnListLock(p)
  <2>1. lockFile # NoFile BY <1>1, LabelSets DEF StackIndInv, ListLockExclusive
  <2> QED BY <2>1, <1>1, <1>5, LabelSets DEF OwnListLock
<1>16. OwnTableLocks(p) BY <1>1, <1>5 DEF OwnTableLocks, SegOK
<1>17. DiskTypes' BY <1>1, <1>5, <1>6, <1>9 DEF DiskTypes
<1>18. MeTypes(p)' BY <1>1, <1>5, <1>6, ElsAppend, LabelSets DEF MeTypes
<1>19. IdsOK(p)' BY <1>1, <1>7, MeShape DEF IdsOK
<1>20. SegOK(p)'
  <2>1. me[p].seg = <<>> /\ Els(<<>>) = {} BY <1>2 DEF Compacting, Els
  <2> QED BY <2>1, <1>1, <1>5, <1>13 DEF SegOK, Compacting, SegLabels, Listed
<1>21. Compacting(p)' = FALSE /\ OwnTable(p)' = n BY <1>2, <1>5 DEF Compacting, OwnTable
<1>22. NextOK(p)'
  <2>1. MaxUpdateIndex(list)' = MaxUpdateIndex(list)
    <3> SUFFICES ASSUME list # <<>> PROVE body'[list[Len(list)]] = body[list[Len(list)]]
      BY <1>1 DEF MaxUpdateIndex
    <3>1. Last(list) \in Els(list) BY <1>1, ElsLast
    <3> QED BY <3>1, <1>1, <1>11, <1>12, SettledStays DEF Last
  <2> QED BY <2>1, <1>1, <1>5, <1>9, <1>10, <1>21 DEF NextOK
<1>23. PlaceOK(p)' BY <1>1, <1>5, <1>21, <1>22 DEF PlaceOK
<1>24. FlightOK(p)' BY <1>1, <1>5, <1>21 DEF FlightOK, At
<1> QED BY <1>11, <1>12, <1>14, <1>15, <1>16, <1>17, <1>18, <1>19, <1>20, <1>23, <1>24
  DEF StepOK, ProcOK, Guarantee

(* Naming a table makes a file of it. *)
LEMMA RenameOK ==
  ASSUME StackIndInv, NEW p \in Procs, UNCHANGED <<use, faults>>, RenameTable(p)
  PROVE  StepOK(p)
<1> DEFINE n == OwnTable(p)
<1>1. /\ DOMAIN me = Procs /\ DOMAIN me[p] = MeFields /\ MeTypes(p) /\ SegOK(p) /\ PlaceOK(p) /\ DiskTypes
      /\ FlightOK(p)
      /\ me[p].pc = "rename"
      /\ list' = list /\ stamp' = stamp /\ lockFile' = lockFile /\ tlocks' = tlocks
      /\ issued' = issued /\ body' = body
  BY MeShape DEF RenameTable, At
<1>2. n \in temps BY <1>1 DEF FlightOK, At
<1>3. /\ temps' = temps \ {n} /\ files' = files \cup {n} /\ me' = [me EXCEPT ![p].pc = "lockBody"]
  BY <1>2 DEF RenameTable, Goto
<1>4. /\ DOMAIN me' = Procs /\ (\A q \in Procs \ {p} : me'[q] = me[q]) /\ DOMAIN me'[p] = MeFields
      /\ me'[p].op = me[p].op /\ me'[p].plan = me[p].plan /\ me'[p].id = me[p].id
      /\ me'[p].next = me[p].next /\ me'[p].seg = me[p].seg /\ me'[p].victims = me[p].victims
      /\ me'[p].names = me[p].names /\ me'[p].left = me[p].left /\ me'[p].pc = "lockBody"
  BY <1>1, <1>3, GotoFields
<1>5. n \in Unborn(p) /\ n \in Tables BY <1>1, OwnIsUnborn DEF Writing
<1>6. Unborn(p)' = Unborn(p) BY <1>1, <1>4 DEF Unborn, Writing, Merging, Compacting
<1>7. OthersStay(p) BY <1>4 DEF OthersStay
<1>8. OwnNames(p)
  <2>1. issued \in Nat /\ issued <= issued BY <1>1 DEF DiskTypes
  <2> QED BY <2>1, <1>1, <1>6 DEF OwnNames
<1>9. \A t : Settled(t) => Settled(t)' BY <1>7, <1>8, SettledStays
<1>10. OwnCommit(p) /\ OwnFiles(p) BY <1>1, <1>3, <1>5 DEF OwnCommit, OwnFiles
<1>11. OwnListLock(p)
  <2>1. lockFile # NoFile BY <1>1, LabelSets DEF StackIndInv, ListLockExclusive
  <2> QED BY <2>1, <1>1, <1>4, LabelSets DEF OwnListLock
<1>12. OwnTableLocks(p) BY <1>1, <1>4 DEF OwnTableLocks, SegOK
<1>13. DiskTypes' BY <1>1, <1>3, <1>4, <1>5 DEF DiskTypes
<1>14. MeTypes(p)' BY <1>1, <1>4, LabelSets DEF MeTypes
<1>15. IdsOK(p)' BY <1>1, <1>6, MeShape DEF IdsOK
<1>16. SegOK(p)' BY <1>1, <1>4, <1>9 DEF SegOK, Compacting, SegLabels, Listed
<1>17. Compacting(p)' = Compacting(p) /\ OwnTable(p)' = n BY <1>4 DEF Compacting, OwnTable
<1>18. NextOK(p)' = NextOK(p) BY <1>1, <1>4, <1>17 DEF NextOK, MaxUpdateIndex
<1>19. PlaceOK(p)' BY <1>1, <1>4, <1>17, <1>18 DEF PlaceOK
<1>20. FlightOK(p)' BY <1>1, <1>3, <1>4, <1>17 DEF FlightOK, At
<1> QED BY <1>7, <1>8, <1>10, <1>11, <1>12, <1>13, <1>14, <1>15, <1>16, <1>19, <1>20
  DEF StepOK, ProcOK, Guarantee

(* The merged table is written under its own name. *)
LEMMA MergeOK ==
  ASSUME StackIndInv, NEW p \in Procs, UNCHANGED <<use, faults>>, MergeSegment(p)
  PROVE  StepOK(p)
<1> DEFINE n == OwnTable(p)
           ts == me[p].seg
           recs == Merged(ts, ts[1] = me[p].names[1])
           new == [recs |-> recs, index |-> MaxUpdateIndex(ts)]
<1>1. /\ DOMAIN me = Procs /\ DOMAIN me[p] = MeFields /\ MeTypes(p) /\ SegOK(p) /\ PlaceOK(p) /\ DiskTypes
      /\ me[p].pc = "merge" /\ Compacting(p) /\ ts # <<>> /\ ts \in TableSeq
      /\ list' = list /\ stamp' = stamp /\ lockFile' = lockFile /\ tlocks' = tlocks
      /\ files' = files /\ issued' = issued
      /\ \A t \in Els(list) : t \in files /\ Settled(t)
  BY MeShape DEF MergeSegment, At, SegOK, Compacting, MeTypes
<1>2. \A i \in DOMAIN ts : ts[i] \in files
  <2>1. Els(ts) \subseteq Els(list) BY <1>1 DEF SegOK, Listed
  <2>2. DOMAIN ts = 1 .. Len(ts) BY <1>1 DEF TableSeq
  <2> QED BY <2>1, <2>2, <1>1 DEF Els
<1>3. /\ body' = [body EXCEPT ![n] = new]
      /\ temps' = IF recs = NoRecords THEN temps ELSE temps \cup {n}
      /\ me' = [me EXCEPT ![p].pc = "lockSplice"]
  BY <1>2 DEF MergeSegment, Goto
<1>4. /\ DOMAIN me' = Procs /\ (\A q \in Procs \ {p} : me'[q] = me[q]) /\ DOMAIN me'[p] = MeFields
      /\ me'[p].op = me[p].op /\ me'[p].plan = me[p].plan /\ me'[p].id = me[p].id
      /\ me'[p].next = me[p].next /\ me'[p].seg = ts /\ me'[p].victims = me[p].victims
      /\ me'[p].names = me[p].names /\ me'[p].left = me[p].left /\ me'[p].pc = "lockSplice"
  BY <1>1, <1>3, GotoFields
<1>5. n \in Unborn(p) /\ n \in Tables /\ ~Settled(n) BY <1>1, OwnIsUnborn
<1>6. Unborn(p)' = Unborn(p) BY <1>1, <1>4 DEF Unborn, Writing, Merging, Compacting
<1>7. new \in [recs : Records, index : Nat] /\ new.recs = recs /\ new.index = body[Last(ts)].index
  <2>1. recs \in Records BY <1>1, MergedType DEF DiskTypes
  <2>2. MaxUpdateIndex(ts) \in Nat BY <1>1, UpdateIndexType DEF DiskTypes
  <2>3. MaxUpdateIndex(ts) = body[Last(ts)].index BY <1>1 DEF MaxUpdateIndex, Last
  <2> HIDE DEF recs, ts
  <2> QED BY <2>1, <2>2, <2>3
<1> HIDE DEF recs, new
<1>8. /\ body' \in [Tables -> [recs : Records, index : Nat]]
      /\ body'[n] = new /\ \A t \in Tables : t # n => body'[t] = body[t]
  BY <1>1, <1>3, <1>5, <1>7 DEF DiskTypes
<1>9. OthersStay(p) BY <1>4 DEF OthersStay
<1>10. OwnNames(p)
  <2>1. issued \in Nat /\ issued <= issued BY <1>1 DEF DiskTypes
  <2> QED BY <2>1, <1>1, <1>5, <1>6, <1>8 DEF OwnNames
<1>11. \A t : Settled(t) => Settled(t)' /\ body'[t] = body[t] BY <1>9, <1>10, SettledStays
<1>12. OwnCommit(p) /\ OwnFiles(p) BY <1>1, <1>3 DEF OwnCommit, OwnFiles
<1>13. OwnListLock(p) BY <1>1, <1>4, LabelSets DEF OwnListLock
<1>14. OwnTableLocks(p) BY <1>1, <1>4 DEF OwnTableLocks, SegOK
<1>15. DiskTypes' BY <1>1, <1>3, <1>4, <1>5, <1>8 DEF DiskTypes
<1>16. MeTypes(p)' BY <1>1, <1>4, LabelSets DEF MeTypes
<1>17. IdsOK(p)' BY <1>1, <1>6, MeShape DEF IdsOK
<1>18. SegOK(p)' BY <1>1, <1>4, <1>11 DEF SegOK, Compacting, SegLabels, Listed
<1>19. Compacting(p)' = TRUE /\ OwnTable(p)' = n BY <1>1, <1>4 DEF Compacting, OwnTable
<1>20. body'[Last(ts)] = body[Last(ts)] BY <1>1, <1>11, ElsLast DEF SegOK
<1>21. PlaceOK(p)' BY <1>4, <1>7, <1>8, <1>19, <1>20 DEF PlaceOK
<1>22. FlightOK(p)' BY <1>3, <1>4, <1>7, <1>8, <1>19 DEF FlightOK, At
<1> QED BY <1>9, <1>10, <1>12, <1>13, <1>14, <1>15, <1>16, <1>17, <1>18, <1>21, <1>22
  DEF StepOK, ProcOK, Guarantee


------------------------------
(* The steps that lock and release tables. *)

(* A step on table locks gives the guarantee when they were free or one's *)
(* own. *)
LEMMA TableLockGuarantee ==
  ASSUME StackIndInv, NEW p \in Procs, DOMAIN me' = Procs,
         \A q \in Procs \ {p} : me'[q] = me[q],
         UNCHANGED <<list, stamp, lockFile, files, temps, body, issued, use, faults>>,
         tlocks' \subseteq Tables, OwnTableLocks(p),
         (me'[p].pc \in Holding) <=> (me[p].pc \in Holding), Unborn(p)' \subseteq Unborn(p)
  PROVE  Guarantee(p) /\ DiskTypes' /\ IdsOK(p)' /\ (\A t : Settled(t) => Settled(t)')
<1>2. DiskTypes /\ issued \in Nat /\ issued <= issued BY DEF StackIndInv, DiskTypes
<1>3. OthersStay(p) BY DEF OthersStay
<1>4. OwnNames(p) BY <1>2 DEF OwnNames
<1>5. OwnListLock(p)
  <2>1. me[p].pc \in Holding => lockFile # NoFile BY DEF StackIndInv, ListLockExclusive
  <2> QED BY <2>1 DEF OwnListLock
<1>7. OwnCommit(p) /\ OwnFiles(p) BY DEF OwnCommit, OwnFiles
<1>8. DiskTypes' BY <1>2 DEF DiskTypes
<1>9. \A t : Settled(t) => Settled(t)' BY <1>3, <1>4, SettledStays
<1>10. IdsOK(p)' BY DEF StackIndInv, ProcOK, IdsOK
<1> QED BY <1>3, <1>4, <1>5, <1>7, <1>8, <1>9, <1>10 DEF Guarantee

(* Locking the next table of the segment is all right. *)
LEMMA LockTableOK ==
  ASSUME StackIndInv, NEW p \in Procs, UNCHANGED <<use, faults>>, LockTable(p)
  PROVE  StepOK(p)
<1> DEFINE s == me[p].left
           t == Last(s)
<1>1. /\ DOMAIN me = Procs /\ DOMAIN me[p] = MeFields /\ MeTypes(p) /\ SegOK(p) /\ PlaceOK(p) /\ DiskTypes
      /\ me[p].pc = "tables" /\ s # <<>> /\ Els(s) \subseteq Els(list) /\ s \in TableSeq
      /\ UNCHANGED <<list, stamp, lockFile, files, temps, body, issued, use, faults>>
      /\ tlocks' = tlocks \cup {t}
  BY MeShape DEF LockTable, At, PlaceOK, Last, MeTypes
<1>2. t \in Els(s) /\ t \in Tables /\ Settled(t) /\ Len(s) \in Nat /\ Len(s) >= 1
  BY <1>1, ElsLast, ElsType DEF SegOK
<1>3. PICK seg \in TableSeq, rest \in TableSeq, l \in {"tables", "giveUp", "unplan"} :
        /\ me' = [me EXCEPT ![p].seg = seg, ![p].left = rest, ![p].pc = l]
        /\ t \notin tlocks => seg = <<t>> \o me[p].seg
        /\ t \in tlocks => seg = me[p].seg
        /\ l = "tables" => rest # <<>>
        /\ Els(rest) \subseteq Els(s)
  <2> DEFINE free == t \notin tlocks
             seg == IF free THEN <<t>> \o me[p].seg ELSE me[p].seg
             more == free /\ Len(s) > 1
             rest == IF more THEN SubSeq(s, 1, Len(s) - 1) ELSE <<>>
             l == IF more THEN "tables" ELSE IF Len(seg) < 2 THEN "giveUp" ELSE "unplan"
  <2>1. me' = [me EXCEPT ![p].seg = seg, ![p].left = rest, ![p].pc = l] BY DEF LockTable, Last
  <2>2. seg \in TableSeq BY <1>1, <1>2, ElsFront DEF MeTypes
  <2>3. rest \in TableSeq /\ Els(rest) \subseteq Els(s) /\ (more => rest # <<>>)
    <3>1. CASE more
      <4> DEFINE c == SubSeq(s, 1, Len(s) - 1)
      <4>1. 1 <= Len(s) - 1 /\ Len(s) - 1 \in Int BY <3>1, <1>2
      <4>2. c \in TableSeq /\ Els(c) \subseteq Els(s) /\ Len(c) = Len(s) - 1 - 1 + 1
        BY <4>1, <1>1, <1>2, ElsPart
      <4> HIDE DEF c
      <4>3. c # <<>> BY <4>1, <4>2
      <4> QED BY <3>1, <4>2, <4>3 DEF c
    <3>2. CASE ~more
      <4>1. <<>> \in TableSeq /\ Els(<<>>) = {} BY DEF TableSeq, Els
      <4> QED BY <3>2, <4>1
    <3> QED BY <3>1, <3>2
  <2>4. l \in {"tables", "giveUp", "unplan"} /\ (l = "tables" => more) OBVIOUS
  <2>5. (t \notin tlocks => seg = <<t>> \o me[p].seg) /\ (t \in tlocks => seg = me[p].seg) OBVIOUS
  <2> HIDE DEF seg, rest, l, more
  <2> QED BY <2>1, <2>2, <2>3, <2>4, <2>5
<1>4. /\ DOMAIN me' = Procs /\ (\A q \in Procs \ {p} : me'[q] = me[q]) /\ DOMAIN me'[p] = MeFields
      /\ me'[p].op = me[p].op /\ me'[p].plan = me[p].plan /\ me'[p].id = me[p].id
      /\ me'[p].next = me[p].next /\ me'[p].seg = seg /\ me'[p].victims = me[p].victims
      /\ me'[p].names = me[p].names /\ me'[p].left = rest /\ me'[p].pc = l
  BY <1>1, <1>3 DEF MeFields
<1>5. Unborn(p)' = Unborn(p) BY <1>1, <1>4 DEF Unborn, Writing, Merging, Compacting
<1>6. /\ Els(seg) \subseteq Els(me[p].seg) \cup {t} /\ Els(me[p].seg) \subseteq Els(seg) /\ Distinct(seg)
      /\ t \notin tlocks => t \in Els(seg)
      /\ t \in tlocks => Els(seg) = Els(me[p].seg)
  <2>1. CASE t \notin tlocks
    <3>1. t \notin Els(me[p].seg) /\ Distinct(me[p].seg) /\ me[p].seg \in TableSeq
      BY <2>1, <1>1 DEF SegOK, MeTypes
    <3> QED BY <3>1, <2>1, <1>2, <1>3, ElsFront
  <2>2. CASE t \in tlocks BY <2>2, <1>1, <1>3 DEF SegOK
  <2> QED BY <2>1, <2>2
<1>7. OwnTableLocks(p) BY <1>1, <1>4, <1>6, LabelSets DEF OwnTableLocks, SegOK
<1>8. tlocks' \subseteq Tables BY <1>1, <1>2 DEF DiskTypes
<1>9. Guarantee(p) /\ DiskTypes' /\ IdsOK(p)' /\ (\A u : Settled(u) => Settled(u)')
  BY <1>1, <1>4, <1>5, <1>7, <1>8, TableLockGuarantee, LabelSets
<1>10. MeTypes(p)' BY <1>1, <1>4, LabelSets DEF MeTypes
<1>11. SegOK(p)'
  <2>1. \A u \in Els(me'[p].names) \cup Els(me'[p].left) \cup Els(me'[p].seg) : Settled(u)'
    BY <1>1, <1>2, <1>3, <1>4, <1>6, <1>9 DEF SegOK
  <2>2. Els(seg) \subseteq tlocks' /\ Els(seg) \subseteq Els(list) BY <1>1, <1>2, <1>6 DEF SegOK, Listed
  <2> QED BY <2>1, <2>2, <1>1, <1>4, <1>6 DEF SegOK, SegLabels, Listed
<1>12. PlaceOK(p)' BY <1>1, <1>3, <1>4 DEF PlaceOK
<1>13. FlightOK(p)' BY <1>4 DEF FlightOK, At
<1> QED BY <1>9, <1>10, <1>11, <1>12, <1>13 DEF StepOK, ProcOK

(* The oldest table of the segment is released. *)
LEMMA FreeOneOK ==
  ASSUME StackIndInv, NEW p \in Procs, UNCHANGED <<use, faults>>,
         UNCHANGED <<list, stamp, lockFile, files, temps, body, issued>>,
         me[p].pc \in {"giveUp", "free"}, Compacting(p),
         tlocks' = tlocks \ {Head(me[p].seg)}, me' = [me EXCEPT ![p].seg = Tail(@)]
  PROVE  StepOK(p)
<1>1. /\ DOMAIN me = Procs /\ DOMAIN me[p] = MeFields /\ MeTypes(p) /\ SegOK(p) /\ DiskTypes
      /\ me[p].seg \in TableSeq /\ me[p].seg # <<>>
  BY MeShape DEF Compacting, MeTypes
<1>2. /\ DOMAIN me' = Procs /\ (\A q \in Procs \ {p} : me'[q] = me[q]) /\ DOMAIN me'[p] = MeFields
      /\ me'[p].op = me[p].op /\ me'[p].plan = me[p].plan /\ me'[p].id = me[p].id
      /\ me'[p].next = me[p].next /\ me'[p].seg = Tail(me[p].seg) /\ me'[p].victims = me[p].victims
      /\ me'[p].names = me[p].names /\ me'[p].left = me[p].left /\ me'[p].pc = me[p].pc
  BY <1>1 DEF MeFields
<1>3. /\ Tail(me[p].seg) \in TableSeq /\ Els(me[p].seg) = {Head(me[p].seg)} \cup Els(Tail(me[p].seg))
      /\ Distinct(Tail(me[p].seg)) /\ Head(me[p].seg) \notin Els(Tail(me[p].seg))
  BY <1>1, ElsTail DEF SegOK
<1>4. Unborn(p)' = Unborn(p) BY <1>2 DEF Unborn, Writing, Merging, Compacting
<1>5. OwnTableLocks(p) BY <1>1, <1>2, <1>3 DEF OwnTableLocks, SegOK
<1>6. tlocks' \subseteq Tables BY <1>1 DEF DiskTypes
<1>7. Guarantee(p) /\ DiskTypes' /\ IdsOK(p)' /\ (\A u : Settled(u) => Settled(u)')
  BY <1>2, <1>4, <1>5, <1>6, TableLockGuarantee
<1>8. MeTypes(p)' BY <1>1, <1>2, <1>3 DEF MeTypes
<1>9. SegOK(p)'
  <2>1. \A u \in Els(me'[p].names) \cup Els(me'[p].left) \cup Els(me'[p].seg) : Settled(u)'
    BY <1>1, <1>2, <1>3, <1>7 DEF SegOK
  <2>2. Els(me'[p].seg) \subseteq tlocks' BY <1>1, <1>2, <1>3 DEF SegOK
  <2> QED BY <2>1, <2>2, <1>1, <1>2, <1>3 DEF SegOK, SegLabels, Listed
<1>10. PlaceOK(p)' /\ FlightOK(p)' BY <1>2 DEF PlaceOK, FlightOK, At
<1> QED BY <1>7, <1>8, <1>9, <1>10 DEF StepOK, ProcOK

(* Giving up a segment is. *)
LEMMA GiveUpOK ==
  ASSUME StackIndInv, NEW p \in Procs, UNCHANGED <<use, faults>>, GiveUp(p)
  PROVE  StepOK(p)
<1>1. /\ DOMAIN me = Procs /\ DOMAIN me[p] = MeFields /\ MeTypes(p) /\ SegOK(p)
      /\ me[p].pc = "giveUp" /\ UNCHANGED <<list, stamp, lockFile, files, temps, body, issued>>
  BY MeShape DEF GiveUp, At
<1>2. CASE Compacting(p) BY <1>1, <1>2, FreeOneOK DEF GiveUp
<1>3. CASE ~Compacting(p)
  <2>1. tlocks' = tlocks /\ me' = [me EXCEPT ![p].pc = "unplan"] BY <1>3 DEF GiveUp, Goto
  <2>2. /\ DOMAIN me' = Procs /\ (\A q \in Procs \ {p} : me'[q] = me[q]) /\ DOMAIN me'[p] = MeFields
        /\ me'[p].op = me[p].op /\ me'[p].plan = me[p].plan /\ me'[p].id = me[p].id
        /\ me'[p].next = me[p].next /\ me'[p].seg = me[p].seg /\ me'[p].victims = me[p].victims
        /\ me'[p].names = me[p].names /\ me'[p].left = me[p].left /\ me'[p].pc = "unplan"
    BY <1>1, <2>1, GotoFields
  <2>3. Unborn(p)' = Unborn(p) BY <1>1, <2>2 DEF Unborn, Writing, Merging, Compacting
  <2>4. Still BY <1>1, <2>1 DEF Still, disk
  <2>5. Guarantee(p) /\ DiskTypes' /\ IdsOK(p)' /\ (\A u : Settled(u) => Settled(u)')
    BY <1>1, <2>2, <2>3, <2>4, StillGuarantee, LabelSets
  <2>6. MeTypes(p)' BY <1>1, <2>2, LabelSets DEF MeTypes
  <2>7. SegOK(p)' BY <1>1, <2>1, <2>2, <2>5 DEF SegOK, Compacting, SegLabels, Listed
  <2>8. PlaceOK(p)' /\ FlightOK(p)' BY <2>2 DEF PlaceOK, FlightOK, At
  <2> QED BY <2>5, <2>6, <2>7, <2>8 DEF StepOK, ProcOK
<1> QED BY <1>2, <1>3

(* Releasing the table locks is. *)
LEMMA ReleaseOK ==
  ASSUME StackIndInv, NEW p \in Procs, UNCHANGED <<use, faults>>, ReleaseTable(p)
  PROVE  StepOK(p)
<1>1. /\ DOMAIN me = Procs /\ DOMAIN me[p] = MeFields /\ MeTypes(p) /\ SegOK(p)
      /\ me[p].pc = "free" /\ me[p].pc \notin Holding
      /\ UNCHANGED <<list, stamp, lockFile, files, temps, body, issued>>
  BY MeShape, LabelSets DEF ReleaseTable, At
<1>2. CASE Compacting(p) BY <1>1, <1>2, FreeOneOK DEF ReleaseTable
<1>3. CASE ~Compacting(p)
  <2>1. tlocks' = tlocks BY <1>3 DEF ReleaseTable
  <2>2. Return(p) \/ me' = [me EXCEPT ![p].pc = "lockSweep"] BY <1>3 DEF ReleaseTable, NoCompaction, Goto
  <2>3. Still BY <1>1, <2>1 DEF Still, disk
  <2>4. CASE Return(p) BY <1>1, <1>3, <2>3, <2>4, ReturnOK
  <2>5. CASE me' = [me EXCEPT ![p].pc = "lockSweep"]
    <3>1. /\ DOMAIN me' = Procs /\ (\A q \in Procs \ {p} : me'[q] = me[q]) /\ DOMAIN me'[p] = MeFields
          /\ me'[p].op = me[p].op /\ me'[p].plan = me[p].plan /\ me'[p].id = me[p].id
          /\ me'[p].next = me[p].next /\ me'[p].seg = me[p].seg /\ me'[p].victims = me[p].victims
          /\ me'[p].names = me[p].names /\ me'[p].left = me[p].left /\ me'[p].pc = "lockSweep"
      BY <1>1, <2>5, GotoFields
    <3> QED BY <1>1, <1>3, <2>3, <3>1, LookOK DEF MeTypes, SegOK
  <2> QED BY <2>2, <2>4, <2>5
<1> QED BY <1>2, <1>3


------------------------------
(* The steps that remove tables, and the splice. *)

(* Unlinking gives the guarantee when nobody needs the files. *)
LEMMA FilesGuarantee ==
  ASSUME StackIndInv, NEW p \in Procs, DOMAIN me' = Procs,
         \A q \in Procs \ {p} : me'[q] = me[q],
         UNCHANGED <<list, stamp, lockFile, tlocks, body, issued, use, faults>>,
         files' \subseteq Tables, temps' \subseteq Tables, OwnFiles(p), Els(me'[p].seg) = Els(me[p].seg),
         (me'[p].pc \in Holding) <=> (me[p].pc \in Holding), Unborn(p)' \subseteq Unborn(p)
  PROVE  Guarantee(p) /\ DiskTypes' /\ IdsOK(p)' /\ (\A t : Settled(t) => Settled(t)')
<1>2. DiskTypes /\ issued \in Nat /\ issued <= issued BY DEF StackIndInv, DiskTypes
<1>3. OthersStay(p) BY DEF OthersStay
<1>4. OwnNames(p) BY <1>2 DEF OwnNames
<1>5. OwnListLock(p)
  <2>1. me[p].pc \in Holding => lockFile # NoFile BY DEF StackIndInv, ListLockExclusive
  <2> QED BY <2>1 DEF OwnListLock
<1>6. OwnTableLocks(p)
  <2>1. Els(me[p].seg) \subseteq tlocks BY DEF StackIndInv, ProcOK, SegOK
  <2> QED BY <2>1 DEF OwnTableLocks
<1>7. OwnCommit(p) BY DEF OwnCommit
<1>8. DiskTypes' BY <1>2 DEF DiskTypes
<1>9. \A t : Settled(t) => Settled(t)' BY <1>3, <1>4, SettledStays
<1>10. IdsOK(p)' BY DEF StackIndInv, ProcOK, IdsOK
<1> QED BY <1>3, <1>4, <1>5, <1>6, <1>7, <1>8, <1>9, <1>10 DEF Guarantee

(* The tables of a segment that was merged are needed by nobody. *)
LEMMA UnlinkOK ==
  ASSUME StackIndInv, NEW p \in Procs, UNCHANGED <<use, faults>>, UnlinkTable(p)
  PROVE  StepOK(p)
<1>1. /\ DOMAIN me = Procs /\ DOMAIN me[p] = MeFields /\ MeTypes(p) /\ SegOK(p) /\ PlaceOK(p) /\ DiskTypes
      /\ me[p].pc = "unlink" /\ me[p].left \in TableSeq /\ Els(me[p].left) \cap Els(list) = {}
      /\ UNCHANGED <<list, stamp, lockFile, tlocks, temps, body, issued>>
  BY MeShape DEF UnlinkTable, At, PlaceOK, MeTypes
<1>2. PICK rest \in TableSeq, l \in {"unlink", "free"} :
        /\ me' = [me EXCEPT ![p].left = rest, ![p].pc = l]
        /\ Els(rest) \subseteq Els(me[p].left)
        /\ files' \subseteq files /\ files \ files' \subseteq Els(me[p].left)
  <2>1. CASE me[p].left # <<>>
    <3>1. files' = files \ {Head(me[p].left)} /\ me' = [me EXCEPT ![p].left = Tail(@)] BY <2>1 DEF UnlinkTable
    <3>2. me' = [me EXCEPT ![p].left = Tail(me[p].left), ![p].pc = "unlink"] BY <3>1, <1>1 DEF MeFields
    <3>3. Tail(me[p].left) \in TableSeq /\ Els(me[p].left) = {Head(me[p].left)} \cup Els(Tail(me[p].left))
      BY <1>1, <2>1, ElsTail
    <3> QED BY <3>1, <3>2, <3>3
  <2>2. CASE me[p].left = <<>>
    <3>1. files' = files /\ me' = [me EXCEPT ![p].pc = "free"] BY <2>2 DEF UnlinkTable, Goto
    <3>2. me' = [me EXCEPT ![p].left = me[p].left, ![p].pc = "free"] BY <3>1, <1>1 DEF MeFields
    <3> QED BY <3>1, <3>2, <1>1
  <2> QED BY <2>1, <2>2
<1>3. /\ DOMAIN me' = Procs /\ (\A q \in Procs \ {p} : me'[q] = me[q]) /\ DOMAIN me'[p] = MeFields
      /\ me'[p].op = me[p].op /\ me'[p].plan = me[p].plan /\ me'[p].id = me[p].id
      /\ me'[p].next = me[p].next /\ me'[p].seg = me[p].seg /\ me'[p].victims = me[p].victims
      /\ me'[p].names = me[p].names /\ me'[p].left = rest /\ me'[p].pc = l
  BY <1>1, <1>2 DEF MeFields
<1>4. Unborn(p)' = {} BY <1>3 DEF Unborn, Writing, Merging
<1>5. OwnFiles(p) BY <1>1, <1>2 DEF OwnFiles, SegOK
<1>6. files' \subseteq Tables /\ temps' \subseteq Tables BY <1>1, <1>2 DEF DiskTypes
<1>7. Guarantee(p) /\ DiskTypes' /\ IdsOK(p)' /\ (\A t : Settled(t) => Settled(t)')
  BY <1>1, <1>3, <1>4, <1>5, <1>6, FilesGuarantee, LabelSets
<1>8. MeTypes(p)' BY <1>1, <1>3, LabelSets DEF MeTypes
<1>9. SegOK(p)' BY <1>1, <1>2, <1>3, <1>7 DEF SegOK, Compacting, SegLabels, Listed
<1>10. PlaceOK(p)' BY <1>1, <1>2, <1>3 DEF PlaceOK
<1>11. FlightOK(p)' BY <1>3 DEF FlightOK, At
<1> QED BY <1>7, <1>8, <1>9, <1>10, <1>11 DEF StepOK, ProcOK

(* Orphans are needed by nobody, and temporary tables only by a merge that *)
(* holds a table lock. *)
LEMMA SweepOK ==
  ASSUME StackIndInv, NEW p \in Procs, UNCHANGED <<use, faults>>, SweepOrphan(p)
  PROVE  StepOK(p)
<1>1. /\ DOMAIN me = Procs /\ DOMAIN me[p] = MeFields /\ MeTypes(p) /\ SegOK(p) /\ PlaceOK(p) /\ DiskTypes
      /\ me[p].pc = "sweep"
      /\ UNCHANGED <<list, stamp, lockFile, tlocks, body, issued>>
  BY MeShape DEF SweepOrphan, At
<1>2. ~Compacting(p) /\ me[p].pc \in Holding BY <1>1, NoSegment, LabelSets DEF SegLabels, Listed
<1>3. PICK V \in SUBSET me[p].victims, l \in {"unlock", "sweep"} :
        /\ me' = [me EXCEPT ![p].victims = V, ![p].pc = l]
        /\ files' \subseteq files /\ temps' \subseteq temps
        /\ \A t \in files \ files' : t \notin Els(list)
        /\ \A t \in temps \ temps' : tlocks = {}
  <2>1. CASE Goto(p, "unlock") /\ UNCHANGED <<files, temps>>
    <3>1. me' = [me EXCEPT ![p].victims = me[p].victims, ![p].pc = "unlock"] BY <2>1, <1>1 DEF MeFields, Goto
    <3> QED BY <3>1, <2>1
  <2>2. ASSUME NEW v \in me[p].victims,
               files' = IF v[2] = "ref" THEN files \ {v[1]} ELSE files,
               temps' = IF v[2] = "temp" THEN temps \ {v[1]} ELSE temps,
               me' = [me EXCEPT ![p].victims = @ \ {v}]
        PROVE  \E V \in SUBSET me[p].victims, l \in {"unlock", "sweep"} :
                 /\ me' = [me EXCEPT ![p].victims = V, ![p].pc = l]
                 /\ files' \subseteq files /\ temps' \subseteq temps
                 /\ \A t \in files \ files' : t \notin Els(list)
                 /\ \A t \in temps \ temps' : tlocks = {}
    <3>1. me' = [me EXCEPT ![p].victims = me[p].victims \ {v}, ![p].pc = "sweep"] BY <2>2, <1>1 DEF MeFields
    <3>2. (v[2] = "ref" => v[1] \notin Els(list)) /\ (v[2] = "temp" => tlocks = {}) BY <1>1 DEF PlaceOK
    <3>3. \A t \in files \ files' : t \notin Els(list) BY <2>2, <3>2
    <3>4. \A t \in temps \ temps' : tlocks = {} BY <2>2, <3>2
    <3>5. files' \subseteq files /\ temps' \subseteq temps BY <2>2
    <3> QED BY <3>1, <3>3, <3>4, <3>5
  <2> QED BY <2>1, <2>2 DEF SweepOrphan
<1>4. /\ DOMAIN me' = Procs /\ (\A q \in Procs \ {p} : me'[q] = me[q]) /\ DOMAIN me'[p] = MeFields
      /\ me'[p].op = me[p].op /\ me'[p].plan = me[p].plan /\ me'[p].id = me[p].id
      /\ me'[p].next = me[p].next /\ me'[p].seg = me[p].seg /\ me'[p].victims = V
      /\ me'[p].names = me[p].names /\ me'[p].left = me[p].left /\ me'[p].pc = l
  BY <1>1, <1>3 DEF MeFields
<1>5. Unborn(p)' = {} BY <1>4 DEF Unborn, Writing, Merging
<1>6. OwnFiles(p) BY <1>1, <1>2, <1>3 DEF OwnFiles
<1>7. files' \subseteq Tables /\ temps' \subseteq Tables BY <1>1, <1>3 DEF DiskTypes
<1>8. Guarantee(p) /\ DiskTypes' /\ IdsOK(p)' /\ (\A t : Settled(t) => Settled(t)')
  BY <1>1, <1>4, <1>5, <1>6, <1>7, FilesGuarantee, LabelSets
<1>9. MeTypes(p)' BY <1>1, <1>3, <1>4, LabelSets DEF MeTypes
<1>10. SegOK(p)'
  <2>1. me[p].seg = <<>> /\ Els(<<>>) = {} BY <1>2 DEF Compacting, Els
  <2> QED BY <2>1, <1>1, <1>4, <1>8 DEF SegOK, Compacting, SegLabels, Listed
<1>11. PlaceOK(p)' BY <1>1, <1>3, <1>4 DEF PlaceOK
<1>12. FlightOK(p)' BY <1>4 DEF FlightOK, At
<1> QED BY <1>8, <1>9, <1>10, <1>11, <1>12 DEF StepOK, ProcOK

(* The list that a compaction is about to commit is the one on disk with its *)
(* segment replaced. *)
LEMMA SpliceOK ==
  ASSUME StackIndInv, NEW p \in Procs, UNCHANGED <<use, faults>>, SpliceLockedSegment(p)
  PROVE  StepOK(p)
<1> DEFINE n == Len(me[p].seg)
           own == OwnTable(p)
           empty == body[own].recs = NoRecords
           new == IF empty THEN <<>> ELSE <<own>>
           places == {i \in 1..(Len(list) - n + 1) : SubSeq(list, i, i + n - 1) = me[p].seg}
<1>1. /\ DOMAIN me = Procs /\ DOMAIN me[p] = MeFields /\ MeTypes(p) /\ SegOK(p) /\ PlaceOK(p) /\ DiskTypes
      /\ FlightOK(p) /\ list \in TableSeq
      /\ me[p].pc = "splice" /\ Compacting(p) /\ me[p].seg \in TableSeq /\ me[p].seg # <<>>
      /\ UNCHANGED <<list, stamp, lockFile, tlocks, files, body, issued>>
  BY MeShape DEF SpliceLockedSegment, At, SegOK, MeTypes, Compacting
<1>2. own \in Unborn(p) /\ own \in Tables BY <1>1, OwnIsUnborn
<1>3. CASE places = {}
  <2>1. temps' = temps \ {own} /\ me' = [me EXCEPT ![p].pc = "unlock"] BY <1>3 DEF SpliceLockedSegment, Goto
  <2>2. /\ DOMAIN me' = Procs /\ (\A q \in Procs \ {p} : me'[q] = me[q]) /\ DOMAIN me'[p] = MeFields
        /\ me'[p].op = me[p].op /\ me'[p].plan = me[p].plan /\ me'[p].id = me[p].id
        /\ me'[p].next = me[p].next /\ me'[p].seg = me[p].seg /\ me'[p].victims = me[p].victims
        /\ me'[p].names = me[p].names /\ me'[p].left = me[p].left /\ me'[p].pc = "unlock"
    BY <1>1, <2>1, GotoFields
  <2>3. Unborn(p)' = {} BY <2>2 DEF Unborn, Writing, Merging
  <2>4. OwnFiles(p) BY <1>1, <1>2, <2>1 DEF OwnFiles
  <2>5. files' \subseteq Tables /\ temps' \subseteq Tables BY <1>1, <2>1 DEF DiskTypes
  <2>6. Guarantee(p) /\ DiskTypes' /\ IdsOK(p)' /\ (\A t : Settled(t) => Settled(t)')
    BY <1>1, <2>2, <2>3, <2>4, <2>5, FilesGuarantee, LabelSets
  <2>7. MeTypes(p)' BY <1>1, <2>2, LabelSets DEF MeTypes
  <2>8. SegOK(p)' BY <1>1, <2>2, <2>6 DEF SegOK, Compacting, SegLabels, Listed
  <2>9. PlaceOK(p)' /\ FlightOK(p)' BY <2>2 DEF PlaceOK, FlightOK, At
  <2> QED BY <2>6, <2>7, <2>8, <2>9 DEF StepOK, ProcOK
<1>4. CASE places # {}
  <2>1. PICK i \in places :
          me' = [me EXCEPT ![p].next = Spliced(list, i, n, new),
                           ![p].pc = IF empty THEN "lockBody" ELSE "rename"]
    BY <1>4 DEF SpliceLockedSegment, Spliced
  <2>2. temps' = temps BY <1>4 DEF SpliceLockedSegment
  <2>3. i \in 1 .. (Len(list) - n + 1) /\ SubSeq(list, i, i + n - 1) = me[p].seg BY <2>1
  <2>4. new \in TableSeq /\ Len(new) \in {0, 1} BY <1>2 DEF TableSeq
  <2>5. n \in Nat \ {0} BY <1>1 DEF TableSeq
  <2>6. Spliced(list, i, n, new) \in TableSeq BY <1>1, <2>3, <2>4, <2>5, SplicedShape
  <2>7. PICK l \in {"lockBody", "rename"} :
          /\ me' = [me EXCEPT ![p].next = Spliced(list, i, n, new), ![p].pc = l]
          /\ l = "lockBody" <=> empty
    BY <2>1
  <2>8. /\ DOMAIN me' = Procs /\ (\A q \in Procs \ {p} : me'[q] = me[q]) /\ DOMAIN me'[p] = MeFields
        /\ me'[p].op = me[p].op /\ me'[p].plan = me[p].plan /\ me'[p].id = me[p].id
        /\ me'[p].next = Spliced(list, i, n, new) /\ me'[p].seg = me[p].seg /\ me'[p].victims = me[p].victims
        /\ me'[p].names = me[p].names /\ me'[p].left = me[p].left /\ me'[p].pc = l
    BY <1>1, <2>7 DEF MeFields
  <2>9. Unborn(p)' \subseteq Unborn(p) BY <1>1, <2>8 DEF Unborn, Writing, Merging, Compacting
  <2>10. Still BY <1>1, <2>2 DEF Still, disk
  <2>11. Guarantee(p) /\ DiskTypes' /\ IdsOK(p)' /\ (\A t : Settled(t) => Settled(t)')
    BY <1>1, <2>8, <2>9, <2>10, StillGuarantee, LabelSets
  <2>12. MeTypes(p)' BY <1>1, <2>6, <2>8, LabelSets DEF MeTypes
  <2>13. SegOK(p)' BY <1>1, <2>8, <2>11 DEF SegOK, Compacting, SegLabels, Listed
  <2>14. OwnTable(p)' = own /\ Compacting(p)' = TRUE BY <1>1, <2>8 DEF OwnTable, Compacting
  <2>15. NextOK(p)' BY <1>1, <2>3, <2>8, <2>14 DEF NextOK
  <2>16. PlaceOK(p)' BY <1>1, <2>8, <2>14, <2>15 DEF PlaceOK
  <2>17. FlightOK(p)' BY <1>1, <2>2, <2>7, <2>8, <2>14 DEF FlightOK, At
  <2> QED BY <2>11, <2>12, <2>13, <2>16, <2>17 DEF StepOK, ProcOK
<1> QED BY <1>3, <1>4


------------------------------
(* The commit of a list. *)

Sorted(ts) == \A i, j \in 1 .. Len(ts) : i < j => body[ts[i]].index < body[ts[j]].index

(* The segment is in s, from the i-th table on. *)
PartAt(s, i, seg) == \A k \in 1 .. Len(seg) : seg[k] = s[i + k - 1]

(* The index of a table of the list, as a number. *)
LEMMA IndexType ==
  ASSUME body \in [Tables -> [recs : Records, index : Nat]], NEW t \in Tables
  PROVE  body[t].index \in Nat
OBVIOUS

(* A new table goes to the end, with a greater index than the rest. *)
LEMMA AppendSorted ==
  ASSUME body \in [Tables -> [recs : Records, index : Nat]], NEW s \in TableSeq, Sorted(s),
         NEW t \in Tables, body[t].index = MaxUpdateIndex(s) + 1
  PROVE  Sorted(Append(s, t))
<1> DEFINE c == Append(s, t)
           x == [k \in 1 .. Len(s) |-> body[s[k]].index]
<1>1. /\ Len(s) \in Nat /\ Len(c) = Len(s) + 1 /\ c[Len(s) + 1] = t
      /\ \A k \in 1 .. Len(s) : c[k] = s[k] /\ s[k] \in Tables
  BY DEF TableSeq
<1>2. \A k \in 1 .. Len(s) : x[k] = body[s[k]].index /\ x[k] \in Nat BY <1>1, IndexType
<1> HIDE DEF c, x
<1>3. \A k \in 1 .. Len(s) : x[k] <= MaxUpdateIndex(s) /\ MaxUpdateIndex(s) \in Nat
  <2> TAKE k \in 1 .. Len(s)
  <2>1. s # <<>> /\ Len(s) \in 1 .. Len(s) BY <1>1
  <2>2. MaxUpdateIndex(s) = x[Len(s)] BY <2>1, <1>2 DEF MaxUpdateIndex
  <2>3. k < Len(s) => x[k] < x[Len(s)] BY <1>2, <2>1 DEF Sorted
  <2>4. k = Len(s) \/ k < Len(s) BY <1>1
  <2> QED BY <2>1, <2>2, <2>3, <2>4, <1>2
<1>4. ASSUME NEW i \in 1 .. Len(c), NEW j \in 1 .. Len(c), i < j
      PROVE  body[c[i]].index < body[c[j]].index
  <2>1. i \in 1 .. Len(s) /\ c[i] = s[i] /\ (j = Len(s) + 1 \/ j \in 1 .. Len(s)) BY <1>1, <1>4
  <2>2. CASE j \in 1 .. Len(s) BY <2>1, <2>2, <1>1, <1>4 DEF Sorted
  <2>3. CASE j = Len(s) + 1
    <3>1. x[i] < MaxUpdateIndex(s) + 1 BY <1>2, <1>3, <2>1
    <3> QED BY <3>1, <1>1, <1>2, <2>1, <2>3
  <2> QED BY <2>1, <2>2, <2>3
<1> QED BY <1>4 DEF Sorted, c

(* A sequence of tables has a length, and tables at its places. *)
LEMMA TableSeqShape ==
  ASSUME NEW s \in TableSeq
  PROVE  Len(s) \in Nat /\ DOMAIN s = 1 .. Len(s) /\ \A k \in 1 .. Len(s) : s[k] \in Tables
BY DEF TableSeq

(* A merged table takes the place of the segment: the order stays, the segment *)
(* is gone, and every other table is still there. *)
LEMMA SplicedSorted ==
  ASSUME body \in [Tables -> [recs : Records, index : Nat]], NEW s \in TableSeq, Sorted(s),
         NEW n \in Nat \ {0}, NEW i \in 1 .. (Len(s) - n + 1),
         NEW seg \in TableSeq, Len(seg) = n, PartAt(s, i, seg),
         NEW own \in Tables, own \notin Els(s), body[own].index = body[Last(seg)].index,
         NEW new \in TableSeq, Len(new) \in {0, 1}, Len(new) = 1 => new[1] = own, NEW c, c = Spliced(s, i, n, new)
  PROVE  /\ c \in TableSeq /\ Sorted(c)
         /\ Els(c) \subseteq Els(s) \cup {own}
         /\ Len(new) = 0 => Els(c) \subseteq Els(s)
         /\ Els(s) \ Els(c) \subseteq Els(seg)
         /\ Els(seg) \cap Els(c) = {}
<1> DEFINE d == Len(new)
<1>1. d \in {0, 1} /\ (d = 1 => new[1] = own) OBVIOUS
<1>2. Len(s) \in Nat /\ n \in Nat \ {0} /\ i \in Nat /\ i >= 1 /\ i + n - 1 <= Len(s)
      /\ \A k \in 1 .. Len(s) : s[k] \in Tables
  <2>1. Len(s) \in Nat /\ \A k \in 1 .. Len(s) : s[k] \in Tables BY TableSeqShape, Zenon
  <2>2. i \in Nat /\ i >= 1 /\ i + n - 1 <= Len(s) BY <2>1
  <2> QED BY <2>1, <2>2
<1>3. /\ c \in TableSeq /\ Len(c) = Len(s) - n + d
      /\ \A k \in 1 .. i - 1 : c[k] = s[k]
      /\ d = 1 => c[i] = own
      /\ \A k \in (i + d) .. Len(c) : c[k] = s[k - d + n]
  <2>1. c \in TableSeq /\ SplitAt(c, s, i, n, d, own) BY SplicedShape
  <2> HIDE DEF d
  <2> QED BY <2>1 DEF SplitAt
<1>4. \A k \in 1 .. n : seg[k] = s[i + k - 1] /\ i + k - 1 \in 1 .. Len(s) BY <1>2 DEF PartAt
<1> HIDE DEF d
(* Where the table at each place of the new list was. *)
<1> DEFINE was == [k \in 1 .. Len(c) |-> IF k < i THEN k ELSE IF k < i + d THEN i + n - 1 ELSE k - d + n]
<1>5. \A k \in 1 .. Len(c) :
        /\ was[k] \in 1 .. Len(s)
        /\ k < i => was[k] = k /\ c[k] = s[k]
        /\ ~(k < i) /\ k < i + d => was[k] = i + n - 1 /\ c[k] = own /\ d = 1
        /\ ~(k < i + d) => was[k] = k - d + n /\ c[k] = s[was[k]] /\ ~(k < i)
  <2> TAKE k \in 1 .. Len(c)
  <2>1. CASE k < i BY <2>1, <1>1, <1>2, <1>3
  <2>2. CASE ~(k < i) /\ k < i + d
    <3>1. d = 1 /\ k = i BY <2>2, <1>1, <1>2
    <3> QED BY <3>1, <2>2, <1>2, <1>3
  <2>3. CASE ~(k < i) /\ ~(k < i + d)
    <3>1. k \in (i + d) .. Len(c) BY <2>3, <1>1, <1>2
    <3>2. k - d + n \in 1 .. Len(s) BY <3>1, <1>1, <1>2, <1>3
    <3> QED BY <3>1, <3>2, <2>3, <1>3
  <2> QED BY <2>1, <2>2, <2>3, <1>1, <1>2
<1>6. \A k, m \in 1 .. Len(c) : k < m => was[k] < was[m] BY <1>1, <1>2
<1> HIDE DEF was
<1>7. Last(seg) = s[i + n - 1] /\ n \in 1 .. n BY <1>2, <1>4 DEF Last
<1>8. ASSUME NEW k \in 1 .. Len(c) PROVE body[c[k]].index = body[s[was[k]]].index
  <2>1. CASE ~(k < i) /\ k < i + d BY <2>1, <1>5, <1>7
  <2>2. CASE k < i BY <2>2, <1>5
  <2>3. CASE ~(k < i + d) BY <2>3, <1>5
  <2> QED BY <2>1, <2>2, <2>3
<1>9. Sorted(c)
  <2> SUFFICES ASSUME NEW k \in 1 .. Len(c), NEW m \in 1 .. Len(c), k < m
               PROVE  body[c[k]].index < body[c[m]].index
    BY DEF Sorted
  <2>1. was[k] \in 1 .. Len(s) /\ was[m] \in 1 .. Len(s) /\ was[k] < was[m] BY <1>5, <1>6
  <2>2. body[s[was[k]]].index < body[s[was[m]]].index BY <2>1 DEF Sorted
  <2> QED BY <2>2, <1>8
<1>10. Els(c) \subseteq Els(s) \cup {own}
  <2>1. ASSUME NEW k \in 1 .. Len(c) PROVE c[k] \in Els(s) \cup {own}
    <3>1. c[k] = own \/ (c[k] = s[was[k]] /\ was[k] \in 1 .. Len(s)) BY <1>5
    <3> QED BY <3>1 DEF Els
  <2> QED BY <2>1 DEF Els
<1>11. d = 0 => Els(c) \subseteq Els(s)
  <2> SUFFICES ASSUME d = 0, NEW k \in 1 .. Len(c) PROVE c[k] \in Els(s) BY DEF Els
  <2>1. c[k] = s[was[k]] /\ was[k] \in 1 .. Len(s) BY <1>1, <1>5
  <2> QED BY <2>1 DEF Els
<1>12. \A k, m \in 1 .. Len(s) : k # m => s[k] # s[m]
  <2> SUFFICES ASSUME NEW k \in 1 .. Len(s), NEW m \in 1 .. Len(s), k < m PROVE s[k] # s[m]
    <3>1. \A k, m \in 1 .. Len(s) : k # m => k < m \/ m < k BY <1>2
    <3> QED BY <3>1
  <2>1. body[s[k]].index < body[s[m]].index BY DEF Sorted
  <2>2. body[s[k]].index \in Nat BY <1>2, IndexType
  <2> QED BY <2>1, <2>2
<1>13. \A t \in Els(s) \ Els(c) : t \in Els(seg)
  <2> TAKE t \in Els(s) \ Els(c)
  <2>1. PICK k \in 1 .. Len(s) : t = s[k] BY DEF Els
  <2>2. CASE k < i
    <3>1. k \in 1 .. Len(c) BY <2>2, <1>1, <1>2, <1>3
    <3>2. c[k] = t BY <3>1, <2>1, <2>2, <1>5
    <3> QED BY <3>1, <3>2 DEF Els
  <2>3. CASE k >= i + n
    <3>1. k + d - n \in (i + d) .. Len(c) /\ k + d - n \in 1 .. Len(c) /\ (k + d - n) - d + n = k
      BY <2>3, <1>1, <1>2, <1>3
    <3>2. c[k + d - n] = t BY <3>1, <2>1, <1>3
    <3> QED BY <3>1, <3>2 DEF Els
  <2>4. CASE ~(k < i) /\ ~(k >= i + n)
    <3>1. k - i + 1 \in 1 .. n /\ i + (k - i + 1) - 1 = k BY <2>4, <1>2
    <3>2. seg[k - i + 1] = t BY <3>1, <1>4, <2>1
    <3> QED BY <3>1, <3>2 DEF Els
  <2> QED BY <2>2, <2>3, <2>4
<1>14. Els(seg) \cap Els(c) = {}
  <2> SUFFICES ASSUME NEW k \in 1 .. n, NEW m \in 1 .. Len(c), seg[k] = c[m] PROVE FALSE BY DEF Els
  <2>1. i + k - 1 \in 1 .. Len(s) /\ seg[k] = s[i + k - 1] /\ i <= i + k - 1 /\ i + k - 1 < i + n
    BY <1>2, <1>4
  <2>2. CASE ~(m < i) /\ m < i + d
    <3>1. c[m] = own BY <2>2, <1>5
    <3> QED BY <3>1, <2>1 DEF Els
  <2>3. CASE m < i
    <3>1. s[m] = s[i + k - 1] /\ m \in 1 .. Len(s) /\ m # i + k - 1
      <4>1. c[m] = s[m] BY <2>3, <1>5
      <4>2. m \in 1 .. Len(s) /\ m # i + k - 1 BY <2>1, <2>3, <1>2
      <4> QED BY <4>1, <4>2, <2>1
    <3> QED BY <3>1, <2>1, <1>12
  <2>4. CASE ~(m < i + d)
    <3>1. was[m] \in 1 .. Len(s) /\ was[m] = m - d + n /\ c[m] = s[was[m]] BY <2>4, <1>5
    <3>2. was[m] # i + k - 1 BY <3>1, <2>1, <2>4, <1>1, <1>2
    <3> QED BY <3>1, <3>2, <2>1, <1>12
  <2> QED BY <2>2, <2>3, <2>4
<1> QED BY <1>3, <1>9, <1>10, <1>11, <1>13, <1>14 DEF d


(* A segment that was found in the list is in it, table by table. *)
LEMMA FoundPart ==
  ASSUME NEW s \in TableSeq, NEW seg \in TableSeq, NEW n \in Nat \ {0}, Len(seg) = n,
         NEW i \in 1 .. (Len(s) - n + 1), SubSeq(s, i, i + n - 1) = seg
  PROVE  PartAt(s, i, seg)
<1>1. Len(s) \in Nat /\ i \in Int /\ i + n - 1 \in Int /\ 1 <= i /\ i + n - 1 <= Len(s) BY DEF TableSeq
<1>2. \A k \in 1 .. Len(SubSeq(s, i, i + n - 1)) : SubSeq(s, i, i + n - 1)[k] = s[i + k - 1] BY <1>1, ElsPart
<1> QED BY <1>2 DEF PartAt

(* What a commit makes of the list. *)
LEMMA CommitList ==
  ASSUME StackIndInv, NEW p \in Procs, me[p].pc = "commit"
  PROVE  /\ me[p].next \in TableSeq /\ Sorted(me[p].next)
         /\ Els(me[p].next) \subseteq Els(list) \cup {OwnTable(p)}
         /\ Els(list) \ Els(me[p].next) \subseteq Els(me[p].seg)
         /\ Els(me[p].seg) \cap Els(me[p].next) = {}
         /\ \A t \in Els(me[p].next) : t \in files
<1> DEFINE own == OwnTable(p)
<1>1. /\ MeTypes(p) /\ SegOK(p) /\ PlaceOK(p) /\ FlightOK(p) /\ DiskTypes /\ NextOK(p) /\ list \in TableSeq
      /\ \A t \in Els(list) : t \in files /\ Settled(t)
  BY MeShape DEF PlaceOK
<1>2. Sorted(list) BY DEF StackIndInv, ListOK, Sorted
<1>3. own \in Tables /\ own \notin Els(list) BY <1>1, OwnIsUnborn DEF Writing
<1>4. body \in [Tables -> [recs : Records, index : Nat]] BY <1>1 DEF DiskTypes
<1>5. CASE ~Compacting(p)
  <2>1. me[p].next = Append(list, own) /\ body[own].index = MaxUpdateIndex(list) + 1
    BY <1>1, <1>5 DEF NextOK, OwnTable
  <2>2. Sorted(Append(list, own)) BY <1>1, <1>2, <1>3, <1>4, <2>1, AppendSorted
  <2>3. Append(list, own) \in TableSeq /\ Els(Append(list, own)) = Els(list) \cup {own}
    BY <1>1, <1>3, ElsAppend
  <2>4. Els(me[p].seg) = {} BY <1>5 DEF Compacting, Els
  <2>5. own \in files BY <1>1, <1>5 DEF FlightOK
  <2> QED BY <1>1, <2>1, <2>2, <2>3, <2>4, <2>5
<1>6. CASE Compacting(p)
  <2> DEFINE n == Len(me[p].seg)
             empty == body[own].recs = NoRecords
             new == IF empty THEN <<>> ELSE <<own>>
  <2>1. PICK i \in 1 .. (Len(list) - n + 1) :
          SubSeq(list, i, i + n - 1) = me[p].seg /\ me[p].next = Spliced(list, i, n, new)
    BY <1>1, <1>6 DEF NextOK
  <2>2. new \in TableSeq /\ Len(new) \in {0, 1} /\ (Len(new) = 1 => new[1] = own /\ ~empty)
    <3>1. <<>> \in TableSeq /\ Len(<<>>) = 0 BY DEF TableSeq
    <3>2. <<own>> \in TableSeq /\ Len(<<own>>) = 1 /\ <<own>>[1] = own BY <1>3 DEF TableSeq
    <3> QED BY <3>1, <3>2
  <2>3. n \in Nat \ {0} /\ me[p].seg \in TableSeq BY <1>1, <1>6 DEF Compacting, MeTypes, TableSeq
  <2>4. body[own].index = body[Last(me[p].seg)].index BY <1>1, <1>6 DEF PlaceOK
  <2> HIDE DEF new, n, own
  <2>5. PartAt(list, i, me[p].seg)
    <3>1. Len(me[p].seg) = n BY DEF n
    <3> QED BY <3>1, <1>1, <2>1, <2>3, FoundPart
  <2>6. /\ me[p].next \in TableSeq /\ Sorted(me[p].next)
        /\ Els(me[p].next) \subseteq Els(list) \cup {own}
        /\ Len(new) = 0 => Els(me[p].next) \subseteq Els(list)
        /\ Els(list) \ Els(me[p].next) \subseteq Els(me[p].seg)
        /\ Els(me[p].seg) \cap Els(me[p].next) = {}
    <3>1. Len(me[p].seg) = n BY DEF n
    <3> QED BY <3>1, <1>1, <1>2, <1>3, <1>4, <2>1, <2>2, <2>3, <2>4, <2>5, SplicedSorted
  <2>7. ~empty => own \in files BY <1>1 DEF FlightOK, own
  <2>8. \A t \in Els(me[p].next) : t \in files BY <1>1, <2>2, <2>6, <2>7
  <2> QED BY <2>6, <2>8 DEF own
<1> QED BY <1>5, <1>6

(* A commit leaves a sound list, and takes only tables from it that its *)
(* process has locked. *)
LEMMA CommitOK ==
  ASSUME StackIndInv, NEW p \in Procs, UNCHANGED <<use, faults>>, CommitListBody(p)
  PROVE  StepOK(p)
<1> DEFINE own == OwnTable(p)
<1>1. /\ DOMAIN me = Procs /\ DOMAIN me[p] = MeFields /\ MeTypes(p) /\ SegOK(p) /\ PlaceOK(p) /\ DiskTypes
      /\ IdsOK(p) /\ me[p].pc = "commit" /\ me[p].pc \in Holding /\ lockFile = me[p].next
      /\ UNCHANGED <<tlocks, files, temps, body, issued>>
      /\ \A t \in Els(list) : t \in files /\ Settled(t)
  BY MeShape, LabelSets DEF CommitListBody, At, PlaceOK
<1>2. lockFile # NoFile BY <1>1 DEF StackIndInv, ListLockExclusive
<1>3. PICK l \in {"unlink", "invalidate"} :
        /\ list' = me[p].next /\ stamp' = stamp + 1 /\ lockFile' = NoFile
        /\ me' = [me EXCEPT ![p].pc = l, ![p].plan = NoPlan, ![p].next = <<>>, ![p].left = me[p].seg]
        /\ l = "unlink" <=> Compacting(p)
  BY <1>1, <1>2 DEF CommitListBody
<1>4. /\ DOMAIN me' = Procs /\ (\A q \in Procs \ {p} : me'[q] = me[q]) /\ DOMAIN me'[p] = MeFields
      /\ me'[p].op = me[p].op /\ me'[p].plan = NoPlan /\ me'[p].id = me[p].id
      /\ me'[p].next = <<>> /\ me'[p].seg = me[p].seg /\ me'[p].victims = me[p].victims
      /\ me'[p].names = me[p].names /\ me'[p].left = me[p].seg /\ me'[p].pc = l
  BY <1>1, <1>3 DEF MeFields
<1>5. /\ list' \in TableSeq /\ Sorted(list') /\ Els(list') \subseteq Els(list) \cup {own}
      /\ Els(list) \ Els(list') \subseteq Els(me[p].seg) /\ Els(me[p].seg) \cap Els(list') = {}
      /\ \A t \in Els(list') : t \in files
  BY <1>1, <1>3, CommitList
<1>6. own \in Unborn(p) /\ own \in 1 .. issued BY <1>1, OwnIsUnborn DEF Writing, IdsOK
<1>7. Unborn(p)' \subseteq Unborn(p) /\ own \notin Unborn(p)'
  <2>1. me[p].id \in Nat BY <1>1 DEF MeTypes
  <2>2. CASE Compacting(p)
    <3>1. Unborn(p)' = {} BY <1>3, <1>4, <2>2 DEF Unborn, Writing, Merging
    <3> QED BY <3>1
  <2>3. CASE ~Compacting(p)
    <3>1. Unborn(p)' = {me[p].id + 1} /\ own = me[p].id
      BY <1>3, <1>4, <2>3 DEF Unborn, Writing, Merging, OwnTable
    <3>2. Unborn(p) = {me[p].id, me[p].id + 1} BY <1>1, <2>3 DEF Unborn, Writing
    <3> QED BY <3>1, <3>2, <2>1
  <2> QED BY <2>2, <2>3
<1>8. OthersStay(p) BY <1>4 DEF OthersStay
<1>9. OwnNames(p)
  <2>1. issued \in Nat /\ issued <= issued BY <1>1 DEF DiskTypes
  <2> QED BY <2>1, <1>1, <1>7 DEF OwnNames
<1>10. \A t : Settled(t) => Settled(t)' BY <1>8, <1>9, SettledStays
<1>11. ASSUME NEW t, t = own PROVE Settled(t)'
  <2>1. \A q \in Procs \ {p} : own \notin Unborn(q) BY <1>6 DEF StackIndInv, Apart
  <2>2. \A q \in Procs \ {p} : Unborn(q)' = Unborn(q) BY <1>4 DEF Unborn, Compacting
  <2> HIDE DEF own
  <2> QED BY <1>1, <1>6, <1>7, <1>11, <2>1, <2>2 DEF Settled
<1>12. ListOK'
  <2>1. \A t \in Els(list') : Settled(t)' BY <1>1, <1>5, <1>10, <1>11
  <2>2. \A i, j \in 1 .. Len(list') : i < j => body'[list'[i]].index < body'[list'[j]].index
    BY <1>1, <1>5 DEF Sorted
  <2> QED BY <1>1, <1>5, <2>1, <2>2 DEF ListOK
<1>13. OwnCommit(p) BY <1>1, <1>5, <1>6, <1>12 DEF OwnCommit
<1>14. OwnFiles(p) BY <1>1 DEF OwnFiles
<1>15. OwnListLock(p) BY <1>1, <1>3, <1>4, LabelSets DEF OwnListLock
<1>16. OwnTableLocks(p) BY <1>1, <1>4 DEF OwnTableLocks, SegOK
<1>17. DiskTypes' BY <1>1, <1>3, <1>4, <1>5 DEF DiskTypes
<1>18. MeTypes(p)'
  <2>1. <<>> \in TableSeq BY DEF TableSeq
  <2> QED BY <2>1, <1>1, <1>4, LabelSets DEF MeTypes
<1>19. IdsOK(p)' BY <1>1, <1>7 DEF IdsOK
<1>20. SegOK(p)' BY <1>1, <1>3, <1>4, <1>10 DEF SegOK, Compacting, SegLabels, Listed
<1>21. PlaceOK(p)' BY <1>4, <1>5 DEF PlaceOK
<1>22. FlightOK(p)' BY <1>4 DEF FlightOK, At
<1> QED BY <1>8, <1>9, <1>13, <1>14, <1>15, <1>16, <1>17, <1>18, <1>19, <1>20, <1>21, <1>22
  DEF StepOK, ProcOK, Guarantee


------------------------------
(* Faults: what a call that is cut short leaves behind. *)

(* The call is over, or only its finally block is left to run. *)
CutShort(q) ==
  /\ MeTypes(q)' /\ me'[q].pc \in {"unlock", "free", "idle"}
  /\ me'[q].pc = "unlock" => me[q].pc \in Holding
  /\ me'[q].seg # <<>> => me'[q].pc # "idle"
  /\ Els(me'[q].seg) \subseteq Els(me[q].seg) /\ Distinct(me'[q].seg)
  /\ Els(me'[q].names) \subseteq Els(me[q].names) /\ Els(me'[q].left) \subseteq Els(me[q].left)

(* A fault that only cuts calls short keeps the invariant. *)
LEMMA FaultKeeps ==
  ASSUME StackIndInv, UNCHANGED <<disk, issued, use>>, faults' \in 0 .. use.faults, faults' # 0,
         DOMAIN me' = Procs, \A q \in Procs : me'[q] = me[q] \/ CutShort(q)
  PROVE  StackIndInv'
<1>1. /\ list' = list /\ stamp' = stamp /\ lockFile' = lockFile /\ tlocks' = tlocks
      /\ files' = files /\ temps' = temps /\ body' = body /\ issued' = issued /\ use' = use
  BY DEF disk
<1>2. DiskTypes' BY <1>1 DEF StackIndInv, DiskTypes
<1>3. ASSUME NEW q \in Procs PROVE MeTypes(q)' BY DEF StackIndInv, MeTypes, CutShort
<1>4. ASSUME NEW q \in Procs PROVE Unborn(q)' \subseteq Unborn(q) /\ Els(me'[q].seg) \subseteq Els(me[q].seg)
  <2>1. CASE me'[q] = me[q] BY <2>1 DEF Unborn, Compacting
  <2>2. CASE CutShort(q)
    <3>1. Unborn(q)' = {} BY <2>2 DEF CutShort, Unborn, Writing, Merging
    <3> QED BY <3>1, <2>2 DEF CutShort
  <2> QED BY <2>1, <2>2
<1>5. \A t : Settled(t) => Settled(t)' BY <1>1, <1>4 DEF Settled
<1>6. ListLockExclusive'
  <2>1. \A q \in Procs : me'[q].pc \in Holding => me[q].pc \in Holding BY LabelSets DEF CutShort
  <2>2. \A q \in Procs : me[q].pc \in Holding =>
          lockFile # NoFile /\ \A r \in Procs \ {q} : me[r].pc \notin Holding
    BY DEF StackIndInv, ListLockExclusive
  <2> SUFFICES ASSUME NEW q \in Procs, me'[q].pc \in Holding
               PROVE  lockFile' # NoFile /\ \A r \in Procs \ {q} : me'[r].pc \notin Holding
    BY LabelSets DEF ListLockExclusive
  <2> QED BY <1>1, <2>1, <2>2
<1>7. ListOK' BY <1>1, <1>5 DEF StackIndInv, ListOK
<1>8. Apart'
  <2>1. \A q, r \in Procs : q # r => Unborn(q) \cap Unborn(r) = {} /\ Els(me[q].seg) \cap Els(me[r].seg) = {}
    BY DEF StackIndInv, Apart
  <2> SUFFICES ASSUME NEW q \in Procs, NEW r \in Procs, q # r
               PROVE  Unborn(q)' \cap Unborn(r)' = {} /\ Els(me'[q].seg) \cap Els(me'[r].seg) = {}
    BY DEF Apart, Els
  <2>2. Unborn(q)' \subseteq Unborn(q) /\ Unborn(r)' \subseteq Unborn(r) BY <1>4
  <2>3. Els(me'[q].seg) \subseteq Els(me[q].seg) /\ Els(me'[r].seg) \subseteq Els(me[r].seg) BY <1>4
  <2> QED BY <2>1, <2>2, <2>3
<1>9. LocksHeld' BY DEF LocksHeld
<1>10. ASSUME NEW q \in Procs PROVE ProcOK(q)'
  <2>1. ProcOK(q) BY DEF StackIndInv
  <2>2. IdsOK(q)' BY <1>1, <1>4, <2>1 DEF ProcOK, IdsOK
  <2>3. CASE me'[q] = me[q]
    <3>1. OwnTable(q)' = OwnTable(q) /\ Compacting(q)' = Compacting(q) BY <2>3 DEF OwnTable, Compacting
    <3>2. NextOK(q)' = NextOK(q) BY <1>1, <2>3, <3>1 DEF NextOK, MaxUpdateIndex
    <3>3. SegOK(q)' BY <1>1, <1>5, <2>1, <2>3, <3>1 DEF ProcOK, SegOK
    <3>4. PlaceOK(q)' BY <1>1, <2>1, <2>3, <3>1, <3>2 DEF ProcOK, PlaceOK
    <3>5. FlightOK(q)' BY <1>1, <2>1, <2>3, <3>1 DEF ProcOK, FlightOK, At
    <3> QED BY <2>2, <3>3, <3>4, <3>5 DEF ProcOK
  <2>4. CASE CutShort(q)
    <3>1. \A t \in Els(me'[q].names) \cup Els(me'[q].left) \cup Els(me'[q].seg) : Settled(t)'
      BY <1>5, <2>1, <2>4 DEF CutShort, ProcOK, SegOK
    <3>2. SegOK(q)' BY <1>1, <2>1, <2>4, <3>1 DEF CutShort, ProcOK, SegOK, Compacting, SegLabels, Listed
    <3>3. PlaceOK(q)' /\ FlightOK(q)' BY <2>4 DEF CutShort, PlaceOK, FlightOK, At
    <3> QED BY <2>2, <3>2, <3>3 DEF ProcOK
  <2> QED BY <2>3, <2>4
<1> QED BY <1>2, <1>3, <1>6, <1>7, <1>8, <1>9, <1>10 DEF StackIndInv

(* A call that is gone was cut short. *)
LEMMA IdleCutShort ==
  ASSUME NEW q \in Procs, me'[q] = Idle
  PROVE  CutShort(q)
<1>1. Idle.pc = "idle" /\ Idle.seg = <<>> /\ Idle.names = <<>> /\ Idle.left = <<>> BY DEF Idle
<1>2. Els(<<>>) = {} /\ Distinct(<<>>) BY DEF Els, Distinct
<1>3. MeTypes(q)' BY IdleOK
<1> QED BY <1>1, <1>2, <1>3 DEF CutShort

(* An I/O error keeps the invariant. *)
LEMMA FailKeeps ==
  ASSUME StackIndInv, NEW p \in Procs, Fail(p), UNCHANGED use, faults' \in 0 .. use.faults, faults' # 0
  PROVE  StackIndInv'
<1>1. DOMAIN me = Procs /\ DOMAIN me[p] = MeFields /\ MeTypes(p) /\ SegOK(p) BY MeShape
<1>2. UNCHANGED <<disk, issued, use>> BY DEF Fail
<1>3. \/ /\ me[p].pc \in {"prepare", "stage", "rename", "lockBody", "commit", "splice", "readdir", "sweep"}
         /\ me' = [me EXCEPT ![p].pc = "unlock", ![p].threw = TRUE]
      \/ /\ me[p].pc \in {"check", "tables", "giveUp"}
         /\ me' = [me EXCEPT ![p].pc = "unlock", ![p].threw = TRUE, ![p].seg = <<>>]
      \/ /\ me[p].pc \in {"lockSplice", "unlink"}
         /\ me' = [me EXCEPT ![p].pc = "free", ![p].threw = TRUE]
      \/ me' = [me EXCEPT ![p] = Idle]
  BY DEF Fail
<1>4. DOMAIN me' = Procs /\ \A q \in Procs \ {p} : me'[q] = me[q] BY <1>1, <1>3
<1>5. CutShort(p)
  <2>1. CASE me' = [me EXCEPT ![p] = Idle] BY <2>1, <1>1, IdleCutShort
  <2>2. CASE ~(me' = [me EXCEPT ![p] = Idle])
    <3>1. /\ DOMAIN me'[p] = MeFields
          /\ me'[p].op = me[p].op /\ me'[p].plan = me[p].plan /\ me'[p].id = me[p].id
          /\ me'[p].next = me[p].next /\ me'[p].victims = me[p].victims
          /\ me'[p].names = me[p].names /\ me'[p].left = me[p].left
          /\ me'[p].pc \in {"unlock", "free"} /\ me'[p].seg \in {me[p].seg, <<>>}
          /\ me'[p].pc = "unlock" =>
               me[p].pc \in {"prepare", "stage", "rename", "lockBody", "commit", "splice", "readdir", "sweep",
                             "check", "tables", "giveUp"}
      BY <1>1, <1>3, <2>2 DEF MeFields
    <3>2. <<>> \in TableSeq /\ Els(<<>>) = {} /\ Distinct(<<>>) BY DEF TableSeq, Els, Distinct
    <3>3. MeTypes(p)' BY <1>1, <3>1, <3>2, LabelSets DEF MeTypes
    <3>4. me'[p].pc = "unlock" => me[p].pc \in Holding BY <3>1, LabelSets
    <3>5. Els(me'[p].seg) \subseteq Els(me[p].seg) /\ Distinct(me'[p].seg) BY <3>1, <3>2, <1>1 DEF SegOK
    <3> QED BY <3>1, <3>3, <3>4, <3>5 DEF CutShort
  <2> QED BY <2>1, <2>2
<1> QED BY <1>2, <1>4, <1>5, FaultKeeps

(* So does a crash. *)
LEMMA CrashKeeps ==
  ASSUME StackIndInv, NEW s \in Sessions, Crash(s), UNCHANGED use, faults' \in 0 .. use.faults, faults' # 0
  PROVE  StackIndInv'
<1>1. UNCHANGED <<disk, issued, use>> BY DEF Crash
<1>2. DOMAIN me' = Procs BY DEF Crash
<1>3. ASSUME NEW q \in Procs PROVE me'[q] = me[q] \/ me'[q] = Idle BY DEF Crash
<1> QED BY <1>1, <1>2, <1>3, IdleCutShort, FaultKeeps

------------------------------
(* The invariant. *)

(* It holds at the start. *)
LEMMA StackInit ==
  ASSUME Init
  PROVE  StackIndInv
<1>1. PICK s \in Stacks :
        /\ list = [i \in DOMAIN s |-> i]
        /\ files = DOMAIN s
        /\ body = [t \in Tables |->
                    IF t \in DOMAIN s THEN [recs |-> s[t], index |-> t]
                    ELSE [recs |-> NoRecords, index |-> 0]]
        /\ issued = Len(s)
  BY DEF Init
<1>2. /\ use \in Use /\ stamp = 0 /\ lockFile = NoFile /\ tlocks = {} /\ temps = {}
      /\ me = [p \in Procs |-> Idle] /\ faults = 0
  BY StackAssumption DEF Init
<1>3. s \in Seq(Records \ {NoRecords}) /\ Len(s) \in Nat /\ Len(s) <= MaxTables /\ MaxTables \in Nat
      /\ DOMAIN s = 1 .. Len(s) /\ \A i \in 1 .. Len(s) : s[i] \in Records
  BY StackAssumption
<1>4. \A i \in 1 .. Len(s) : i \in Tables BY <1>3 DEF Tables
<1>5. list \in TableSeq /\ Len(list) = Len(s) /\ \A i \in 1 .. Len(s) : list[i] = i
  <2>1. list \in [1 .. Len(s) -> Tables] /\ DOMAIN list = 1 .. Len(s) BY <1>1, <1>3, <1>4
  <2>2. list \in TableSeq BY <2>1, <1>3, SeqDef DEF TableSeq
  <2>3. Len(list) = Len(s) BY <2>1, <2>2, <1>3 DEF TableSeq
  <2> QED BY <2>2, <2>3, <1>1, <1>3
<1>6. /\ body \in [Tables -> [recs : Records, index : Nat]]
      /\ \A i \in 1 .. Len(s) : body[i].index = i
  <2>1. NoRecords \in Records BY DEF NoRecords, Records
  <2>2. ASSUME NEW t \in Tables PROVE body[t] \in [recs : Records, index : Nat]
    <3>1. t \in Nat BY <1>3 DEF Tables
    <3>2. CASE t \in DOMAIN s BY <3>1, <3>2, <1>1, <1>3
    <3>3. CASE t \notin DOMAIN s BY <3>3, <2>1, <1>1
    <3> QED BY <3>2, <3>3
  <2>3. \A i \in 1 .. Len(s) : body[i].index = i BY <1>1, <1>3, <1>4
  <2> QED BY <2>2, <2>3, <1>1
<1>7. Els(list) = 1 .. Len(s) BY <1>5, <1>3 DEF Els
<1>8. use.faults \in 0..1 BY <1>2 DEF Use
<1>9. DiskTypes
  <2>1. faults \in 0 .. use.faults BY <1>2, <1>8
  <2>2. issued \in 0 .. MaxTables BY <1>1, <1>3
  <2>3. files \subseteq Tables BY <1>1, <1>3, <1>4
  <2> QED BY <2>1, <2>2, <2>3, <1>2, <1>5, <1>6 DEF DiskTypes
<1>10. /\ DOMAIN Idle = MeFields /\ Idle.pc = "idle" /\ Idle.op = "none" /\ Idle.plan = NoPlan
       /\ Idle.id = 0 /\ Idle.names = <<>> /\ Idle.next = <<>> /\ Idle.seg = <<>> /\ Idle.left = <<>>
       /\ Idle.victims = {}
  BY DEF Idle, MeFields
<1>11. <<>> \in TableSeq /\ Els(<<>>) = {} /\ Distinct(<<>>) BY DEF TableSeq, Els, Distinct
<1>12. \A p \in Procs : me[p] = Idle BY <1>2
<1>13. \A p \in Procs : MeTypes(p) BY <1>10, <1>11, <1>12, LabelSets DEF MeTypes
<1>14. \A p \in Procs : Unborn(p) = {} BY <1>10, <1>12 DEF Unborn, Writing, Merging
<1>15. ListLockExclusive BY <1>10, <1>12, LabelSets DEF ListLockExclusive
<1>16. ListOK
  <2>1. \A t \in Els(list) : t \in files /\ Settled(t) BY <1>1, <1>3, <1>7, <1>14 DEF Settled
  <2>2. \A i, j \in 1 .. Len(list) : i < j => body[list[i]].index < body[list[j]].index BY <1>5, <1>6, <1>3
  <2> QED BY <2>1, <2>2 DEF ListOK
<1>17. Apart BY <1>10, <1>11, <1>12, <1>14 DEF Apart
<1>18. LocksHeld BY <1>2 DEF LocksHeld
<1>19. ASSUME NEW p \in Procs PROVE ProcOK(p)
  <2>1. SegOK(p) BY <1>10, <1>11, <1>12 DEF SegOK, Compacting, Listed
  <2>2. PlaceOK(p) /\ FlightOK(p) BY <1>10, <1>12 DEF PlaceOK, FlightOK, At
  <2>3. IdsOK(p) BY <1>14 DEF IdsOK
  <2> QED BY <2>1, <2>2, <2>3 DEF ProcOK
<1> QED BY <1>9, <1>13, <1>15, <1>16, <1>17, <1>18, <1>19 DEF StackIndInv

(* Every step of a call is all right. *)
LEMMA WorkOK ==
  ASSUME StackIndInv, NEW p \in Procs, Begin(p) \/ Work(p), UNCHANGED <<use, faults>>
  PROVE  StepOK(p)
<1>1. CASE Begin(p) BY <1>1, BeginPackOK, BeginReadOK DEF Begin
<1>2. CASE Work(p)
  BY <1>2, AcquireOK, TimeoutOK, UnlockOK, PrepareOK, WriteTempOK, RenameOK, WriteLockBodyOK, CommitOK,
     InvalidateOK, ProbeOK, SizeOK, CheckNamesOK, LockTableOK, GiveUpOK, UnlockPlanOK, MergeOK, SpliceOK,
     UnlinkOK, ReleaseOK, ReadDirectoryOK, SweepOK, ReadOK, Zenon DEF Work
<1> QED BY <1>1, <1>2

(* Every step keeps it. *)
LEMMA StackStep ==
  ASSUME StackIndInv, [Next]_vars
  PROVE  StackIndInv'
<1>1. CASE \E p \in Procs : (Begin(p) \/ Work(p)) /\ UNCHANGED <<use, faults>> BY <1>1, WorkOK, StepKeeps
<1>2. CASE Fault /\ UNCHANGED use
  <2>1. faults < use.faults /\ faults' = faults + 1 BY <1>2 DEF Fault
  <2>2. faults \in 0 .. use.faults /\ use.faults \in 0 .. 1 BY DEF StackIndInv, DiskTypes, Use
  <2>3. faults' \in 0 .. use.faults /\ faults' # 0 BY <2>1, <2>2
  <2> QED BY <1>2, <2>3, FailKeeps, CrashKeeps DEF Fault
<1>3. CASE UNCHANGED vars
  <2>1. /\ list' = list /\ stamp' = stamp /\ lockFile' = lockFile /\ tlocks' = tlocks
        /\ files' = files /\ temps' = temps /\ body' = body /\ issued' = issued /\ use' = use
        /\ me' = me /\ faults' = faults
    BY <1>3 DEF vars, disk
  <2>2. \A p \in Procs : Unborn(p)' = Unborn(p) /\ Compacting(p)' = Compacting(p) /\ OwnTable(p)' = OwnTable(p)
    BY <2>1 DEF Unborn, Compacting, OwnTable
  <2>3. \A t : Settled(t)' = Settled(t) BY <2>1, <2>2 DEF Settled
  <2>4. DiskTypes' /\ (\A p \in Procs : MeTypes(p)') BY <2>1 DEF StackIndInv, DiskTypes, MeTypes
  <2>5. ListLockExclusive' BY <2>1, LabelSets DEF StackIndInv, ListLockExclusive
  <2>6. ListOK' BY <2>1, <2>3 DEF StackIndInv, ListOK
  <2>7. Apart' BY <2>1, <2>2 DEF StackIndInv, Apart
  <2>8. LocksHeld' BY <2>1, LabelSets DEF StackIndInv, LocksHeld
  <2>9. ASSUME NEW p \in Procs PROVE ProcOK(p)'
    <3>1. ProcOK(p) BY DEF StackIndInv
    <3>2. NextOK(p)' = NextOK(p) BY <2>1, <2>2 DEF NextOK, MaxUpdateIndex
    <3>3. SegOK(p)' BY <2>1, <2>2, <2>3, <3>1 DEF ProcOK, SegOK
    <3>4. PlaceOK(p)' BY <2>1, <2>2, <3>1, <3>2 DEF ProcOK, PlaceOK
    <3>5. FlightOK(p)' BY <2>1, <2>2, <3>1 DEF ProcOK, FlightOK, At
    <3>6. IdsOK(p)' BY <2>1, <2>2, <3>1 DEF ProcOK, IdsOK
    <3> QED BY <3>3, <3>4, <3>5, <3>6 DEF ProcOK
  <2> QED BY <2>4, <2>5, <2>6, <2>7, <2>8, <2>9 DEF StackIndInv
<1> QED BY <1>1, <1>2, <1>3 DEF Next

(* The stack keeps its inductive invariant, for any number of callers and *)
(* tables: what every process reads, locks, writes and is about to commit fits *)
(* the list on disk. *)
THEOREM StackSound == Spec => []StackIndInv
<1>1. Init => StackIndInv BY StackInit
<1>2. StackIndInv /\ [Next]_vars => StackIndInv' BY StackStep
<1> QED BY <1>1, <1>2, PTL DEF Spec


------------------------------
(* Reading. *)

ReadLabels == {"stat", "load", "open", "answer"}

(* The map of a sequence of tables, for given records. *)
NewestIn(b, ts, r) ==
  LET I == {i \in DOMAIN ts : b[ts[i]].recs[r] # NoRecord}
  IN  IF I = {} THEN NoRecord ELSE b[ts[Max(I)]].recs[r]
ViewIn(b, ts) == [r \in Refs |-> IF NewestIn(b, ts, r) = NoRecord THEN None ELSE NewestIn(b, ts, r)]

(* A reader has seen the list as it is and as it read it; a key that is still *)
(* that of the list belongs to the names it read. *)
ReaderOK(p) ==
  /\ me[p].pc \in ReadLabels => me[p].op = "read" /\ ViewIn(body, list) \in seen[p]
  /\ me[p].pc = "open" => ViewIn(body, me[p].names) \in seen[p]
  /\ me[p].pc \in {"load", "open"} => me[p].key[1] \in Int /\ me[p].key[1] <= stamp
  /\ me[p].pc = "open" /\ me[p].key[1] = stamp => me[p].names = list
  /\ me[p].pc = "answer" => me[p].ans \in seen[p]

(* A memo is not newer than the list, and under its key it holds the map. *)
MemoOK(s) ==
  /\ cache[s].key[1] \in Int /\ cache[s].key[1] <= stamp
  /\ cache[s].key = Key => cache[s].map = ViewIn(body, list)
  /\ cache[s].map \in Map \cup {NoPlan}

ReadInv ==
  /\ DOMAIN cache = Sessions /\ DOMAIN seen = Procs
  /\ \A p \in Procs : ReaderOK(p) /\ seen[p] \subseteq Map /\ me[p].ans \in Map \cup {NoPlan}
  /\ \A s \in Sessions : MemoOK(s)

(* Any step but a reader's: no call starts or goes on reading. *)
ListStep == (list' = list /\ stamp' = stamp) \/ stamp' = stamp + 1
MemoStep == DOMAIN cache' = Sessions /\ \A s \in Sessions : cache'[s] \in {cache[s], NoCache}
Silent(p) ==
  /\ \A q \in Procs \ {p} : me'[q] = me[q]
  /\ me'[p].pc \notin ReadLabels /\ me'[p].ans \in {me[p].ans, NoPlan}
  /\ ListStep /\ MemoStep

(* The map, with the records as a parameter. *)
LEMMA ViewIs ==
  ASSUME NEW ts
  PROVE  View(ts) = ViewIn(body, ts)
<1>1. \A r : Newest(ts, r) = NewestIn(body, ts, r) BY DEF Newest, NewestIn
<1> QED BY <1>1 DEF View, ViewIn

(* The map after a step. *)
LEMMA ViewAfter == View(list)' = ViewIn(body', list')
<1>1. \A r : Newest(list, r)' = NewestIn(body', list', r) BY DEF Newest, NewestIn
<1> QED BY <1>1 DEF View, ViewIn

(* The newest record depends on nothing but the records of its tables. *)
LEMMA NewestStays ==
  ASSUME NEW b, NEW c, NEW ts \in TableSeq, \A t \in Els(ts) : b[t] = c[t], NEW r
  PROVE  NewestIn(b, ts, r) = NewestIn(c, ts, r)
<1> DEFINE I == {i \in DOMAIN ts : b[ts[i]].recs[r] # NoRecord}
<1>1. DOMAIN ts = 1 .. Len(ts) /\ Len(ts) \in Nat BY DEF TableSeq
<1>2. \A i \in DOMAIN ts : b[ts[i]] = c[ts[i]] BY <1>1 DEF Els
<1>3. I = {i \in DOMAIN ts : c[ts[i]].recs[r] # NoRecord} BY <1>2
<1>4. NewestIn(b, ts, r) = IF I = {} THEN NoRecord ELSE b[ts[Max(I)]].recs[r] BY Zenon DEF NewestIn
<1>5. NewestIn(c, ts, r) = IF I = {} THEN NoRecord ELSE c[ts[Max(I)]].recs[r] BY <1>3 DEF NewestIn
<1>6. I \subseteq 1 .. Len(ts) BY <1>1
<1> HIDE DEF I
<1>7. I # {} => Max(I) \in DOMAIN ts BY <1>6, <1>1, LastPosition
<1>8. CASE I = {} BY <1>4, <1>5, <1>8
<1>9. CASE I # {}
  <2>1. b[ts[Max(I)]] = c[ts[Max(I)]] BY <1>2, <1>7, <1>9
  <2> QED BY <2>1, <1>4, <1>5, <1>9
<1> QED BY <1>8, <1>9

(* And so does the map. *)
LEMMA ViewStays ==
  ASSUME NEW b, NEW c, NEW ts \in TableSeq, \A t \in Els(ts) : b[t] = c[t]
  PROVE  ViewIn(b, ts) = ViewIn(c, ts)
BY NewestStays DEF ViewIn

(* The map of a stack is a map. *)
LEMMA ViewInType ==
  ASSUME NEW b \in [Tables -> [recs : Records, index : Nat]], NEW ts \in TableSeq
  PROVE  ViewIn(b, ts) \in Map
<1>1. ASSUME NEW r \in Refs PROVE NewestIn(b, ts, r) \in Vals \cup {None, NoRecord}
  <2> DEFINE I == {i \in DOMAIN ts : b[ts[i]].recs[r] # NoRecord}
  <2>1. Len(ts) \in Nat /\ I \subseteq 1 .. Len(ts) /\ \A i \in 1 .. Len(ts) : ts[i] \in Tables
    BY DEF TableSeq
  <2>2. NewestIn(b, ts, r) = IF I = {} THEN NoRecord ELSE b[ts[Max(I)]].recs[r] BY DEF NewestIn
  <2> HIDE DEF I
  <2>3. CASE I = {} BY <2>2, <2>3
  <2>4. CASE I # {}
    <3>0. Max(I) \in 1 .. Len(ts) BY <2>1, <2>4, LastPosition
    <3>1. ts[Max(I)] \in Tables BY <2>1, <3>0
    <3>2. b[ts[Max(I)]].recs \in Records BY <3>1
    <3> QED BY <3>2, <2>2, <2>4 DEF Records
  <2> QED BY <2>3, <2>4
<1> QED BY <1>1 DEF ViewIn, Map

(* The records of a final table never change. *)
LEMMA FinalRecords ==
  ASSUME StackIndInv, [Next]_vars, NEW t, Settled(t)
  PROVE  body'[t] = body[t]
<1>1. CASE \E p \in Procs : (Begin(p) \/ Work(p)) /\ UNCHANGED <<use, faults>>
  BY <1>1, WorkOK, SettledStays DEF StepOK, Guarantee
<1>2. CASE Fault
  <2>1. UNCHANGED disk BY <1>2, Zenon DEF Fault, Fail, Crash
  <2> QED BY <2>1 DEF disk
<1>3. CASE UNCHANGED vars BY <1>3 DEF vars, disk
<1> QED BY <1>1, <1>2, <1>3 DEF Next

(* A call that is over reads nothing. *)
LEMMA IdleSilent ==
  ASSUME NEW p \in Procs, me'[p] = Idle
  PROVE  me'[p].pc \notin ReadLabels /\ me'[p].ans = NoPlan /\ me'[p].pc = "idle"
BY DEF Idle, ReadLabels

(* A memo that is kept or dropped is not new. *)
LEMMA MemoSteps ==
  ASSUME DOMAIN cache = Sessions, UNCHANGED cache \/ \E p : Forget(p)
  PROVE  MemoStep
BY DEF MemoStep, Forget

(* The steps of updates, compactions and sweeps read nothing for a caller. *)
LEMMA WorkSilent ==
  ASSUME StackIndInv, ReadInv, NEW p \in Procs, Begin(p) \/ Work(p),
         ~(BeginRead(p) \/ StatList(p) \/ ReadList(p) \/ OpenTable(p) \/ FillCache(p))
  PROVE  Silent(p)
<1>1. DOMAIN me = Procs /\ DOMAIN me[p] = MeFields /\ DOMAIN cache = Sessions /\ list \in TableSeq
  BY MeShape DEF ReadInv
<1>2. ASSUME NEW l, Goto(p, l), l \notin ReadLabels
      PROVE  /\ \A q \in Procs \ {p} : me'[q] = me[q]
             /\ me'[p].pc \notin ReadLabels /\ me'[p].ans \in {me[p].ans, NoPlan}
  BY <1>1, <1>2 DEF Goto, MeFields
<1>3. ASSUME Return(p)
      PROVE  /\ \A q \in Procs \ {p} : me'[q] = me[q]
             /\ me'[p].pc \notin ReadLabels /\ me'[p].ans \in {me[p].ans, NoPlan}
  BY <1>1, <1>3, IdleSilent DEF Return
<1>4. ASSUME UNCHANGED <<list, stamp>> PROVE ListStep BY <1>4 DEF ListStep
<1>5. ASSUME UNCHANGED disk PROVE ListStep BY <1>4, <1>5 DEF disk
<1>6. MemoStep
  <2>1. UNCHANGED cache \/ \E q : Forget(q)
    <3>1. CASE Begin(p) BY <3>1 DEF Begin, BeginUpdate, BeginPack, BeginRead
    <3>2. CASE TryAcquireLock(p) \/ Timeout(p) \/ Unlock(p) \/ PrepareStackWrite(p) \/ WriteTempTable(p)
               \/ RenameTable(p) \/ WriteLockBody(p) \/ CommitListBody(p) \/ Invalidate(p)
      BY <3>2, Zenon DEF TryAcquireLock, Timeout, Unlock, PrepareStackWrite, WriteTempTable, RenameTable,
                  WriteLockBody, CommitListBody, Invalidate
    <3>3. CASE ReadFreshTableNames(p) \/ ProbeNames(p) \/ ProbeSize(p) \/ PlanCompaction(p) \/ CheckNames(p)
               \/ LockTable(p) \/ GiveUp(p) \/ UnlockPlan(p) \/ MergeSegment(p)
      BY <3>3, Zenon DEF ReadFreshTableNames, ProbeNames, ProbeSize, PlanCompaction, CheckNames, LockTable,
                  GiveUp, UnlockPlan, MergeSegment
    <3>4. CASE SpliceLockedSegment(p) \/ UnlinkTable(p) \/ ReleaseTable(p) \/ ReadDirectory(p)
               \/ SweepOrphan(p) \/ Answer(p)
      BY <3>4, Zenon DEF SpliceLockedSegment, UnlinkTable, ReleaseTable, ReadDirectory, SweepOrphan, Answer
    <3> QED BY <3>1, <3>2, <3>3, <3>4 DEF Work
  <2> QED BY <1>1, <2>1, MemoSteps
<1>7. ListStep
  <2>1. CASE Begin(p) BY <2>1, <1>5 DEF Begin, BeginUpdate, BeginPack, BeginRead
  <2>2. CASE TryAcquireLock(p) \/ Timeout(p) \/ Unlock(p) \/ PrepareStackWrite(p) \/ WriteTempTable(p)
             \/ RenameTable(p) \/ WriteLockBody(p) \/ Invalidate(p)
    BY <2>2, <1>4, <1>5, Zenon DEF TryAcquireLock, Timeout, Unlock, PrepareStackWrite, WriteTempTable,
                            RenameTable, WriteLockBody, Invalidate
  <2>3. CASE ReadFreshTableNames(p) \/ ProbeNames(p) \/ ProbeSize(p) \/ PlanCompaction(p) \/ CheckNames(p)
             \/ LockTable(p) \/ GiveUp(p) \/ UnlockPlan(p) \/ MergeSegment(p)
    BY <2>3, <1>4, <1>5, Zenon DEF ReadFreshTableNames, ProbeNames, ProbeSize, PlanCompaction, CheckNames,
                            LockTable, GiveUp, UnlockPlan, MergeSegment
  <2>4. CASE SpliceLockedSegment(p) \/ UnlinkTable(p) \/ ReleaseTable(p) \/ ReadDirectory(p)
             \/ SweepOrphan(p) \/ Answer(p)
    BY <2>4, <1>4, <1>5, Zenon DEF SpliceLockedSegment, UnlinkTable, ReleaseTable, ReadDirectory, SweepOrphan, Answer
  <2>5. CASE CommitListBody(p) BY <2>5, <1>4 DEF CommitListBody, ListStep
  <2> QED BY <2>1, <2>2, <2>3, <2>4, <2>5 DEF Work
<1>8. /\ \A q \in Procs \ {p} : me'[q] = me[q]
      /\ me'[p].pc \notin ReadLabels /\ me'[p].ans \in {me[p].ans, NoPlan}
  <2>1. CASE BeginUpdate(p)
    <3>1. PICK P \in Plans :
            me' = [me EXCEPT ![p] = [Idle EXCEPT !.pc = "lockWrite", !.op = "update",
                                                 !.plan = P, !.id = issued + 1]]
      BY <2>1 DEF BeginUpdate
    <3> QED BY <3>1, <1>1 DEF Idle, ReadLabels
  <2>2. CASE BeginPack(p) BY <2>2, <1>1 DEF BeginPack, Idle, ReadLabels
  <2>3. CASE TryAcquireLock(p)
    <3>1. me[p].pc \in Waiting /\ Goto(p, Then[me[p].pc]) BY <2>3 DEF TryAcquireLock
    <3>2. Then[me[p].pc] \notin ReadLabels BY <3>1, LabelSets DEF ReadLabels
    <3> QED BY <3>1, <3>2, <1>2
  <2>4. CASE Timeout(p) BY <2>4, <1>1, <1>3 DEF Timeout, MeFields, ReadLabels
  <2>5. CASE Unlock(p) BY <2>5, <1>2, <1>3 DEF Unlock, ReadLabels
  <2>6. CASE PrepareStackWrite(p) BY <2>6, <1>1 DEF PrepareStackWrite, MeFields, ReadLabels
  <2>7. CASE WriteTempTable(p) BY <2>7, <1>1 DEF WriteTempTable, MeFields, ReadLabels
  <2>8. CASE RenameTable(p) BY <2>8, <1>1, <1>2 DEF RenameTable, MeFields, ReadLabels
  <2>9. CASE WriteLockBody(p) BY <2>9, <1>2 DEF WriteLockBody, ReadLabels
  <2>10. CASE CommitListBody(p)
    <3>1. \/ me' = [me EXCEPT ![p].pc = "unlock", ![p].threw = TRUE]
          \/ \E l \in {"unlink", "invalidate"} :
               me' = [me EXCEPT ![p].pc = l, ![p].plan = NoPlan, ![p].next = <<>>, ![p].left = me[p].seg]
      BY <2>10 DEF CommitListBody
    <3> QED BY <3>1, <1>1 DEF MeFields, ReadLabels
  <2>11. CASE Invalidate(p) BY <2>11, <1>2 DEF Invalidate, ReadLabels
  <2>12. CASE ReadFreshTableNames(p) BY <2>12, <1>1 DEF ReadFreshTableNames, MeFields, ReadLabels
  <2>13. CASE ProbeNames(p) BY <2>13, <1>1 DEF ProbeNames, MeFields, ReadLabels
  <2>14. CASE ProbeSize(p) BY <2>14, <1>1, <1>3 DEF ProbeSize, At, MeFields, ReadLabels
  <2>15. CASE PlanCompaction(p)
    <3>1. CASE ~Return(p)
      <4>1. PICK i, j \in DOMAIN me[p].names :
              me' = [me EXCEPT ![p].left = SubSeq(me[p].names, i, j), ![p].pc = "lockPlan"]
        BY <2>15, <3>1 DEF PlanCompaction
      <4> QED BY <4>1, <1>1 DEF MeFields, ReadLabels
    <3> QED BY <3>1, <1>3
  <2>16. CASE CheckNames(p) BY <2>16, <1>2 DEF CheckNames, ReadLabels
  <2>17. CASE LockTable(p)
    <3>1. \E seg, rest : \E l \in {"tables", "giveUp", "unplan"} :
            me' = [me EXCEPT ![p].seg = seg, ![p].left = rest, ![p].pc = l]
      BY <2>17 DEF LockTable
    <3> QED BY <3>1, <1>1 DEF MeFields, ReadLabels
  <2>18. CASE GiveUp(p) BY <2>18, <1>1, <1>2 DEF GiveUp, At, MeFields, ReadLabels
  <2>19. CASE UnlockPlan(p) BY <2>19, <1>2, <1>3 DEF UnlockPlan, NoCompaction, ReadLabels
  <2>20. CASE MergeSegment(p) BY <2>20, <1>2, <1>3 DEF MergeSegment, ReadLabels
  <2>21. CASE SpliceLockedSegment(p)
    <3>1. \/ Goto(p, "unlock")
          \/ \E n : \E l \in {"lockBody", "rename"} : me' = [me EXCEPT ![p].next = n, ![p].pc = l]
      BY <2>21 DEF SpliceLockedSegment
    <3> QED BY <3>1, <1>1, <1>2 DEF MeFields, ReadLabels
  <2>22. CASE UnlinkTable(p) BY <2>22, <1>1, <1>2 DEF UnlinkTable, At, MeFields, ReadLabels
  <2>23. CASE ReleaseTable(p) BY <2>23, <1>1, <1>2, <1>3 DEF ReleaseTable, NoCompaction, At, MeFields, ReadLabels
  <2>24. CASE ReadDirectory(p) BY <2>24, <1>1 DEF ReadDirectory, MeFields, ReadLabels
  <2>25. CASE SweepOrphan(p)
    <3>1. Goto(p, "unlock") \/ (me[p].pc = "sweep" /\ \E v : me' = [me EXCEPT ![p].victims = @ \ {v}])
      BY <2>25 DEF SweepOrphan, At
    <3> QED BY <3>1, <1>1, <1>2 DEF MeFields, ReadLabels
  <2>26. CASE Answer(p) BY <2>26, <1>3 DEF Answer
  <2> QED BY <2>1, <2>2, <2>3, <2>4, <2>5, <2>6, <2>7, <2>8, <2>9, <2>10, <2>11, <2>12, <2>13, <2>14, <2>15,
       <2>16, <2>17, <2>18, <2>19, <2>20, <2>21, <2>22, <2>23, <2>24, <2>25, <2>26, Zenon
    DEF Begin, Work
<1> QED BY <1>6, <1>7, <1>8 DEF Silent

(* What a reader has seen after a step. *)
LEMMA SeenAfter ==
  ASSUME Observe, NEW q \in Procs
  PROVE  /\ DOMAIN seen' = Procs
         /\ me'[q].op # "read" => seen'[q] = {}
         /\ me'[q].op = "read" => ViewIn(body', list') \in seen'[q]
         /\ me'[q].op = "read" /\ me[q].op = "read" => seen[q] \subseteq seen'[q]
         /\ seen'[q] \subseteq seen[q] \cup {ViewIn(body', list')}
BY ViewAfter DEF Observe

(* Only maps are seen. *)
LEMMA SeenMaps ==
  ASSUME ReadInv, StackIndInv', Observe, NEW q \in Procs
  PROVE  seen'[q] \subseteq Map
<1>1. ViewIn(body', list') \in Map BY ViewInType DEF StackIndInv, DiskTypes
<1> QED BY <1>1, SeenAfter DEF ReadInv

(* A reader that does not move is not misled by what the others do. *)
LEMMA ReaderStays ==
  ASSUME StackIndInv, StackIndInv', ReadInv, Next, ListStep,
         NEW q \in Procs, me'[q] = me[q]
  PROVE  ReaderOK(q)'
<1>1. Observe BY DEF Next
<1>2. me[q].names \in TableSeq /\ stamp \in Nat /\ \A t \in Els(me[q].names) : Settled(t)
  BY DEF StackIndInv, DiskTypes, MeTypes, ProcOK, SegOK
<1>3. ViewIn(body', me[q].names) = ViewIn(body, me[q].names) BY <1>2, FinalRecords, ViewStays
<1>4. ReaderOK(q) BY DEF ReadInv
<1>5. me[q].op = "read" => ViewIn(body', list') \in seen'[q] /\ seen[q] \subseteq seen'[q] BY <1>1, SeenAfter
<1>6. me[q].pc \in ReadLabels => me'[q].op = "read" /\ ViewIn(body', list') \in seen'[q]
  BY <1>4, <1>5 DEF ReaderOK
<1>7. me[q].pc = "open" => ViewIn(body', me[q].names) \in seen'[q]
  BY <1>3, <1>4, <1>5 DEF ReaderOK, ReadLabels
<1>8. me[q].pc = "answer" => me[q].ans \in seen'[q] BY <1>4, <1>5 DEF ReaderOK, ReadLabels
<1>9. me[q].pc \in {"load", "open"} => me[q].key[1] \in Int /\ me[q].key[1] <= stamp'
  BY <1>2, <1>4 DEF ReaderOK, ListStep
<1>10. me[q].pc = "open" /\ me[q].key[1] = stamp' => me[q].names = list' BY <1>2, <1>4 DEF ReaderOK, ListStep
<1> QED BY <1>6, <1>7, <1>8, <1>9, <1>10 DEF ReaderOK

(* The key of a memo and the key of the list. *)
LEMMA MemoKeys ==
  ASSUME NEW k, k = NoCache
  PROVE  k.key[1] = -1 /\ k.map = NoPlan
BY DEF NoCache

(* A memo kept, or dropped, stays true of the list. *)
LEMMA MemoStays ==
  ASSUME StackIndInv, ReadInv, [Next]_vars, ListStep, NEW s \in Sessions, cache'[s] \in {cache[s], NoCache}
  PROVE  MemoOK(s)'
<1>1. stamp \in Nat /\ stamp' \in Nat /\ stamp <= stamp' BY DEF StackIndInv, DiskTypes, ListStep
<1>2. Key[1] = stamp /\ Key'[1] = stamp' BY DEF Key
<1>3. CASE cache'[s] = NoCache
  <2>1. cache'[s].key[1] = -1 /\ cache'[s].map = NoPlan BY <1>3, MemoKeys
  <2> QED BY <2>1, <1>1, <1>2 DEF MemoOK
<1>4. CASE cache'[s] = cache[s]
  <2>1. MemoOK(s) BY DEF ReadInv
  <2>2. cache[s].key[1] \in Int /\ cache[s].key[1] <= stamp' /\ cache[s].map \in Map \cup {NoPlan}
    BY <2>1, <1>1 DEF MemoOK
  <2>3. ASSUME cache[s].key = Key' PROVE cache[s].map = ViewIn(body', list')
    <3>1. cache[s].key[1] = stamp' BY <2>3, <1>2
    <3>2. list' = list /\ stamp' = stamp BY <3>1, <2>1, <1>1 DEF ListStep, MemoOK
    <3>3. Key' = Key BY <3>2 DEF Key
    <3>4. list \in TableSeq /\ \A t \in Els(list) : Settled(t) BY DEF StackIndInv, DiskTypes, ListOK
    <3>5. ViewIn(body', list) = ViewIn(body, list) BY <3>4, FinalRecords, ViewStays
    <3> QED BY <3>2, <3>3, <3>5, <2>1, <2>3 DEF MemoOK
  <2> QED BY <1>4, <2>2, <2>3 DEF MemoOK
<1> QED BY <1>3, <1>4

(* One reader's step: it leaves the disk alone. *)
LEMMA ReaderStep ==
  ASSUME StackIndInv, StackIndInv', ReadInv, Next, NEW p \in Procs,
         BeginRead(p) \/ StatList(p) \/ ReadList(p) \/ OpenTable(p) \/ FillCache(p)
  PROVE  /\ list' = list /\ stamp' = stamp /\ body' = body
         /\ \A q \in Procs \ {p} : me'[q] = me[q]
         /\ ReaderOK(p)' /\ me'[p].ans \in Map \cup {NoPlan}
         /\ DOMAIN cache' = Sessions /\ \A s \in Sessions : MemoOK(s)'
<1>0. Observe BY DEF Next
<1>1. DOMAIN me = Procs /\ DOMAIN me[p] = MeFields /\ DOMAIN cache = Sessions /\ stamp \in Nat
      /\ use.session[p] \in Sessions
  <2>1. use \in Use /\ stamp \in Nat BY DEF StackIndInv, DiskTypes
  <2>2. use.session \in [Procs -> Sessions] BY <2>1 DEF Use
  <2> QED BY <2>1, <2>2, MeShape DEF ReadInv
<1>2. list' = list /\ stamp' = stamp /\ body' = body
  BY DEF BeginRead, StatList, ReadList, OpenTable, FillCache, disk
<1>3. ListStep BY <1>2 DEF ListStep
<1>4. /\ me'[p].op # "read" => seen'[p] = {}
      /\ me'[p].op = "read" => ViewIn(body, list) \in seen'[p]
      /\ me'[p].op = "read" /\ me[p].op = "read" => seen[p] \subseteq seen'[p]
  BY <1>0, <1>2, SeenAfter
<1>5. ReaderOK(p) /\ me[p].ans \in Map \cup {NoPlan} BY DEF ReadInv
<1>6. ASSUME cache' = cache PROVE DOMAIN cache' = Sessions /\ \A s \in Sessions : MemoOK(s)'
  BY <1>6, <1>1, <1>3, MemoStays
<1>7. ASSUME /\ \A q \in Procs \ {p} : me'[q] = me[q]
             /\ ReaderOK(p)' /\ me'[p].ans \in Map \cup {NoPlan}
             /\ DOMAIN cache' = Sessions /\ \A s \in Sessions : MemoOK(s)'
      PROVE  /\ list' = list /\ stamp' = stamp /\ body' = body
             /\ \A q \in Procs \ {p} : me'[q] = me[q]
             /\ ReaderOK(p)' /\ me'[p].ans \in Map \cup {NoPlan}
             /\ DOMAIN cache' = Sessions /\ \A s \in Sessions : MemoOK(s)'
  BY <1>2, <1>7
<1>8. CASE BeginRead(p)
  <2>1. /\ \A q \in Procs \ {p} : me'[q] = me[q]
        /\ me'[p].pc = "stat" /\ me'[p].op = "read" /\ me'[p].ans = NoPlan /\ cache' = cache
    BY <1>8, <1>1 DEF BeginRead, Idle
  <2>2. ReaderOK(p)' BY <2>1, <1>2, <1>4 DEF ReaderOK
  <2> QED BY <2>1, <2>2, <1>6, <1>7
<1>9. CASE StatList(p)
  <2> DEFINE c == cache[use.session[p]]
  <2>1. me[p].pc = "stat" /\ cache' = cache BY <1>9 DEF StatList, At
  <2>2. MemoOK(use.session[p]) BY <1>1 DEF ReadInv
  <2>3. me[p].op = "read" BY <2>1, <1>5 DEF ReaderOK, ReadLabels
  <2>4. CASE c.key = Key
    <3>1. me' = [me EXCEPT ![p].pc = "answer", ![p].ans = c.map] BY <1>9, <2>4 DEF StatList
    <3>2. c.map = ViewIn(body, list) /\ c.map \in Map \cup {NoPlan} BY <2>2, <2>4 DEF MemoOK
    <3> HIDE DEF c
    <3>3. /\ \A q \in Procs \ {p} : me'[q] = me[q]
          /\ me'[p].pc = "answer" /\ me'[p].op = "read" /\ me'[p].ans = c.map
      BY <3>1, <1>1, <2>3 DEF MeFields
    <3>4. ReaderOK(p)' BY <3>2, <3>3, <1>2, <1>4 DEF ReaderOK
    <3> QED BY <3>2, <3>3, <3>4, <2>1, <1>6, <1>7
  <2>5. CASE c.key # Key
    <3>1. me' = [me EXCEPT ![p].pc = "load", ![p].key = Key] BY <1>9, <2>5 DEF StatList
    <3>2. Key[1] = stamp BY DEF Key
    <3>3. /\ \A q \in Procs \ {p} : me'[q] = me[q]
          /\ me'[p].pc = "load" /\ me'[p].op = "read" /\ me'[p].ans = me[p].ans /\ me'[p].key = Key
      BY <3>1, <1>1, <2>3 DEF MeFields
    <3>4. ReaderOK(p)' BY <3>2, <3>3, <1>1, <1>2, <1>4 DEF ReaderOK
    <3> QED BY <3>3, <3>4, <2>1, <1>5, <1>6, <1>7
  <2> QED BY <2>4, <2>5
<1>10. CASE ReadList(p)
  <2>1. /\ me[p].pc = "load" /\ cache' = cache
        /\ me' = [me EXCEPT ![p].pc = "open", ![p].names = list, ![p].left = list]
    BY <1>10 DEF ReadList, At
  <2>2. me[p].op = "read" /\ me[p].key[1] \in Int /\ me[p].key[1] <= stamp
    BY <2>1, <1>5 DEF ReaderOK, ReadLabels
  <2>3. /\ \A q \in Procs \ {p} : me'[q] = me[q]
        /\ me'[p].pc = "open" /\ me'[p].op = "read" /\ me'[p].ans = me[p].ans
        /\ me'[p].names = list /\ me'[p].key = me[p].key
    BY <2>1, <2>2, <1>1 DEF MeFields
  <2>4. ReaderOK(p)' BY <2>2, <2>3, <1>2, <1>4 DEF ReaderOK
  <2> QED BY <2>1, <2>3, <2>4, <1>5, <1>6, <1>7
<1>11. CASE OpenTable(p)
  <2>1. /\ me[p].pc = "open" /\ cache' = cache
        /\ \/ \E ts : me' = [me EXCEPT ![p].left = ts]
           \/ me' = [me EXCEPT ![p].pc = "load", ![p].tries = 2]
           \/ Return(p)
    BY <1>11 DEF OpenTable, At
  <2>2. /\ me[p].op = "read" /\ me[p].key[1] \in Int /\ me[p].key[1] <= stamp
        /\ ViewIn(body, me[p].names) \in seen[p] /\ (me[p].key[1] = stamp => me[p].names = list)
    BY <2>1, <1>5 DEF ReaderOK, ReadLabels
  <2>3. CASE Return(p)
    <3>1. me'[p] = Idle /\ \A q \in Procs \ {p} : me'[q] = me[q] BY <2>3, <1>1 DEF Return
    <3>2. me'[p].pc \notin ReadLabels /\ me'[p].ans = NoPlan BY <3>1, IdleSilent
    <3>3. ReaderOK(p)' BY <3>2 DEF ReaderOK, ReadLabels
    <3> QED BY <3>1, <3>2, <3>3, <2>1, <1>6, <1>7
  <2>4. CASE ~Return(p)
    <3>1. /\ \A q \in Procs \ {p} : me'[q] = me[q]
          /\ me'[p].pc \in {"load", "open"} /\ me'[p].op = "read" /\ me'[p].ans = me[p].ans
          /\ me'[p].names = me[p].names /\ me'[p].key = me[p].key
      BY <2>1, <2>2, <2>4, <1>1 DEF MeFields
    <3>2. ReaderOK(p)' BY <3>1, <2>2, <1>2, <1>4 DEF ReaderOK
    <3> QED BY <3>1, <3>2, <2>1, <1>5, <1>6, <1>7
  <2> QED BY <2>3, <2>4
<1>12. CASE FillCache(p)
  <2> DEFINE m == ViewIn(body, me[p].names)
             k == [key |-> me[p].key, map |-> m]
  <2>0. View(me[p].names) = m BY ViewIs
  <2>1. /\ me[p].pc = "open" /\ cache' = [cache EXCEPT ![use.session[p]] = k]
        /\ me' = [me EXCEPT ![p].pc = "answer", ![p].ans = m]
    BY <1>12, <2>0 DEF FillCache, At
  <2>2. /\ me[p].op = "read" /\ me[p].key[1] \in Int /\ me[p].key[1] <= stamp
        /\ m \in seen[p] /\ (me[p].key[1] = stamp => me[p].names = list)
    BY <2>1, <1>5 DEF ReaderOK, ReadLabels
  <2>3. m \in Map BY ViewInType DEF StackIndInv, DiskTypes, MeTypes
  <2>4. k.key = me[p].key /\ k.map = m OBVIOUS
  <2>5. me[p].key[1] = stamp => m = ViewIn(body, list) BY <2>2
  <2> HIDE DEF m, k
  <2>6. /\ \A q \in Procs \ {p} : me'[q] = me[q]
        /\ me'[p].pc = "answer" /\ me'[p].op = "read" /\ me'[p].ans = m
    BY <2>1, <2>2, <1>1 DEF MeFields
  <2>7. ReaderOK(p)' BY <2>6, <2>2, <1>2, <1>4 DEF ReaderOK
  <2>8. DOMAIN cache' = Sessions /\ cache'[use.session[p]] = k
        /\ \A s \in Sessions : s # use.session[p] => cache'[s] = cache[s]
    BY <2>1, <1>1
  <2>9. ASSUME NEW s \in Sessions PROVE MemoOK(s)'
    <3>1. CASE s # use.session[p] BY <3>1, <2>8, <1>3, MemoStays
    <3>2. CASE s = use.session[p]
      <4>1. Key'[1] = stamp BY <1>2 DEF Key
      <4>2. cache'[s] = k BY <3>2, <2>8
      <4>3. cache'[s].key = Key' => cache'[s].map = ViewIn(body, list) BY <4>1, <4>2, <2>4, <2>5
      <4> QED BY <4>2, <4>3, <2>2, <2>3, <2>4, <1>2 DEF MemoOK
    <3> QED BY <3>1, <3>2
  <2> QED BY <2>3, <2>6, <2>7, <2>8, <2>9, <1>7
<1> QED BY <1>8, <1>9, <1>10, <1>11, <1>12


(* Nobody reads at first, and the memos are empty. *)
LEMMA ReadInit == Init => ReadInv
<1> SUFFICES ASSUME Init PROVE ReadInv OBVIOUS
<1>1. /\ me = [p \in Procs |-> Idle] /\ seen = [p \in Procs |-> {}]
      /\ cache = [s \in Sessions |-> NoCache] /\ stamp = 0
  BY DEF Init
<1>2. Idle.pc = "idle" /\ Idle.ans = NoPlan BY DEF Idle
<1>3. NoCache.key[1] = -1 /\ NoCache.map = NoPlan BY MemoKeys
<1>4. ASSUME NEW p \in Procs PROVE ReaderOK(p) /\ seen[p] \subseteq Map /\ me[p].ans \in Map \cup {NoPlan}
  <2>1. me[p].pc = "idle" /\ me[p].ans = NoPlan /\ seen[p] = {} BY <1>1, <1>2
  <2> QED BY <2>1 DEF ReaderOK, ReadLabels
<1>5. ASSUME NEW s \in Sessions PROVE MemoOK(s)
  <2>1. Key[1] = 0 BY <1>1 DEF Key
  <2>2. cache[s].key[1] = -1 /\ cache[s].map = NoPlan BY <1>1, <1>3
  <2> QED BY <2>1, <2>2, <1>1 DEF MemoOK
<1> QED BY <1>1, <1>4, <1>5 DEF ReadInv

(* After a fault nobody reads on, and no memo is new. *)
LEMMA FaultReads ==
  ASSUME StackIndInv, ReadInv, Fault
  PROVE  /\ ListStep /\ MemoStep
         /\ \A q \in Procs : \/ me'[q] = me[q]
                             \/ me'[q].pc \notin ReadLabels /\ me'[q].ans \in {me[q].ans, NoPlan}
<1>1. DOMAIN me = Procs /\ DOMAIN cache = Sessions BY DEF ReadInv, StackIndInv, DiskTypes
<1>2. CASE \E p \in Procs : Fail(p)
  <2>1. PICK p \in Procs : Fail(p) BY <1>2
  <2>2. ListStep /\ cache' = cache BY <2>1 DEF Fail, disk, ListStep
  <2>3. MemoStep BY <2>2, <1>1, MemoSteps
  <2>4. DOMAIN me[p] = MeFields BY MeShape
  <2>5. \/ me' = [me EXCEPT ![p].pc = "unlock", ![p].threw = TRUE]
        \/ me' = [me EXCEPT ![p].pc = "unlock", ![p].threw = TRUE, ![p].seg = <<>>]
        \/ me' = [me EXCEPT ![p].pc = "free", ![p].threw = TRUE]
        \/ Return(p)
    BY <2>1 DEF Fail, Return
  <2>6. CASE Return(p) BY <2>6, <1>1, <2>2, <2>3, IdleSilent DEF Return
  <2>7. CASE ~Return(p) BY <2>5, <2>7, <1>1, <2>2, <2>3, <2>4 DEF MeFields, ReadLabels
  <2> QED BY <2>6, <2>7
<1>3. CASE \E s \in Sessions : Crash(s)
  <2>1. PICK s \in Sessions : Crash(s) BY <1>3
  <2>2. ListStep /\ MemoStep BY <2>1, <1>1 DEF Crash, disk, ListStep, MemoStep
  <2>3. \A q \in Procs : me'[q] = me[q] \/ me'[q] = Idle BY <2>1 DEF Crash
  <2> QED BY <2>2, <2>3, IdleSilent
<1> QED BY <1>2, <1>3 DEF Fault

(* No step misleads a reader or makes a memo wrong. *)
LEMMA ReadStep == StackIndInv /\ StackIndInv' /\ ReadInv /\ [Next]_vars => ReadInv'
<1> SUFFICES ASSUME StackIndInv, StackIndInv', ReadInv, [Next]_vars PROVE ReadInv' OBVIOUS
<1>1. CASE Next
  <2>0. Observe BY <1>1 DEF Next
  <2>1. \A q \in Procs : seen'[q] \subseteq Map BY <2>0, SeenMaps
  <2>2. DOMAIN seen' = Procs BY <2>0 DEF Observe
  <2>3. \A q \in Procs : me[q].ans \in Map \cup {NoPlan} BY DEF ReadInv
  <2>4. ASSUME NEW q \in Procs, me'[q].pc \notin ReadLabels PROVE ReaderOK(q)'
    BY <2>4 DEF ReaderOK, ReadLabels
  <2>5. CASE \E p \in Procs : Begin(p) \/ Work(p)
    <3>1. PICK p \in Procs : Begin(p) \/ Work(p) BY <2>5
    <3>2. CASE BeginRead(p) \/ StatList(p) \/ ReadList(p) \/ OpenTable(p) \/ FillCache(p)
      <4>1. /\ list' = list /\ stamp' = stamp /\ body' = body
            /\ \A q \in Procs \ {p} : me'[q] = me[q]
            /\ ReaderOK(p)' /\ me'[p].ans \in Map \cup {NoPlan}
            /\ DOMAIN cache' = Sessions /\ \A s \in Sessions : MemoOK(s)'
        BY <1>1, <3>2, ReaderStep
      <4>2. ListStep BY <4>1 DEF ListStep
      <4>3. \A q \in Procs \ {p} : ReaderOK(q)' BY <1>1, <4>1, <4>2, ReaderStays
      <4> QED BY <4>1, <4>3, <2>1, <2>2, <2>3 DEF ReadInv
    <3>3. CASE ~(BeginRead(p) \/ StatList(p) \/ ReadList(p) \/ OpenTable(p) \/ FillCache(p))
      <4>1. Silent(p) BY <3>1, <3>3, WorkSilent
      <4>2. ListStep /\ MemoStep BY <4>1 DEF Silent
      <4>3. \A q \in Procs \ {p} : ReaderOK(q)' /\ me'[q] = me[q] BY <1>1, <4>1, <4>2, ReaderStays DEF Silent
      <4>4. ReaderOK(p)' /\ me'[p].ans \in Map \cup {NoPlan} BY <4>1, <2>3, <2>4 DEF Silent
      <4>5. DOMAIN cache' = Sessions /\ \A s \in Sessions : MemoOK(s)' BY <4>2, MemoStays DEF MemoStep
      <4> QED BY <4>3, <4>4, <4>5, <2>1, <2>2, <2>3 DEF ReadInv
    <3> QED BY <3>2, <3>3
  <2>6. CASE Fault
    <3>1. /\ ListStep /\ MemoStep
          /\ \A q \in Procs : \/ me'[q] = me[q]
                              \/ me'[q].pc \notin ReadLabels /\ me'[q].ans \in {me[q].ans, NoPlan}
      BY <2>6, FaultReads
    <3>2. ASSUME NEW q \in Procs PROVE ReaderOK(q)' /\ me'[q].ans \in Map \cup {NoPlan}
      <4>1. CASE me'[q] = me[q] BY <4>1, <3>1, <1>1, <2>3, ReaderStays
      <4>2. CASE me'[q].pc \notin ReadLabels /\ me'[q].ans \in {me[q].ans, NoPlan} BY <4>2, <2>3, <2>4
      <4> QED BY <4>1, <4>2, <3>1
    <3>3. DOMAIN cache' = Sessions /\ \A s \in Sessions : MemoOK(s)' BY <3>1, MemoStays DEF MemoStep
    <3> QED BY <3>2, <3>3, <2>1, <2>2 DEF ReadInv
  <2> QED BY <1>1, <2>5, <2>6 DEF Next
<1>2. CASE UNCHANGED vars
  <2>1. /\ cache' = cache /\ seen' = seen /\ me' = me /\ list' = list /\ stamp' = stamp /\ body' = body
    BY <1>2 DEF vars, disk
  <2>2. \A p \in Procs : ReaderOK(p)' BY <2>1 DEF ReadInv, ReaderOK
  <2>3. \A s \in Sessions : MemoOK(s)' BY <2>1 DEF ReadInv, MemoOK, Key
  <2> QED BY <2>1, <2>2, <2>3 DEF ReadInv
<1> QED BY <1>1, <1>2

(* The stack is read consistently: no memo holds anything but the map of the *)
(* list it is keyed by, and no load mixes two lists. *)
LEMMA ReadsSound == Spec => [](StackIndInv /\ ReadInv)
<1>1. Init => StackIndInv /\ ReadInv BY StackInit, ReadInit
<1>2. StackIndInv /\ ReadInv /\ [Next]_vars => (StackIndInv /\ ReadInv)' BY StackStep, ReadStep
<1> QED BY <1>1, <1>2, PTL DEF Spec

(* What a process is about to commit is kept until it commits. *)
LEMMA FlightKept == StackIndInv => InFlightKept
<1> SUFFICES ASSUME StackIndInv, NEW p \in Procs
             PROVE  /\ At(p, "rename") => OwnTable(p) \in temps
                    /\ me[p].pc \in {"lockSplice", "splice"} /\ body[OwnTable(p)].recs # NoRecords
                         => OwnTable(p) \in temps
                    /\ me[p].pc \in {"lockBody", "commit"} /\ body[OwnTable(p)].recs # NoRecords
                         => OwnTable(p) \in files
  BY DEF InFlightKept
<1> QED BY DEF StackIndInv, ProcOK, FlightOK

(* The tables of a sequence, by position. *)
LEMMA ByPosition ==
  ASSUME NEW ts \in TableSeq
  PROVE  DOMAIN ts = 1 .. Len(ts) /\ \A i \in DOMAIN ts : ts[i] \in Tables /\ ts[i] \in Els(ts)
BY DEF TableSeq, Els

(* For any number of callers, and whatever faults there are: tables.list names *)
(* only tables on disk, in the order of their update indices, one process at a *)
(* time changes it, and no sweep takes a table that is on its way to it. *)
THEOREM StackSafe == Spec => []StackInv
<1>1. ASSUME StackIndInv, ReadInv PROVE StackInv
  <2>1. TypeOK
    <3>1. /\ stamp \in Nat /\ issued \in 0..MaxTables /\ faults \in 0..use.faults
          /\ tlocks \subseteq Tables /\ files \subseteq Tables /\ temps \subseteq Tables
          /\ body \in [Tables -> [recs : Records, index : Nat]] /\ list \in TableSeq
      BY <1>1 DEF StackIndInv, DiskTypes
    <3>2. {list[i] : i \in DOMAIN list} \subseteq Tables BY <3>1, ByPosition
    <3>3. ASSUME NEW p \in Procs
          PROVE  /\ me[p].pc \in Labels
                 /\ me[p].plan \in Plans \cup {NoPlan}
                 /\ \A ts \in {me[p].names, me[p].next, me[p].seg, me[p].left} :
                      \A i \in DOMAIN ts : ts[i] \in Tables
                 /\ me[p].ans \in Map \cup {NoPlan}
                 /\ seen[p] \subseteq Map
      <4>1. /\ me[p].pc \in Labels /\ me[p].plan \in Plans \cup {NoPlan}
            /\ {me[p].names, me[p].next, me[p].seg, me[p].left} \subseteq TableSeq
        BY <1>1 DEF StackIndInv, MeTypes
      <4>2. me[p].ans \in Map \cup {NoPlan} /\ seen[p] \subseteq Map BY <1>1 DEF ReadInv
      <4> QED BY <4>1, <4>2, ByPosition
    <3> QED BY <3>1, <3>2, <3>3 DEF TypeOK
  <2>2. ListSound
    <3>1. DOMAIN list = 1 .. Len(list) /\ \A i \in DOMAIN list : list[i] \in Els(list)
      BY <1>1, ByPosition DEF StackIndInv, DiskTypes
    <3> QED BY <1>1, <3>1 DEF StackIndInv, ListOK, ListSound
  <2> QED BY <1>1, <2>1, <2>2, FlightKept DEF StackInv, StackIndInv
<1> QED BY <1>1, ReadsSound, PTL

(* For any number of callers, and until the first fault: once every call has *)
(* ended, no table is locked and neither is tables.list. *)
THEOREM LocksReturned == Spec => []TableLocksGivenBack
<1>1. ASSUME StackIndInv PROVE TableLocksGivenBack
  <2>1. SUFFICES ASSUME faults = 0, \A p \in Procs : At(p, "idle")
                 PROVE  tlocks = {} /\ lockFile = NoFile
    BY DEF TableLocksGivenBack
  <2>2. ASSUME NEW p \in Procs PROVE me[p].pc \notin Holding /\ Els(me[p].seg) = {}
    <3>1. me[p].pc = "idle" BY <2>1 DEF At
    <3>2. me[p].seg = <<>>
      <4>1. Compacting(p) => me[p].pc \in SegLabels BY <1>1 DEF StackIndInv, ProcOK, SegOK
      <4> QED BY <4>1, <3>1 DEF Compacting, SegLabels, Listed
    <3>3. Els(<<>>) = {} BY DEF Els
    <3> QED BY <3>1, <3>2, <3>3, LabelSets
  <2> QED BY <1>1, <2>1, <2>2 DEF StackIndInv, LocksHeld
<1> QED BY <1>1, StackSound, PTL

(* For any number of callers, and whatever faults there are: a read answers *)
(* with a map the list stood for at some moment of that read, from the memo or *)
(* from the tables. *)
THEOREM SnapshotReads == Spec => []ReadsSnapshot
<1>1. ReadInv => ReadsSnapshot BY DEF ReadInv, ReaderOK, ReadsSnapshot, At
<1> QED BY <1>1, ReadsSound, PTL

------------------------------
(* Transactions: what a commit makes of the map. *)

MergedIn(b, ts, z) ==
  [r \in Refs |-> IF z /\ NewestIn(b, ts, r) = None THEN NoRecord ELSE NewestIn(b, ts, r)]

(* What compaction writes, in these terms. *)
LEMMA MergedIs ==
  ASSUME NEW ts, NEW z
  PROVE  Merged(ts, z) = MergedIn(body, ts, z)
<1>1. \A r : Newest(ts, r) = NewestIn(body, ts, r) BY DEF Newest, NewestIn
<1> QED BY <1>1 DEF Merged, MergedIn

(* It depends on nothing but the records of its tables. *)
LEMMA MergedStays ==
  ASSUME NEW b, NEW c, NEW ts \in TableSeq, \A t \in Els(ts) : b[t] = c[t], NEW z
  PROVE  MergedIn(b, ts, z) = MergedIn(c, ts, z)
BY NewestStays DEF MergedIn

Rec(b, t, r) == b[t].recs[r]
(* No table after the k-th has a record for r. *)
QuietAfter(b, ts, r, k) == \A j \in 1 .. Len(ts) : j > k => Rec(b, ts[j], r) = NoRecord

(* The last table with a record for r has the newest one. *)
LEMMA NewestAt ==
  ASSUME NEW b, NEW ts \in TableSeq, NEW r, NEW k \in 1 .. Len(ts), Rec(b, ts[k], r) # NoRecord,
         QuietAfter(b, ts, r, k)
  PROVE  NewestIn(b, ts, r) = Rec(b, ts[k], r)
<1> DEFINE I == {i \in DOMAIN ts : b[ts[i]].recs[r] # NoRecord}
<1>1. Len(ts) \in Nat /\ DOMAIN ts = 1 .. Len(ts) BY DEF TableSeq
<1>2. I \subseteq 1 .. Len(ts) /\ k \in I /\ I # {} BY <1>1 DEF Rec
<1>3. ASSUME NEW i \in I PROVE ~(i > k)
  <2>1. i \in DOMAIN ts /\ b[ts[i]].recs[r] # NoRecord BY Zenon
  <2>2. i \in 1 .. Len(ts) /\ Rec(b, ts[i], r) # NoRecord BY <2>1, <1>1, Zenon DEF Rec
  <2> HIDE DEF I
  <2> QED BY <2>2, Zenon DEF QuietAfter
<1>4. NewestIn(b, ts, r) = Rec(b, ts[Max(I)], r) BY <1>2 DEF NewestIn, Rec
<1> HIDE DEF I
<1>5. PICK m \in I : m = Max(I) /\ k <= m BY <1>1, <1>2, LastPosition
<1>6. m \in Nat /\ ~(m > k) /\ k \in Nat BY <1>1, <1>2, <1>3
<1>7. m = k BY <1>5, <1>6
<1> QED BY <1>4, <1>5, <1>7

(* Without a record there is none. *)
LEMMA NewestNone ==
  ASSUME NEW b, NEW ts \in TableSeq, NEW r, QuietAfter(b, ts, r, 0)
  PROVE  NewestIn(b, ts, r) = NoRecord
<1>1. Len(ts) \in Nat /\ DOMAIN ts = 1 .. Len(ts) BY DEF TableSeq
<1>2. {i \in DOMAIN ts : b[ts[i]].recs[r] # NoRecord} = {} BY <1>1 DEF QuietAfter, Rec
<1> QED BY <1>2 DEF NewestIn

(* There is a last table with a record for r, or none has one. *)
LEMMA NewestCases ==
  ASSUME NEW b, NEW ts \in TableSeq, NEW r
  PROVE  \/ QuietAfter(b, ts, r, 0)
         \/ \E k \in 1 .. Len(ts) : Rec(b, ts[k], r) # NoRecord /\ QuietAfter(b, ts, r, k)
<1> DEFINE I == {i \in 1 .. Len(ts) : Rec(b, ts[i], r) # NoRecord}
<1>1. Len(ts) \in Nat BY DEF TableSeq
<1>2. CASE I = {} BY <1>2 DEF QuietAfter
<1>3. CASE I # {}
  <2>1. I \subseteq 1 .. Len(ts) OBVIOUS
  <2>2. Max(I) \in I /\ \A i \in I : i <= Max(I)
    <3> HIDE DEF I
    <3> QED BY <1>1, <1>3, <2>1, LastPosition
  <2>3. PICK k \in I : \A i \in I : i <= k BY <2>2
  <2>4. \A j \in 1 .. Len(ts) : j > k => j \notin I BY <2>3, <1>1
  <2>5. QuietAfter(b, ts, r, k) BY <2>4 DEF QuietAfter
  <2> QED BY <2>3, <2>5
<1> QED BY <1>2, <1>3

PlaceIn(c, s, i, n, d, own, k) ==
  \/ k < i /\ c[k] = s[k] /\ k \in 1 .. Len(s)
  \/ k = i /\ d = 1 /\ c[k] = own
  \/ k >= i + d /\ c[k] = s[k - d + n] /\ k - d + n \in 1 .. Len(s) /\ k - d + n >= i + n

(* Every table of the new list is an old one, or the merged one. *)
LEMMA SplitPlaces ==
  ASSUME NEW s \in TableSeq, NEW c \in TableSeq, NEW i \in Nat, NEW n \in Nat \ {0}, NEW d \in {0, 1},
         NEW own, 1 <= i, i + n - 1 <= Len(s), SplitAt(c, s, i, n, d, own), NEW k \in 1 .. Len(c)
  PROVE  PlaceIn(c, s, i, n, d, own, k)
<1>1. Len(s) \in Nat /\ Len(c) = Len(s) - n + d /\ Len(c) \in Nat /\ k \in Nat /\ 1 <= k /\ k <= Len(c)
  BY DEF SplitAt, TableSeq
<1>2. CASE k < i
  <2>1. k \in 1 .. i - 1 /\ k \in 1 .. Len(s) BY <1>1, <1>2
  <2> QED BY <2>1, <1>2 DEF SplitAt, PlaceIn
<1>3. CASE k >= i + d
  <2>1. k \in (i + d) .. Len(c) /\ k - d + n \in 1 .. Len(s) /\ k - d + n >= i + n BY <1>1, <1>3
  <2> QED BY <2>1, <1>3 DEF SplitAt, PlaceIn
<1>4. CASE ~(k < i) /\ ~(k >= i + d)
  <2>1. k = i /\ d = 1 BY <1>1, <1>4
  <2> QED BY <2>1 DEF SplitAt, PlaceIn
<1> QED BY <1>2, <1>3, <1>4

(* Where nothing after the k-th table of s has a record, nothing after its *)
(* place in the new list has one, but perhaps the merged table. *)
LEMMA SplitQuiet ==
  ASSUME NEW b, NEW r, NEW s \in TableSeq, NEW c \in TableSeq, NEW i \in Nat, NEW n \in Nat \ {0},
         NEW d \in {0, 1}, NEW own, 1 <= i, i + n - 1 <= Len(s), SplitAt(c, s, i, n, d, own),
         NEW k \in Nat, QuietAfter(b, s, r, k)
  PROVE  /\ k >= i + n => QuietAfter(b, c, r, k + d - n)
         /\ k < i + n => QuietAfter(b, c, r, i)
<1>0. ASSUME NEW j \in 1 .. Len(c)
      PROVE  \/ j < i /\ c[j] = s[j] /\ j \in 1 .. Len(s)
             \/ j = i /\ d = 1 /\ c[j] = own
             \/ j >= i + d /\ c[j] = s[j - d + n] /\ j - d + n \in 1 .. Len(s) /\ j - d + n >= i + n
  <2>1. PlaceIn(c, s, i, n, d, own, j) BY SplitPlaces
  <2> QED BY <2>1 DEF PlaceIn
<1>1. Len(s) \in Nat /\ Len(c) \in Nat BY DEF TableSeq
<1>2. ASSUME k >= i + n, NEW j \in 1 .. Len(c), j > k + d - n PROVE Rec(b, c[j], r) = NoRecord
  <2>1. ~(j < i) /\ ~(j = i /\ d = 1) BY <1>1, <1>2
  <2>2. c[j] = s[j - d + n] /\ j - d + n \in 1 .. Len(s) BY <2>1, <1>0
  <2>3. j - d + n > k BY <1>1, <1>2
  <2> QED BY <2>2, <2>3 DEF QuietAfter
<1>3. ASSUME k < i + n, NEW j \in 1 .. Len(c), j > i PROVE Rec(b, c[j], r) = NoRecord
  <2>1. ~(j < i) /\ ~(j = i) BY <1>1, <1>3
  <2>2. c[j] = s[j - d + n] /\ j - d + n \in 1 .. Len(s) /\ j - d + n >= i + n BY <2>1, <1>0
  <2>3. j - d + n > k BY <1>1, <1>3, <2>2
  <2> QED BY <2>2, <2>3 DEF QuietAfter
<1> QED BY <1>2, <1>3 DEF QuietAfter

(* The same of the segment. *)
LEMMA PartQuiet ==
  ASSUME NEW b, NEW r, NEW s \in TableSeq, NEW seg \in TableSeq, NEW i \in Nat, 1 <= i,
         i + Len(seg) - 1 <= Len(s), PartAt(s, i, seg), NEW k \in Nat, QuietAfter(b, s, r, k)
  PROVE  /\ k < i => QuietAfter(b, seg, r, 0)
         /\ i <= k => QuietAfter(b, seg, r, k - i + 1)
<1>1. Len(s) \in Nat /\ Len(seg) \in Nat BY DEF TableSeq
<1>2. ASSUME NEW j \in 1 .. Len(seg), i + j - 1 > k PROVE Rec(b, seg[j], r) = NoRecord
  <2>1. i + j - 1 \in 1 .. Len(s) /\ seg[j] = s[i + j - 1] BY <1>1 DEF PartAt
  <2> QED BY <2>1, <1>2 DEF QuietAfter
<1>3. ASSUME k < i, NEW j \in 1 .. Len(seg) PROVE i + j - 1 > k BY <1>1, <1>3
<1>4. ASSUME i <= k, NEW j \in 1 .. Len(seg), j > k - i + 1 PROVE i + j - 1 > k BY <1>1, <1>4
<1> QED BY <1>2, <1>3, <1>4 DEF QuietAfter

(* The record of the merged table, v being the newest one of its segment. *)
Stands(b, own, r, z, i, d, v) ==
  /\ z => i = 1
  /\ d = 0 => Rec(b, own, r) = NoRecord
  /\ Rec(b, own, r) = IF z /\ v = None THEN NoRecord ELSE v

(* The newest record after a compaction: the one there was, or nothing where *)
(* there was a deletion with nothing under it. *)
LEMMA NewestSpliced ==
  ASSUME NEW b, NEW r, NEW s \in TableSeq, NEW c \in TableSeq, NEW seg \in TableSeq,
         NEW i \in Nat, NEW n \in Nat \ {0}, NEW d \in {0, 1}, NEW own, NEW z \in BOOLEAN,
         1 <= i, i + n - 1 <= Len(s), SplitAt(c, s, i, n, d, own), Len(seg) = n, PartAt(s, i, seg),
         NEW v, v = NewestIn(b, seg, r), Stands(b, own, r, z, i, d, v)
  PROVE  \/ NewestIn(b, c, r) = NewestIn(b, s, r)
         \/ NewestIn(b, c, r) = NoRecord /\ NewestIn(b, s, r) = None
<1>1. Len(s) \in Nat /\ Len(c) = Len(s) - n + d /\ Len(c) \in Nat BY DEF TableSeq, SplitAt
<1>4. ASSUME NEW k \in Nat, QuietAfter(b, s, r, k), k < i, Rec(b, own, r) = NoRecord
      PROVE  QuietAfter(b, c, r, k)
  <2> SUFFICES ASSUME NEW j \in 1 .. Len(c), j > k PROVE Rec(b, c[j], r) = NoRecord BY DEF QuietAfter
  <2>1. PlaceIn(c, s, i, n, d, own, j) BY SplitPlaces
  <2>2. CASE j < i /\ c[j] = s[j] /\ j \in 1 .. Len(s) BY <2>2, <1>4 DEF QuietAfter
  <2>3. CASE c[j] = own BY <2>3, <1>4
  <2>4. CASE c[j] = s[j - d + n] /\ j - d + n \in 1 .. Len(s) /\ j - d + n >= i + n
    <3>1. j - d + n > k BY <1>1, <1>4, <2>4
    <3> QED BY <3>1, <2>4, <1>4 DEF QuietAfter
  <2> QED BY <2>1, <2>2, <2>3, <2>4 DEF PlaceIn
<1>2. CASE QuietAfter(b, s, r, 0)
  <2>1. 0 \in Nat /\ 0 < i OBVIOUS
  <2>2. QuietAfter(b, seg, r, 0) BY <1>2, <2>1, PartQuiet
  <2>3. v = NoRecord BY <2>2, NewestNone
  <2>4. Rec(b, own, r) = NoRecord BY <2>3 DEF Stands
  <2>5. QuietAfter(b, c, r, 0) BY <1>2, <2>1, <2>4, <1>4
  <2> QED BY <1>2, <2>5, NewestNone
<1>3. ASSUME NEW k \in 1 .. Len(s), Rec(b, s[k], r) # NoRecord, QuietAfter(b, s, r, k)
      PROVE  \/ NewestIn(b, c, r) = NewestIn(b, s, r)
             \/ NewestIn(b, c, r) = NoRecord /\ NewestIn(b, s, r) = None
  <2>0. k \in Nat BY <1>1
  <2>1. NewestIn(b, s, r) = Rec(b, s[k], r) BY <1>3, NewestAt
  <2>2. CASE k >= i + n
    <3> DEFINE m == k + d - n
    <3>1. m \in 1 .. Len(c) /\ m \in (i + d) .. Len(c) /\ m - d + n = k BY <2>2, <1>1
    <3>2. QuietAfter(b, c, r, m) BY <2>0, <2>2, <1>3, SplitQuiet, ZenonT(30)
    <3> HIDE DEF m
    <3>3. c[m] = s[k] BY <3>1 DEF SplitAt
    <3>4. NewestIn(b, c, r) = Rec(b, c[m], r) BY <3>1, <3>2, <3>3, <1>3, NewestAt
    <3> QED BY <3>3, <3>4, <2>1
  <2>3. CASE k < i
    <3>1. QuietAfter(b, seg, r, 0) BY <2>0, <2>3, <1>3, PartQuiet
    <3>2. v = NoRecord BY <3>1, NewestNone
    <3>3. Rec(b, own, r) = NoRecord BY <3>2 DEF Stands
    <3>4. QuietAfter(b, c, r, k) BY <2>0, <2>3, <3>3, <1>3, <1>4
    <3>5. k \in 1 .. Len(c) /\ k \in 1 .. i - 1 BY <2>3, <1>1
    <3>6. c[k] = s[k] BY <3>5 DEF SplitAt
    <3>7. NewestIn(b, c, r) = Rec(b, c[k], r) BY <3>4, <3>5, <3>6, <1>3, NewestAt
    <3> QED BY <3>6, <3>7, <2>1
  <2>4. CASE i <= k /\ k < i + n
    <3> DEFINE m == k - i + 1
    <3>1. m \in 1 .. Len(seg) /\ i + m - 1 = k BY <2>4, <1>1
    <3>2. QuietAfter(b, seg, r, m) BY <2>0, <2>4, <1>3, PartQuiet
    <3> HIDE DEF m
    <3>3. seg[m] = s[k] BY <3>1 DEF PartAt
    <3>4. v = Rec(b, s[k], r) BY <3>1, <3>2, <3>3, <1>3, NewestAt
    <3>5. QuietAfter(b, c, r, i) BY <2>0, <2>4, <1>3, SplitQuiet, ZenonT(30)
    <3>6. CASE Rec(b, own, r) = NoRecord
      <4>1. z /\ v = None /\ i = 1 BY <3>4, <3>6, <1>3 DEF Stands
      <4>2. ASSUME NEW j \in 1 .. Len(c) PROVE Rec(b, c[j], r) = NoRecord
        <5>1. CASE j > i BY <5>1, <3>5 DEF QuietAfter
        <5>2. CASE ~(j > i)
          <6>1. j = i /\ i = 1 BY <5>2, <4>1, <1>1
          <6>2. CASE d = 1 BY <6>1, <6>2, <3>6 DEF SplitAt
          <6>3. CASE d = 0
            <7>1. j \in (i + d) .. Len(c) /\ j - d + n = i + n /\ i + n > k /\ i + n \in 1 .. Len(s)
              BY <6>1, <6>3, <2>4, <1>1
            <7>2. c[j] = s[i + n] BY <7>1 DEF SplitAt
            <7> QED BY <7>1, <7>2, <1>3 DEF QuietAfter
          <6> QED BY <6>2, <6>3
        <5> QED BY <5>1, <5>2
      <4>3. QuietAfter(b, c, r, 0) BY <4>2 DEF QuietAfter
      <4>4. NewestIn(b, c, r) = NoRecord BY <4>3, NewestNone
      <4> QED BY <4>1, <4>4, <3>4, <2>1
    <3>7. CASE Rec(b, own, r) # NoRecord
      <4>1. d = 1 /\ Rec(b, own, r) = v BY <3>7 DEF Stands
      <4>2. i \in 1 .. Len(c) BY <4>1, <1>1
      <4>3. c[i] = own BY <4>1 DEF SplitAt
      <4>4. NewestIn(b, c, r) = Rec(b, c[i], r) BY <4>2, <4>3, <3>5, <3>7, NewestAt
      <4> QED BY <4>1, <4>3, <4>4, <3>4, <2>1
    <3> QED BY <3>6, <3>7
  <2> QED BY <2>0, <2>2, <2>3, <2>4
<1> QED BY <1>2, <1>3, NewestCases

(* What splicing a list gives. *)
LEMMA SplitShape ==
  ASSUME NEW s \in TableSeq, NEW n \in Nat \ {0}, NEW i \in 1 .. (Len(s) - n + 1), NEW own,
         NEW new \in TableSeq, Len(new) \in {0, 1}, Len(new) = 1 => new[1] = own,
         NEW c, c = Spliced(s, i, n, new)
  PROVE  /\ c \in TableSeq /\ SplitAt(c, s, i, n, Len(new), own)
         /\ i \in Nat /\ 1 <= i /\ i + n - 1 <= Len(s)
<1>1. c \in TableSeq /\ SplitAt(c, s, i, n, Len(new), own) BY SplicedShape
<1>2. Len(s) \in Nat BY DEF TableSeq
<1> QED BY <1>1, <1>2

(* A compaction moves no ref: the merged table stands for its segment. *)
LEMMA ViewSpliced ==
  ASSUME NEW b, NEW s \in TableSeq, NEW c \in TableSeq, NEW seg \in TableSeq,
         NEW i \in Nat, NEW n \in Nat \ {0}, NEW d \in {0, 1}, NEW own, NEW z \in BOOLEAN,
         1 <= i, i + n - 1 <= Len(s), SplitAt(c, s, i, n, d, own), Len(seg) = n, PartAt(s, i, seg),
         z => i = 1, b[own].recs = MergedIn(b, seg, z), d = 0 => b[own].recs = NoRecords
  PROVE  ViewIn(b, c) = ViewIn(b, s)
<1>1. ASSUME NEW r \in Refs
      PROVE  \/ NewestIn(b, c, r) = NewestIn(b, s, r)
             \/ NewestIn(b, c, r) = NoRecord /\ NewestIn(b, s, r) = None
  <2> DEFINE v == NewestIn(b, seg, r)
  <2>1. Rec(b, own, r) = IF z /\ v = None THEN NoRecord ELSE v BY DEF Rec, MergedIn
  <2>2. d = 0 => Rec(b, own, r) = NoRecord BY DEF Rec, NoRecords
  <2>3. v = NewestIn(b, seg, r) OBVIOUS
  <2>4. Stands(b, own, r, z, i, d, v) BY <2>1, <2>2 DEF Stands
  <2> HIDE DEF v
  <2> QED BY <2>3, <2>4, NewestSpliced
<1> QED BY <1>1 DEF ViewIn

(* The map after a transaction's table is appended. *)
LEMMA ViewAppended ==
  ASSUME NEW b, NEW s \in TableSeq, NEW t \in Tables, NEW r \in Refs
  PROVE  ViewIn(b, Append(s, t))[r] = IF Rec(b, t, r) = NoRecord THEN ViewIn(b, s)[r] ELSE Rec(b, t, r)
<1> DEFINE c == Append(s, t)
<1>1. /\ c \in TableSeq /\ Len(c) = Len(s) + 1 /\ Len(s) \in Nat /\ c[Len(s) + 1] = t
      /\ \A k \in 1 .. Len(s) : c[k] = s[k]
  BY DEF TableSeq
<1> HIDE DEF c
<1>2. CASE Rec(b, t, r) # NoRecord
  <2>1. QuietAfter(b, c, r, Len(s) + 1) /\ Len(s) + 1 \in 1 .. Len(c) BY <1>1 DEF QuietAfter
  <2>2. NewestIn(b, c, r) = Rec(b, t, r) BY <2>1, <1>1, <1>2, NewestAt
  <2> QED BY <2>2, <1>2 DEF ViewIn, c
<1>3. CASE Rec(b, t, r) = NoRecord
  <2>1. ASSUME NEW k \in Nat, QuietAfter(b, s, r, k) PROVE QuietAfter(b, c, r, k)
    <3> SUFFICES ASSUME NEW j \in 1 .. Len(c), j > k PROVE Rec(b, c[j], r) = NoRecord BY DEF QuietAfter
    <3>1. CASE j = Len(s) + 1 BY <3>1, <1>1, <1>3
    <3>2. CASE j # Len(s) + 1
      <4>1. j \in 1 .. Len(s) BY <3>2, <1>1
      <4> QED BY <4>1, <1>1, <2>1 DEF QuietAfter
    <3> QED BY <3>1, <3>2
  <2>2. NewestIn(b, c, r) = NewestIn(b, s, r)
    <3>1. CASE QuietAfter(b, s, r, 0) BY <3>1, <2>1, <1>1, NewestNone
    <3>2. ASSUME NEW k \in 1 .. Len(s), Rec(b, s[k], r) # NoRecord, QuietAfter(b, s, r, k)
          PROVE  NewestIn(b, c, r) = NewestIn(b, s, r)
      <4>1. k \in Nat /\ k \in 1 .. Len(c) /\ c[k] = s[k] BY <1>1
      <4>2. QuietAfter(b, c, r, k) BY <4>1, <3>2, <2>1
      <4> QED BY <4>1, <4>2, <3>2, <1>1, NewestAt
    <3> QED BY <3>1, <3>2, NewestCases
  <2> QED BY <2>2, <1>3 DEF ViewIn, c
<1> QED BY <1>2, <1>3

------------------------------
(* Transactions: what a call goes by until it commits. *)

FitLabels == {"idle", "stage", "rename", "lockBody", "commit", "tables", "giveUp", "unplan",
              "merge", "lockSplice", "splice"}
MergedLabels == {"lockSplice", "splice", "rename", "lockBody", "commit"}

(* A transaction about to be committed holds for the list it will replace, and *)
(* its table says what it asks for. *)
UpdateFits(p) ==
  /\ me[p].pc = "idle" => me[p].plan = NoPlan
  /\ me[p].pc \in {"stage", "rename", "lockBody", "commit"} /\ ~Compacting(p) =>
       /\ me[p].plan \in Plans
       /\ Verified(me[p].plan, ViewIn(body, list)) /\ NamesAvailable(me[p].plan, ViewIn(body, list))
  /\ me[p].pc \in {"rename", "lockBody", "commit"} /\ ~Compacting(p) =>
       body[me[p].id].recs = RecordsOf(me[p].plan, ViewIn(body, list))

(* A segment that was the bottom of the stack still is, however the list has *)
(* changed meanwhile; the merged table has its newest records. *)
MergeFits(p) ==
  /\ me[p].pc \in {"tables", "giveUp"} \/ (me[p].pc = "unplan" /\ Compacting(p)) => me[p].names = list
  /\ me[p].pc \in MergedLabels \cup {"merge"} /\ Compacting(p) /\ me[p].seg[1] = me[p].names[1] =>
       list[1] = me[p].seg[1]
  /\ me[p].pc \in MergedLabels /\ Compacting(p) =>
       body[OwnTable(p)].recs = MergedIn(body, me[p].seg, me[p].seg[1] = me[p].names[1])

Fits(p) == UpdateFits(p) /\ MergeFits(p)

Coherent(m) == \A c \in Clashing : m[c[1]] = None \/ m[c[2]] = None

TransInv == Coherent(ViewIn(body, list)) /\ \A p \in Procs : Fits(p)

(* Only a commit replaces the list. *)
LEMMA ListKept ==
  ASSUME NEW p \in Procs, Begin(p) \/ Work(p), ~CommitListBody(p)
  PROVE  list' = list
<1>1. CASE Begin(p) BY <1>1 DEF Begin, BeginUpdate, BeginPack, BeginRead, disk
<1>2. CASE TryAcquireLock(p) \/ Timeout(p) \/ Unlock(p) \/ PrepareStackWrite(p) \/ WriteTempTable(p)
           \/ RenameTable(p) \/ WriteLockBody(p) \/ Invalidate(p)
  BY <1>2, Zenon DEF TryAcquireLock, Timeout, Unlock, PrepareStackWrite, WriteTempTable,
              RenameTable, WriteLockBody, Invalidate, disk
<1>3. CASE ReadFreshTableNames(p) \/ ProbeNames(p) \/ ProbeSize(p) \/ PlanCompaction(p) \/ CheckNames(p)
           \/ LockTable(p) \/ GiveUp(p) \/ UnlockPlan(p) \/ MergeSegment(p)
  BY <1>3, Zenon DEF ReadFreshTableNames, ProbeNames, ProbeSize, PlanCompaction, CheckNames,
              LockTable, GiveUp, UnlockPlan, MergeSegment, disk
<1>4. CASE SpliceLockedSegment(p) \/ UnlinkTable(p) \/ ReleaseTable(p) \/ ReadDirectory(p) \/ SweepOrphan(p)
  BY <1>4, Zenon DEF SpliceLockedSegment, UnlinkTable, ReleaseTable, ReadDirectory, SweepOrphan, disk
<1>5. CASE StatList(p) \/ ReadList(p) \/ OpenTable(p) \/ FillCache(p) \/ Answer(p)
  BY <1>5 DEF StatList, ReadList, OpenTable, FillCache, Answer, disk
<1> QED BY <1>1, <1>2, <1>3, <1>4, <1>5 DEF Work

(* The maps and merges of final tables stay. *)
LEMMA MapsStay ==
  ASSUME StackIndInv, [Next]_vars
  PROVE  /\ ViewIn(body', list) = ViewIn(body, list)
         /\ \A p \in Procs : \A z : MergedIn(body', me[p].seg, z) = MergedIn(body, me[p].seg, z)
<1>1. list \in TableSeq /\ \A t \in Els(list) : Settled(t) BY DEF StackIndInv, DiskTypes, ListOK
<1>2. ViewIn(body', list) = ViewIn(body, list) BY <1>1, FinalRecords, ViewStays
<1>3. ASSUME NEW p \in Procs, NEW z PROVE MergedIn(body', me[p].seg, z) = MergedIn(body, me[p].seg, z)
  <2>1. me[p].seg \in TableSeq /\ \A t \in Els(me[p].seg) : Settled(t)
    BY DEF StackIndInv, MeTypes, ProcOK, SegOK
  <2> QED BY <2>1, FinalRecords, MergedStays
<1> QED BY <1>2, <1>3

(* A commit that leaves a first table leaves it first. *)
LEMMA FirstKept ==
  ASSUME StackIndInv, NEW p \in Procs, me[p].pc = "commit", list # <<>>, list[1] \notin Els(me[p].seg)
  PROVE  me[p].next[1] = list[1]
<1>1. list \in TableSeq /\ MeTypes(p) /\ NextOK(p) BY MeShape DEF PlaceOK
<1>2. Len(list) \in Nat /\ Len(list) >= 1 BY <1>1 DEF TableSeq
<1>3. OwnTable(p) \in Tables BY OwnIsUnborn DEF Writing
<1>4. CASE ~Compacting(p)
  <2>1. me[p].next = Append(list, me[p].id) BY <1>1, <1>4 DEF NextOK
  <2> QED BY <2>1, <1>1, <1>2 DEF TableSeq
<1>5. CASE Compacting(p)
  <2> DEFINE n == Len(me[p].seg)
             own == OwnTable(p)
             new == IF body[own].recs = NoRecords THEN <<>> ELSE <<own>>
  <2>1. PICK i \in 1 .. (Len(list) - n + 1) :
          SubSeq(list, i, i + n - 1) = me[p].seg /\ me[p].next = Spliced(list, i, n, new)
    BY <1>1, <1>5 DEF NextOK
  <2>2. new \in TableSeq /\ Len(new) \in {0, 1} /\ (Len(new) = 1 => new[1] = own)
    <3>1. <<>> \in TableSeq /\ Len(<<>>) = 0 BY DEF TableSeq
    <3>2. <<own>> \in TableSeq /\ Len(<<own>>) = 1 /\ <<own>>[1] = own BY <1>3 DEF TableSeq
    <3> QED BY <3>1, <3>2
  <2>3. n \in Nat \ {0} /\ me[p].seg \in TableSeq BY <1>1, <1>5 DEF Compacting, MeTypes, TableSeq
  <2> HIDE DEF new, n, own
  <2>4. Len(me[p].seg) = n BY DEF n
  <2>5. PartAt(list, i, me[p].seg) BY <1>1, <2>1, <2>3, <2>4, FoundPart
  <2>6. SplitAt(me[p].next, list, i, n, Len(new), own) /\ 1 <= i /\ i \in Nat
    BY <1>1, <2>1, <2>2, <2>3, SplitShape
  <2>7. me[p].seg[1] = list[i] /\ me[p].seg[1] \in Els(me[p].seg)
    <3>1. 1 \in 1 .. Len(me[p].seg) /\ i + 1 - 1 = i BY <2>3, <2>4, <2>6
    <3> QED BY <3>1, <2>5 DEF PartAt, Els
  <2>8. i # 1 BY <2>7
  <2>9. 1 \in 1 .. i - 1 BY <2>6, <2>8
  <2> QED BY <2>6, <2>9 DEF SplitAt
<1> QED BY <1>4, <1>5

(* What another call goes by is not disturbed. *)
LEMMA RelyFits ==
  ASSUME StackIndInv, TransInv, Next, NEW p \in Procs, StepOK(p),
         list' = list \/ (me[p].pc = "commit" /\ list' = me[p].next), NEW q \in Procs \ {p}
  PROVE  Fits(q)'
<1>1. /\ me'[q] = me[q] /\ SegOK(q) /\ MeTypes(q) /\ OwnNames(p) /\ Fits(q) /\ list \in TableSeq
  BY MeShape DEF StackIndInv, ProcOK, StepOK, Guarantee, OthersStay, TransInv
<1>2. Compacting(q)' = Compacting(q) /\ OwnTable(q)' = OwnTable(q) BY <1>1 DEF Compacting, OwnTable
<1>3. me[q].pc \in Holding => list' = list BY UnderLock DEF StepOK
<1>4. me[q].pc \in Writing \cup {"merge", "lockSplice", "splice"} => body'[OwnTable(q)] = body[OwnTable(q)]
  <2>1. Unborn(p) \cap Unborn(q) = {} BY DEF StackIndInv, Apart
  <2> QED BY <1>1, <2>1, OwnIsUnborn DEF OwnNames
<1>5. /\ ViewIn(body', list) = ViewIn(body, list)
      /\ \A z : MergedIn(body', me[q].seg, z) = MergedIn(body, me[q].seg, z)
  BY MapsStay
<1>6. UpdateFits(q)'
  <2>1. me[q].pc \in {"stage", "rename", "lockBody", "commit"} =>
          list' = list /\ ViewIn(body', list') = ViewIn(body, list)
    BY <1>3, <1>5, LabelSets
  <2>2. me[q].pc \in {"rename", "lockBody", "commit"} /\ ~Compacting(q) => body'[me[q].id] = body[me[q].id]
    BY <1>4 DEF OwnTable, Writing
  <2>3. UpdateFits(q) BY <1>1 DEF Fits
  <2> QED BY <1>1, <1>2, <2>1, <2>2, <2>3 DEF UpdateFits
<1>7. MergeFits(q)'
  <2>1. MergeFits(q) BY <1>1 DEF Fits
  <2>2. me[q].pc \in {"tables", "giveUp", "unplan"} => list' = list BY <1>3, LabelSets
  <2>3. me[q].pc \in MergedLabels /\ Compacting(q) =>
          body'[OwnTable(q)].recs = MergedIn(body', me[q].seg, me[q].seg[1] = me[q].names[1])
    BY <1>4, <1>5, <2>1 DEF MergeFits, MergedLabels, Writing
  <2>4. ASSUME me[q].pc \in MergedLabels \cup {"merge"}, Compacting(q), me[q].seg[1] = me[q].names[1]
        PROVE  list'[1] = me[q].seg[1]
    <3>1. list[1] = me[q].seg[1] BY <2>1, <2>4 DEF MergeFits
    <3>2. me[q].seg[1] \in Els(me[q].seg)
      <4>1. me[q].seg \in TableSeq /\ me[q].seg # <<>> BY <1>1, <2>4 DEF MeTypes, Compacting
      <4> QED BY <4>1 DEF Els, TableSeq
    <3>3. Els(me[q].seg) \subseteq Els(list) BY <1>1, <2>4 DEF SegOK, Listed, MergedLabels
    <3>4. list # <<>> BY <1>1, <3>2, <3>3, ElsType
    <3>5. list[1] \notin Els(me[p].seg) BY <3>1, <3>2 DEF StackIndInv, Apart
    <3>6. me[p].pc = "commit" => me[p].next[1] = list[1] BY <3>4, <3>5, FirstKept
    <3> QED BY <3>1, <3>6
  <2> QED BY <1>1, <1>2, <2>1, <2>2, <2>3, <2>4 DEF MergeFits
<1> QED BY <1>6, <1>7 DEF Fits

(* A call that is over, or far from a commit, goes by nothing. *)
LEMMA QuietFits ==
  ASSUME NEW p \in Procs, me'[p] = Idle \/ me'[p].pc \notin FitLabels
  PROVE  Fits(p)'
<1>1. CASE me'[p] = Idle
  <2>1. me'[p].pc = "idle" /\ me'[p].plan = NoPlan BY <1>1 DEF Idle
  <2> QED BY <2>1 DEF Fits, UpdateFits, MergeFits, MergedLabels
<1>2. CASE me'[p].pc \notin FitLabels BY <1>2 DEF Fits, UpdateFits, MergeFits, MergedLabels, FitLabels
<1> QED BY <1>1, <1>2

(* The steps on the way to a commit that write no table. *)
LEMMA SameFits ==
  ASSUME NEW p \in Procs, Fits(p), list' = list, body' = body,
         me'[p].plan = me[p].plan, me'[p].id = me[p].id, me'[p].seg = me[p].seg,
         me'[p].names = me[p].names,
         \/ me[p].pc = "rename" /\ me'[p].pc = "lockBody"
         \/ me[p].pc = "lockBody" /\ me'[p].pc = "commit"
         \/ me[p].pc = "lockSplice" /\ me'[p].pc = "splice"
         \/ me[p].pc = "splice" /\ me'[p].pc \in {"rename", "lockBody"} /\ Compacting(p)
  PROVE  Fits(p)'
<1>1. Compacting(p)' = Compacting(p) /\ OwnTable(p)' = OwnTable(p) BY DEF Compacting, OwnTable
<1>2. UpdateFits(p)' BY <1>1 DEF Fits, UpdateFits
<1>3. MergeFits(p)' BY <1>1 DEF Fits, MergeFits, MergedLabels
<1> QED BY <1>2, <1>3 DEF Fits

(* A transaction that is not refused holds for the list as it is. *)
LEMMA PrepareFits ==
  ASSUME StackIndInv, NEW p \in Procs, PrepareStackWrite(p)
  PROVE  Fits(p)'
<1>1. /\ DOMAIN me = Procs /\ DOMAIN me[p] = MeFields /\ me[p].pc = "prepare" /\ me[p].plan \in Plans
      /\ list' = list /\ body' = body
  BY MeShape DEF PrepareStackWrite, At, PlaceOK, disk
<1>2. View(list) = ViewIn(body, list) BY ViewIs
<1>3. ~Compacting(p) BY <1>1, NoSegment DEF SegLabels, Listed
<1>4. PICK l \in {"stage", "unlock"} :
        /\ me' = [me EXCEPT ![p].names = list, ![p].pc = l]
        /\ l = "stage" => Verified(me[p].plan, View(list)) /\ NamesAvailable(me[p].plan, View(list))
  BY DEF PrepareStackWrite
<1>5. me'[p].pc = l /\ me'[p].plan = me[p].plan BY <1>1, <1>4 DEF MeFields
<1>6. CASE l = "unlock" BY <1>5, <1>6, QuietFits DEF FitLabels
<1>7. CASE l = "stage"
  <2>1. UpdateFits(p)' BY <1>1, <1>2, <1>4, <1>5, <1>7 DEF UpdateFits
  <2>2. MergeFits(p)' BY <1>5, <1>7 DEF MergeFits, MergedLabels
  <2> QED BY <2>1, <2>2 DEF Fits
<1> QED BY <1>6, <1>7

(* Its table says what it asks for. *)
LEMMA WriteTempFits ==
  ASSUME StackIndInv, Next, NEW p \in Procs, Fits(p), WriteTempTable(p)
  PROVE  Fits(p)'
<1>1. /\ DOMAIN me = Procs /\ DOMAIN me[p] = MeFields /\ me[p].pc = "stage" /\ me[p].names = list
      /\ list' = list /\ body \in [Tables -> [recs : Records, index : Nat]]
  BY MeShape DEF WriteTempTable, At, PlaceOK, DiskTypes
<1>2. View(list) = ViewIn(body, list) BY ViewIs
<1>3. ~Compacting(p) BY <1>1, NoSegment DEF SegLabels, Listed
<1>4. me[p].id \in Tables BY <1>1, <1>3, OwnIsUnborn DEF Writing, OwnTable
<1>5. /\ body' = [body EXCEPT ![me[p].id] =
                    [recs |-> RecordsOf(me[p].plan, View(list)), index |-> MaxUpdateIndex(list) + 1]]
      /\ me' = [me EXCEPT ![p].pc = "rename", ![p].next = Append(me[p].names, me[p].id)]
  BY <1>1 DEF WriteTempTable
<1>6. body'[me[p].id].recs = RecordsOf(me[p].plan, ViewIn(body, list)) BY <1>1, <1>2, <1>4, <1>5
<1>7. /\ me'[p].pc = "rename" /\ me'[p].plan = me[p].plan /\ me'[p].id = me[p].id /\ me'[p].seg = me[p].seg
  BY <1>1, <1>5 DEF MeFields
<1>8. ~Compacting(p)' BY <1>3, <1>7 DEF Compacting
<1>9. ViewIn(body', list) = ViewIn(body, list) BY MapsStay
<1>10. me[p].plan \in Plans /\ Verified(me[p].plan, ViewIn(body, list))
       /\ NamesAvailable(me[p].plan, ViewIn(body, list))
  BY <1>1, <1>3 DEF Fits, UpdateFits
<1>11. UpdateFits(p)' BY <1>1, <1>6, <1>7, <1>9, <1>10 DEF UpdateFits
<1>12. MergeFits(p)' BY <1>7, <1>8 DEF MergeFits, MergedLabels
<1> QED BY <1>11, <1>12 DEF Fits

(* The merged table has the newest records of its segment. *)
LEMMA MergeSegmentFits ==
  ASSUME StackIndInv, Next, NEW p \in Procs, Fits(p), MergeSegment(p)
  PROVE  Fits(p)'
<1> DEFINE n == OwnTable(p)
           ts == me[p].seg
           z == ts[1] = me[p].names[1]
<1>1. /\ DOMAIN me = Procs /\ DOMAIN me[p] = MeFields /\ me[p].pc = "merge"
      /\ list' = list /\ body \in [Tables -> [recs : Records, index : Nat]]
  BY MeShape DEF MergeSegment, At, DiskTypes
<1>2. Compacting(p) /\ n \in Tables BY <1>1, MeShape, OwnIsUnborn DEF SegOK
<1>3. CASE Return(p)
  <2>1. me'[p] = Idle BY <1>1, <1>3 DEF Return
  <2> QED BY <2>1, QuietFits
<1>4. CASE ~Return(p)
  <2>1. /\ body' = [body EXCEPT ![n] = [recs |-> Merged(ts, z), index |-> MaxUpdateIndex(ts)]]
        /\ me' = [me EXCEPT ![p].pc = "lockSplice"]
    BY <1>4 DEF MergeSegment, Goto
  <2>2. me'[p].pc = "lockSplice" /\ me'[p].id = me[p].id /\ me'[p].seg = ts /\ me'[p].names = me[p].names
    BY <1>1, <2>1 DEF MeFields
  <2>3. Compacting(p)' /\ OwnTable(p)' = n BY <1>2, <2>2 DEF Compacting, OwnTable
  <2>4. body'[n].recs = MergedIn(body, ts, z) BY <1>1, <1>2, <2>1, MergedIs
  <2>5. MergedIn(body', ts, z) = MergedIn(body, ts, z) BY MapsStay
  <2>6. z => list[1] = ts[1] BY <1>1, <1>2 DEF Fits, MergeFits
  <2>7. UpdateFits(p)' BY <2>2 DEF UpdateFits
  <2>8. MergeFits(p)' BY <1>1, <2>2, <2>3, <2>4, <2>5, <2>6 DEF MergeFits
  <2> QED BY <2>7, <2>8 DEF Fits
<1> QED BY <1>3, <1>4

(* Under the plan's lock the list is the one that was probed. *)
LEMMA PlanFits ==
  ASSUME StackIndInv, NEW p \in Procs, Fits(p),
         CheckNames(p) \/ LockTable(p) \/ GiveUp(p) \/ UnlockPlan(p)
  PROVE  Fits(p)'
<1>1. DOMAIN me = Procs /\ DOMAIN me[p] = MeFields BY MeShape
<1>2. CASE CheckNames(p)
  <2>1. /\ me[p].pc = "check" /\ list' = list
        /\ me' = [me EXCEPT ![p].pc = IF list = me[p].names THEN "tables" ELSE "unplan"]
    BY <1>2 DEF CheckNames, Goto, At, disk
  <2>2. ~Compacting(p) BY <2>1, NoSegment DEF SegLabels, Listed
  <2>3. /\ me'[p].pc = (IF list = me[p].names THEN "tables" ELSE "unplan")
        /\ me'[p].names = me[p].names /\ me'[p].seg = me[p].seg
    BY <1>1, <2>1 DEF MeFields
  <2>4. ~Compacting(p)' BY <2>2, <2>3 DEF Compacting
  <2> QED BY <2>1, <2>3, <2>4 DEF Fits, UpdateFits, MergeFits, MergedLabels
<1>3. CASE LockTable(p)
  <2>1. me[p].pc = "tables" /\ list' = list BY <1>3, Zenon DEF LockTable, At
  <2>2. \E seg, rest : \E l \in {"tables", "giveUp", "unplan"} :
          me' = [me EXCEPT ![p].seg = seg, ![p].left = rest, ![p].pc = l]
    BY <1>3 DEF LockTable
  <2>3. me'[p].pc \in {"tables", "giveUp", "unplan"} /\ me'[p].names = me[p].names BY <1>1, <2>2 DEF MeFields
  <2>4. me[p].names = list BY <2>1 DEF Fits, MergeFits
  <2> QED BY <2>1, <2>3, <2>4 DEF Fits, UpdateFits, MergeFits, MergedLabels
<1>4. CASE GiveUp(p)
  <2>1. me[p].pc = "giveUp" /\ list' = list BY <1>4 DEF GiveUp, At
  <2>2. me[p].names = list BY <2>1 DEF Fits, MergeFits
  <2>3. \/ \E s : me' = [me EXCEPT ![p].seg = s]
        \/ me' = [me EXCEPT ![p].pc = "unplan"]
    BY <1>4 DEF GiveUp, Goto
  <2>4. me'[p].pc \in {"giveUp", "unplan"} /\ me'[p].names = me[p].names BY <1>1, <2>1, <2>3 DEF MeFields
  <2> QED BY <2>1, <2>2, <2>4 DEF Fits, UpdateFits, MergeFits, MergedLabels
<1>5. CASE UnlockPlan(p)
  <2>1. me[p].pc = "unplan" /\ list' = list BY <1>5 DEF UnlockPlan, At
  <2>2. CASE Compacting(p)
    <3>1. me' = [me EXCEPT ![p].pc = "merge"] BY <1>5, <2>2 DEF UnlockPlan, Goto
    <3>2. me'[p].pc = "merge" /\ me'[p].names = me[p].names /\ me'[p].seg = me[p].seg
      BY <1>1, <3>1 DEF MeFields
    <3>3. me[p].names = list BY <2>1, <2>2 DEF Fits, MergeFits
    <3> QED BY <2>1, <3>2, <3>3 DEF Fits, UpdateFits, MergeFits, MergedLabels
  <2>3. CASE ~Compacting(p)
    <3>1. me' = [me EXCEPT ![p].pc = "lockSweep"] \/ Return(p)
      BY <1>5, <2>3 DEF UnlockPlan, NoCompaction, Goto
    <3>2. me'[p].pc = "lockSweep" \/ me'[p] = Idle BY <1>1, <3>1 DEF Return, MeFields
    <3> QED BY <3>2, QuietFits DEF FitLabels
  <2> QED BY <2>2, <2>3
<1> QED BY <1>2, <1>3, <1>4, <1>5

(* The steps between. *)
LEMMA BetweenFits ==
  ASSUME StackIndInv, NEW p \in Procs, Fits(p),
         TryAcquireLock(p) \/ RenameTable(p) \/ WriteLockBody(p) \/ SpliceLockedSegment(p)
  PROVE  Fits(p)'
<1>1. DOMAIN me = Procs /\ DOMAIN me[p] = MeFields BY MeShape
<1>2. CASE TryAcquireLock(p)
  <2>1. me[p].pc \in Waiting /\ me' = [me EXCEPT ![p].pc = Then[me[p].pc]] /\ list' = list /\ body' = body
    BY <1>2 DEF TryAcquireLock, Goto
  <2>2. /\ me'[p].plan = me[p].plan /\ me'[p].id = me[p].id /\ me'[p].seg = me[p].seg
        /\ me'[p].names = me[p].names /\ me'[p].pc = Then[me[p].pc]
    BY <1>1, <2>1, GotoFields
  <2>3. CASE me[p].pc = "lockSplice"
    <3>1. me'[p].pc = "splice" BY <2>2, <2>3, LabelSets
    <3> QED BY <3>1, <2>1, <2>2, <2>3, SameFits
  <2>4. CASE me[p].pc # "lockSplice"
    <3>1. me'[p].pc \notin FitLabels BY <2>1, <2>2, <2>4, LabelSets DEF FitLabels
    <3> QED BY <3>1, QuietFits
  <2> QED BY <2>3, <2>4
<1>3. CASE RenameTable(p)
  <2>1. /\ me[p].pc = "rename" /\ list' = list /\ body' = body
        /\ \/ me' = [me EXCEPT ![p].pc = "lockBody"]
           \/ me' = [me EXCEPT ![p].pc = "unlock", ![p].threw = TRUE]
    BY <1>3 DEF RenameTable, Goto, At
  <2>2. CASE me' = [me EXCEPT ![p].pc = "lockBody"]
    <3>1. /\ me'[p].plan = me[p].plan /\ me'[p].id = me[p].id /\ me'[p].seg = me[p].seg
          /\ me'[p].names = me[p].names /\ me'[p].pc = "lockBody"
      BY <1>1, <2>2, GotoFields
    <3> QED BY <3>1, <2>1, SameFits
  <2>3. CASE me' = [me EXCEPT ![p].pc = "unlock", ![p].threw = TRUE]
    <3>1. me'[p].pc \notin FitLabels BY <1>1, <2>3 DEF MeFields, FitLabels
    <3> QED BY <3>1, QuietFits
  <2> QED BY <2>1, <2>2, <2>3
<1>4. CASE WriteLockBody(p)
  <2>1. me[p].pc = "lockBody" /\ list' = list /\ body' = body /\ me' = [me EXCEPT ![p].pc = "commit"]
    BY <1>4 DEF WriteLockBody, Goto, At
  <2>2. /\ me'[p].plan = me[p].plan /\ me'[p].id = me[p].id /\ me'[p].seg = me[p].seg
        /\ me'[p].names = me[p].names /\ me'[p].pc = "commit"
    BY <1>1, <2>1, GotoFields
  <2> QED BY <2>1, <2>2, SameFits
<1>5. CASE SpliceLockedSegment(p)
  <2>1. me[p].pc = "splice" /\ list' = list /\ body' = body BY <1>5, Zenon DEF SpliceLockedSegment, At
  <2>2. Compacting(p)
    <3>1. SegOK(p) BY MeShape
    <3> QED BY <2>1, <3>1 DEF SegOK
  <2>3. \/ me' = [me EXCEPT ![p].pc = "unlock"]
        \/ \E n : \E l \in {"lockBody", "rename"} : me' = [me EXCEPT ![p].next = n, ![p].pc = l]
    BY <1>5, Zenon DEF SpliceLockedSegment, Goto
  <2>4. /\ me'[p].plan = me[p].plan /\ me'[p].id = me[p].id /\ me'[p].seg = me[p].seg
        /\ me'[p].names = me[p].names /\ me'[p].pc \in {"unlock", "lockBody", "rename"}
    BY <1>1, <2>3 DEF MeFields
  <2>5. CASE me'[p].pc = "unlock" BY <2>5, QuietFits DEF FitLabels
  <2>6. CASE me'[p].pc # "unlock" BY <2>1, <2>2, <2>4, <2>6, SameFits
  <2> QED BY <2>5, <2>6
<1> QED BY <1>2, <1>3, <1>4, <1>5

(* The steps after which a call goes by something. *)
FitSteps(p) ==
  \/ PrepareStackWrite(p) \/ WriteTempTable(p) \/ MergeSegment(p)
  \/ CheckNames(p) \/ LockTable(p) \/ GiveUp(p) \/ UnlockPlan(p)
  \/ TryAcquireLock(p) \/ RenameTable(p) \/ WriteLockBody(p) \/ SpliceLockedSegment(p)

(* They keep the transaction, or drop it. *)
LEMMA FitPlans ==
  ASSUME StackIndInv, NEW p \in Procs, FitSteps(p)
  PROVE  me'[p].plan \in {me[p].plan, NoPlan}
<1>1. DOMAIN me = Procs /\ DOMAIN me[p] = MeFields BY MeShape
<1>2. ASSUME Return(p) PROVE me'[p].plan = NoPlan BY <1>1, <1>2 DEF Return, Idle
<1>3. ASSUME NEW l, Goto(p, l) PROVE me'[p].plan = me[p].plan BY <1>1, <1>3, GotoFields DEF Goto
<1>4. CASE PrepareStackWrite(p) BY <1>4, <1>1 DEF PrepareStackWrite, MeFields
<1>5. CASE WriteTempTable(p) BY <1>5, <1>1 DEF WriteTempTable, MeFields
<1>6. CASE MergeSegment(p) BY <1>6, <1>2, <1>3 DEF MergeSegment
<1>7. CASE CheckNames(p) BY <1>7, <1>3 DEF CheckNames
<1>8. CASE LockTable(p)
  <2>1. \E seg, rest, l : me' = [me EXCEPT ![p].seg = seg, ![p].left = rest, ![p].pc = l]
    BY <1>8 DEF LockTable
  <2> QED BY <2>1, <1>1 DEF MeFields
<1>9. CASE GiveUp(p)
  <2>1. Goto(p, "unplan") \/ \E s : me' = [me EXCEPT ![p].seg = s] BY <1>9 DEF GiveUp
  <2> QED BY <2>1, <1>1, <1>3 DEF MeFields
<1>10. CASE UnlockPlan(p) BY <1>10, <1>2, <1>3 DEF UnlockPlan, NoCompaction
<1>11. CASE TryAcquireLock(p) BY <1>11, <1>3 DEF TryAcquireLock
<1>12. CASE RenameTable(p) BY <1>12, <1>1, <1>3 DEF RenameTable, MeFields
<1>13. CASE WriteLockBody(p) BY <1>13, <1>3 DEF WriteLockBody
<1>14. CASE SpliceLockedSegment(p)
  <2>1. Goto(p, "unlock") \/ \E n, l : me' = [me EXCEPT ![p].next = n, ![p].pc = l]
    BY <1>14 DEF SpliceLockedSegment
  <2> QED BY <2>1, <1>1, <1>3 DEF MeFields
<1> QED BY <1>4, <1>5, <1>6, <1>7, <1>8, <1>9, <1>10, <1>11, <1>12, <1>13, <1>14, Zenon DEF FitSteps

(* The other steps leave a call with nothing to go by. *)
LEMMA RestSteps ==
  ASSUME StackIndInv, NEW p \in Procs, Begin(p) \/ Work(p), ~FitSteps(p)
  PROVE  /\ me'[p] = Idle \/ me'[p].pc \notin FitLabels
         /\ ~BeginUpdate(p) => me'[p].plan \in {me[p].plan, NoPlan}
<1>1. DOMAIN me = Procs /\ DOMAIN me[p] = MeFields BY MeShape
<1>2. ASSUME Return(p) PROVE me'[p] = Idle /\ me'[p].plan = NoPlan BY <1>1, <1>2 DEF Return, Idle
<1>3. ASSUME NEW l, Goto(p, l) PROVE me'[p].pc = l /\ me'[p].plan = me[p].plan
  BY <1>1, <1>3, GotoFields DEF Goto
<1>4. CASE BeginUpdate(p)
  <2>1. PICK P \in Plans :
          me' = [me EXCEPT ![p] = [Idle EXCEPT !.pc = "lockWrite", !.op = "update",
                                               !.plan = P, !.id = issued + 1]]
    BY <1>4 DEF BeginUpdate
  <2> QED BY <2>1, <1>1, <1>4 DEF Idle, FitLabels
<1>5. CASE BeginPack(p) BY <1>5, <1>1 DEF BeginPack, Idle, FitLabels
<1>6. CASE BeginRead(p) BY <1>6, <1>1 DEF BeginRead, Idle, FitLabels
<1>7. CASE Timeout(p) BY <1>7, <1>1, <1>2 DEF Timeout, MeFields, FitLabels
<1>8. CASE Unlock(p) BY <1>8, <1>2, <1>3 DEF Unlock, FitLabels
<1>9. CASE CommitListBody(p)
  <2>1. \/ me' = [me EXCEPT ![p].pc = "unlock", ![p].threw = TRUE]
        \/ \E l \in {"unlink", "invalidate"} :
             me' = [me EXCEPT ![p].pc = l, ![p].plan = NoPlan, ![p].next = <<>>, ![p].left = me[p].seg]
    BY <1>9 DEF CommitListBody
  <2> QED BY <2>1, <1>1 DEF MeFields, FitLabels
<1>10. CASE Invalidate(p) BY <1>10, <1>3 DEF Invalidate, FitLabels
<1>11. CASE ReadFreshTableNames(p) BY <1>11, <1>1 DEF ReadFreshTableNames, MeFields, FitLabels
<1>12. CASE ProbeNames(p) BY <1>12, <1>1 DEF ProbeNames, MeFields, FitLabels
<1>13. CASE ProbeSize(p) BY <1>13, <1>1, <1>2 DEF ProbeSize, At, MeFields, FitLabels
<1>14. CASE PlanCompaction(p)
  <2>1. CASE ~Return(p)
    <3>1. PICK i, j \in DOMAIN me[p].names :
            me' = [me EXCEPT ![p].left = SubSeq(me[p].names, i, j), ![p].pc = "lockPlan"]
      BY <1>14, <2>1 DEF PlanCompaction
    <3> QED BY <3>1, <1>1 DEF MeFields, FitLabels
  <2> QED BY <2>1, <1>2
<1>15. CASE UnlinkTable(p) BY <1>15, <1>1, <1>3 DEF UnlinkTable, At, MeFields, FitLabels
<1>16. CASE ReleaseTable(p) BY <1>16, <1>1, <1>2, <1>3 DEF ReleaseTable, NoCompaction, At, MeFields, FitLabels
<1>17. CASE ReadDirectory(p) BY <1>17, <1>1 DEF ReadDirectory, MeFields, FitLabels
<1>18. CASE SweepOrphan(p)
  <2>1. Goto(p, "unlock") \/ (me[p].pc = "sweep" /\ \E v : me' = [me EXCEPT ![p].victims = @ \ {v}])
    BY <1>18 DEF SweepOrphan, At
  <2> QED BY <2>1, <1>1, <1>3 DEF MeFields, FitLabels
<1>19. CASE StatList(p) BY <1>19, <1>1 DEF StatList, MeFields, FitLabels
<1>20. CASE ReadList(p) BY <1>20, <1>1 DEF ReadList, MeFields, FitLabels
<1>21. CASE OpenTable(p) BY <1>21, <1>1, <1>2 DEF OpenTable, At, MeFields, FitLabels
<1>22. CASE FillCache(p) BY <1>22, <1>1 DEF FillCache, MeFields, FitLabels
<1>23. CASE Answer(p) BY <1>23, <1>2 DEF Answer
<1> QED BY <1>4, <1>5, <1>6, <1>7, <1>8, <1>9, <1>10, <1>11, <1>12, <1>13, <1>14, <1>15, <1>16, <1>17,
     <1>18, <1>19, <1>20, <1>21, <1>22, <1>23, Zenon
  DEF Begin, Work, FitSteps

(* The map once a transaction is applied. *)
Applied(P, m) == [r \in Refs |-> IF r \in DOMAIN P THEN P[r].val ELSE m[r]]

(* A transaction that was not refused leaves no name a directory of another. *)
LEMMA AppliedCoherent ==
  ASSUME NEW P \in Plans, NEW m, Coherent(m), Verified(P, m), NamesAvailable(P, m)
  PROVE  Coherent(Applied(P, m))
<1> SUFFICES ASSUME NEW c \in Clashing, Applied(P, m)[c[1]] # None, Applied(P, m)[c[2]] # None
             PROVE  FALSE
  BY DEF Coherent
<1>1. c[1] \in Refs /\ c[2] \in Refs /\ c = <<c[1], c[2]>> BY StackAssumption
<1>2. Clash(c[1], c[2]) /\ Clash(c[2], c[1]) BY <1>1 DEF Clash
<1>3. m[c[1]] = None \/ m[c[2]] = None BY DEF Coherent
<1>4. ASSUME NEW r \in Refs, NEW s \in Refs, Clash(r, s), m[r] = None,
             Applied(P, m)[r] # None, Applied(P, m)[s] # None
      PROVE  FALSE
  <2>1. r \in DOMAIN P BY <1>4 DEF Applied
  <2>2. P[r].exp \in {Always, None} BY <1>4, <2>1 DEF Verified
  <2>3. m[s] = None /\ s \notin DOMAIN P BY <1>4, <2>1, <2>2 DEF NamesAvailable
  <2> QED BY <1>4, <2>3 DEF Applied
<1> QED BY <1>1, <1>2, <1>3, <1>4

(* What a commit makes of the map: its transaction, whole, or nothing. *)
LEMMA CommitMap ==
  ASSUME StackIndInv, TransInv, NEW p \in Procs, me[p].pc = "commit"
  PROVE  /\ Compacting(p) => ViewIn(body, me[p].next) = ViewIn(body, list)
         /\ ~Compacting(p) =>
              /\ me[p].plan \in Plans /\ Verified(me[p].plan, ViewIn(body, list))
              /\ NamesAvailable(me[p].plan, ViewIn(body, list))
              /\ ViewIn(body, me[p].next) = Applied(me[p].plan, ViewIn(body, list))
<1> DEFINE own == OwnTable(p)
<1>1. list \in TableSeq /\ MeTypes(p) /\ NextOK(p) /\ SegOK(p) BY MeShape DEF PlaceOK
<1>2. own \in Tables BY OwnIsUnborn DEF Writing
<1>3. UpdateFits(p) /\ MergeFits(p) BY DEF TransInv, Fits
<1>4. CASE ~Compacting(p)
  <2> DEFINE P == me[p].plan
             m == ViewIn(body, list)
  <2>1. P \in Plans /\ Verified(P, m) /\ NamesAvailable(P, m) /\ body[own].recs = RecordsOf(P, m)
    BY <1>3, <1>4 DEF UpdateFits, OwnTable
  <2>2. me[p].next = Append(list, own) BY <1>1, <1>4 DEF NextOK, OwnTable
  <2>3. m = [r \in Refs |-> m[r]] BY DEF ViewIn
  <2>4. ViewIn(body, Append(list, own)) = [r \in Refs |-> ViewIn(body, Append(list, own))[r]] BY DEF ViewIn
  <2>5. ASSUME NEW r \in Refs PROVE ViewIn(body, Append(list, own))[r] = Applied(P, m)[r]
    <3>1. ViewIn(body, Append(list, own))[r] = IF Rec(body, own, r) = NoRecord THEN m[r] ELSE Rec(body, own, r)
      BY <1>1, <1>2, ViewAppended
    <3> HIDE DEF m, own, P
    <3>2. Rec(body, own, r) = IF r \notin DOMAIN P \/ (P[r].val = None /\ m[r] = None) THEN NoRecord ELSE P[r].val
      BY <2>1 DEF Rec, RecordsOf
    <3>3. r \in DOMAIN P => P[r].val \in Vals \cup {None}
      <4>1. PICK D \in (SUBSET Refs) \ {{}} :
              P \in [D -> [val : Vals \cup {None}, exp : Vals \cup {None, Always}]]
        BY <2>1, StackAssumption
      <4> QED BY <4>1
    <3>4. r \in DOMAIN P => P[r].val # NoRecord BY <3>3, StackAssumption
    <3> QED BY <3>1, <3>2, <3>4 DEF Applied
  <2>6. ViewIn(body, Append(list, own)) = Applied(P, m)
    <3>1. Applied(P, m) = [r \in Refs |-> Applied(P, m)[r]] BY DEF Applied
    <3> HIDE DEF m, own, P
    <3> QED BY <2>4, <2>5, <3>1
  <2> QED BY <1>4, <2>1, <2>2, <2>6
<1>5. CASE Compacting(p)
  <2> DEFINE n == Len(me[p].seg)
             new == IF body[own].recs = NoRecords THEN <<>> ELSE <<own>>
             z == me[p].seg[1] = me[p].names[1]
  <2>1. PICK i \in 1 .. (Len(list) - n + 1) :
          SubSeq(list, i, i + n - 1) = me[p].seg /\ me[p].next = Spliced(list, i, n, new)
    BY <1>1, <1>5 DEF NextOK
  <2>2. new \in TableSeq /\ Len(new) \in {0, 1} /\ (Len(new) = 1 => new[1] = own)
        /\ (Len(new) = 0 => body[own].recs = NoRecords)
    <3>1. <<>> \in TableSeq /\ Len(<<>>) = 0 BY DEF TableSeq
    <3>2. <<own>> \in TableSeq /\ Len(<<own>>) = 1 /\ <<own>>[1] = own BY <1>2 DEF TableSeq
    <3> QED BY <3>1, <3>2
  <2>3. n \in Nat \ {0} /\ me[p].seg \in TableSeq BY <1>1, <1>5 DEF Compacting, MeTypes, TableSeq
  <2>4. body[own].recs = MergedIn(body, me[p].seg, z) /\ (z => list[1] = me[p].seg[1])
    BY <1>3, <1>5 DEF MergeFits, MergedLabels
  <2>5. z \in BOOLEAN OBVIOUS
  <2> HIDE DEF new, n, own, z
  <2>6. Len(me[p].seg) = n BY DEF n
  <2>7. PartAt(list, i, me[p].seg) BY <1>1, <2>1, <2>3, <2>6, FoundPart
  <2>8. /\ me[p].next \in TableSeq /\ SplitAt(me[p].next, list, i, n, Len(new), own)
        /\ i \in Nat /\ 1 <= i /\ i + n - 1 <= Len(list)
    BY <1>1, <2>1, <2>2, <2>3, SplitShape
  <2>9. z => i = 1
    <3> SUFFICES ASSUME z PROVE i = 1 OBVIOUS
    <3>1. 1 \in 1 .. Len(me[p].seg) /\ i + 1 - 1 = i BY <2>3, <2>6, <2>8
    <3>2. list[1] = list[i] BY <3>1, <2>4, <2>7 DEF PartAt
    <3>3. i \in 1 .. Len(list) /\ 1 \in 1 .. Len(list) BY <1>1, <2>3, <2>8 DEF TableSeq
    <3>4. 1 < i => body[list[1]].index < body[list[i]].index BY <3>3 DEF StackIndInv, ListOK
    <3>5. list[i] \in Tables BY <3>3, <1>1 DEF TableSeq
    <3>6. body[list[i]].index \in Nat BY <3>5, IndexType DEF StackIndInv, DiskTypes
    <3>7. ~(1 < i) BY <3>2, <3>4, <3>6
    <3> QED BY <3>7, <2>8
  <2>10. ViewIn(body, me[p].next) = ViewIn(body, list)
    <3> DEFINE c == me[p].next
               seg == me[p].seg
               d == Len(new)
    <3>1. /\ c \in TableSeq /\ seg \in TableSeq /\ d \in {0, 1} /\ SplitAt(c, list, i, n, d, own)
          /\ Len(seg) = n /\ PartAt(list, i, seg) /\ body[own].recs = MergedIn(body, seg, z)
          /\ (d = 0 => body[own].recs = NoRecords)
      BY <2>2, <2>3, <2>4, <2>6, <2>7, <2>8
    <3>2. i \in Nat /\ n \in Nat \ {0} /\ 1 <= i /\ i + n - 1 <= Len(list) BY <2>3, <2>8
    <3> HIDE DEF c, seg, d
    <3>3. ViewIn(body, c) = ViewIn(body, list) BY <1>1, <2>5, <2>9, <3>1, <3>2, ViewSpliced
    <3> QED BY <3>3 DEF c
  <2> QED BY <1>5, <2>10
<1> QED BY <1>4, <1>5

(* The stacks to start from have no name that is a directory of another. *)
LEMMA TransInitOK == Init => TransInv
<1> SUFFICES ASSUME Init PROVE TransInv OBVIOUS
<1>1. PICK s \in Stacks :
        /\ list = [i \in DOMAIN s |-> i]
        /\ body = [t \in Tables |->
                    IF t \in DOMAIN s THEN [recs |-> s[t], index |-> t]
                    ELSE [recs |-> NoRecords, index |-> 0]]
  BY DEF Init
<1>2. me = [p \in Procs |-> Idle] BY DEF Init
<1>3. Len(s) \in Nat /\ DOMAIN s = 1 .. Len(s) /\ Len(s) <= MaxTables /\ MaxTables \in Nat
      /\ \A i \in 1 .. Len(s) : s[i] \in Records
  BY StackAssumption
<1>4. list \in TableSeq BY StackInit DEF StackIndInv, DiskTypes
<1>5. Len(list) = Len(s) /\ \A i \in 1 .. Len(s) : list[i] = i
  <2>1. DOMAIN list = 1 .. Len(s) BY <1>1, <1>3
  <2>2. DOMAIN list = 1 .. Len(list) /\ Len(list) \in Nat BY <1>4 DEF TableSeq
  <2>3. Len(list) = Len(s) BY <2>1, <2>2, <1>3
  <2> QED BY <2>3, <1>1, <1>3
<1>6. ASSUME NEW r \in Refs, NEW i \in 1 .. Len(s) PROVE Rec(body, list[i], r) = s[i][r]
  <2>1. i \in Tables /\ i \in DOMAIN s /\ list[i] = i BY <1>3, <1>5 DEF Tables
  <2>2. body[i] = [recs |-> s[i], index |-> i] BY <2>1, <1>1
  <2> QED BY <2>1, <2>2 DEF Rec
<1>7. ASSUME NEW r \in Refs, ViewIn(body, list)[r] # None PROVE Holds(s, r)
  <2>1. NewestIn(body, list, r) # NoRecord /\ NewestIn(body, list, r) # None BY <1>7 DEF ViewIn
  <2>2. ~QuietAfter(body, list, r, 0) BY <2>1, <1>4, NewestNone
  <2>3. PICK k \in 1 .. Len(list) : Rec(body, list[k], r) # NoRecord /\ QuietAfter(body, list, r, k)
    BY <2>2, <1>4, NewestCases
  <2>4. NewestIn(body, list, r) = Rec(body, list[k], r) BY <2>3, <1>4, NewestAt
  <2>5. k \in 1 .. Len(s) BY <2>3, <1>5
  <2>6. Rec(body, list[k], r) = s[k][r] BY <2>5, <1>6
  <2>7. s[k][r] \in Vals \cup {None, NoRecord} BY <2>5, <1>3 DEF Records
  <2>8. s[k][r] \in Vals BY <2>1, <2>4, <2>6, <2>7
  <2>9. ASSUME NEW j \in DOMAIN s, j > k PROVE s[j][r] = NoRecord
    <3>1. j \in 1 .. Len(s) /\ j \in 1 .. Len(list) BY <1>3, <1>5
    <3>2. Rec(body, list[j], r) = NoRecord BY <3>1, <2>3, <2>9 DEF QuietAfter
    <3> QED BY <3>1, <3>2, <1>6
  <2> QED BY <2>5, <2>8, <2>9, <1>3 DEF Holds
<1>8. Coherent(ViewIn(body, list))
  <2> SUFFICES ASSUME NEW c \in Clashing
               PROVE  ViewIn(body, list)[c[1]] = None \/ ViewIn(body, list)[c[2]] = None
    BY DEF Coherent
  <2>1. c[1] \in Refs /\ c[2] \in Refs BY StackAssumption
  <2>2. ~Holds(s, c[1]) \/ ~Holds(s, c[2]) BY StackAssumption
  <2> QED BY <2>1, <2>2, <1>7
<1>9. ASSUME NEW p \in Procs PROVE Fits(p)
  <2>1. me[p].pc = "idle" /\ me[p].plan = NoPlan BY <1>2 DEF Idle
  <2> QED BY <2>1 DEF Fits, UpdateFits, MergeFits, MergedLabels
<1> QED BY <1>8, <1>9 DEF TransInv

(* A commit replaces the list by the one it was to write, and nothing else. *)
LEMMA CommitChanges ==
  ASSUME StackIndInv, NEW p \in Procs, CommitListBody(p)
  PROVE  /\ me[p].pc = "commit" /\ list' = me[p].next /\ body' = body
         /\ me'[p].plan = NoPlan /\ \A q \in Procs \ {p} : me'[q] = me[q]
<1>1. /\ DOMAIN me = Procs /\ DOMAIN me[p] = MeFields /\ me[p].pc = "commit" /\ body' = body
      /\ lockFile = me[p].next /\ me[p].next \in TableSeq
  BY MeShape DEF CommitListBody, At, PlaceOK, MeTypes
<1>2. lockFile # NoFile
  <2>1. me[p].pc \in Holding BY <1>1, LabelSets
  <2> QED BY <2>1 DEF StackIndInv, ListLockExclusive
<1>3. /\ list' = lockFile
      /\ me' = [me EXCEPT ![p].pc = IF Compacting(p) THEN "unlink" ELSE "invalidate",
                          ![p].plan = NoPlan, ![p].next = <<>>, ![p].left = me[p].seg]
  BY <1>2 DEF CommitListBody
<1>4. me'[p].plan = NoPlan /\ \A q \in Procs \ {p} : me'[q] = me[q] BY <1>1, <1>3 DEF MeFields
<1> QED BY <1>1, <1>3, <1>4

(* A fault moves nothing on disk; a call goes on, or goes by nothing more, and *)
(* its transaction is open still or dropped. *)
LEMMA FaultTrans ==
  ASSUME StackIndInv, Fault
  PROVE  /\ list' = list /\ body' = body /\ DOMAIN me' = Procs
         /\ \A q \in Procs : \/ me'[q] = me[q]
                             \/ me'[q] = Idle
                             \/ me'[q].pc \notin FitLabels /\ me'[q].plan = me[q].plan
<1>1. CASE \E p \in Procs : Fail(p)
  <2>1. PICK p \in Procs : Fail(p) BY <1>1
  <2>2. DOMAIN me = Procs /\ DOMAIN me[p] = MeFields BY MeShape
  <2>3. list' = list /\ body' = body BY <2>1 DEF Fail, disk
  <2>4. \/ me' = [me EXCEPT ![p].pc = "unlock", ![p].threw = TRUE]
        \/ me' = [me EXCEPT ![p].pc = "unlock", ![p].threw = TRUE, ![p].seg = <<>>]
        \/ me' = [me EXCEPT ![p].pc = "free", ![p].threw = TRUE]
        \/ Return(p)
    BY <2>1 DEF Fail, Return
  <2>5. CASE Return(p) BY <2>5, <2>2, <2>3 DEF Return
  <2>6. CASE ~Return(p)
    <3>1. me'[p].pc \in {"unlock", "free"} /\ me'[p].plan = me[p].plan BY <2>2, <2>4, <2>6 DEF MeFields
    <3>2. DOMAIN me' = Procs /\ \A q \in Procs \ {p} : me'[q] = me[q] BY <2>2, <2>4, <2>6
    <3> QED BY <3>1, <3>2, <2>3 DEF FitLabels
  <2> QED BY <2>5, <2>6
<1>2. CASE \E s \in Sessions : Crash(s)
  <2>1. PICK s \in Sessions : Crash(s) BY <1>2
  <2> QED BY <2>1 DEF Crash, disk
<1> QED BY <1>1, <1>2 DEF Fault

(* No step undoes what an open transaction or merge was checked against. *)
LEMMA TransStep == StackIndInv /\ TransInv /\ [Next]_vars => TransInv'
<1> SUFFICES ASSUME StackIndInv, TransInv, [Next]_vars PROVE TransInv' OBVIOUS
<1>0. ViewIn(body', list) = ViewIn(body, list) /\ Coherent(ViewIn(body, list))
  <2>1. ViewIn(body', list) = ViewIn(body, list) BY MapsStay
  <2>2. Coherent(ViewIn(body, list)) BY Zenon DEF TransInv
  <2> QED BY <2>1, <2>2
<1>1. CASE Next /\ \E p \in Procs : (Begin(p) \/ Work(p)) /\ UNCHANGED <<use, faults>>
  <2>1. PICK p \in Procs : (Begin(p) \/ Work(p)) /\ UNCHANGED <<use, faults>> BY <1>1
  <2>2. StepOK(p) /\ Fits(p) BY <2>1, WorkOK DEF TransInv
  <2>3. list' = list \/ CommitListBody(p) BY <2>1, ListKept
  <2>4. CommitListBody(p) => me[p].pc = "commit" /\ list' = me[p].next /\ body' = body BY CommitChanges
  <2>5. \A q \in Procs \ {p} : Fits(q)' BY <1>1, <2>2, <2>3, <2>4, RelyFits
  <2>6. Fits(p)'
    <3>1. CASE FitSteps(p)
      BY <1>1, <2>2, <3>1, PrepareFits, WriteTempFits, MergeSegmentFits, PlanFits, BetweenFits, Zenon
      DEF FitSteps
    <3>2. CASE ~FitSteps(p) BY <2>1, <3>2, RestSteps, QuietFits
    <3> QED BY <3>1, <3>2
  <2>7. Coherent(ViewIn(body', list'))
    <3>1. CASE list' = list BY <3>1, <1>0
    <3>2. CASE CommitListBody(p)
      <4>1. me[p].pc = "commit" /\ list' = me[p].next /\ body' = body BY <3>2, <2>4
      <4>2. CASE Compacting(p) BY <4>1, <4>2, <1>0, CommitMap
      <4>3. CASE ~Compacting(p)
        <5> DEFINE m == ViewIn(body, list)
        <5>1. /\ me[p].plan \in Plans /\ Verified(me[p].plan, m) /\ NamesAvailable(me[p].plan, m)
              /\ ViewIn(body, me[p].next) = Applied(me[p].plan, m)
          BY <4>1, <4>3, CommitMap
        <5> HIDE DEF m
        <5>2. Coherent(Applied(me[p].plan, m)) BY <5>1, <1>0, AppliedCoherent DEF m
        <5> QED BY <4>1, <5>1, <5>2
      <4> QED BY <4>2, <4>3
    <3> QED BY <3>1, <3>2, <2>3
  <2> QED BY <2>5, <2>6, <2>7, Zenon DEF TransInv, Coherent, ViewIn, NewestIn
<1>2. CASE Fault
  <2>1. /\ list' = list /\ body' = body
        /\ \A q \in Procs : me'[q] = me[q] \/ me'[q] = Idle \/ me'[q].pc \notin FitLabels
    BY <1>2, FaultTrans
  <2>2. ASSUME NEW q \in Procs PROVE Fits(q)'
    <3>1. CASE me'[q] = me[q] 
      <4>1. Fits(q) /\ Compacting(q)' = Compacting(q) /\ OwnTable(q)' = OwnTable(q)
        BY <3>1 DEF TransInv, Compacting, OwnTable
      <4> QED BY <3>1, <4>1, <2>1 DEF Fits, UpdateFits, MergeFits
    <3>2. CASE ~(me'[q] = me[q]) BY <3>2, <2>1, QuietFits
    <3> QED BY <3>1, <3>2
  <2>3. Coherent(ViewIn(body', list')) BY <1>0, <2>1
  <2> QED BY <2>2, <2>3, Zenon DEF TransInv, Coherent, ViewIn, NewestIn
<1>3. CASE UNCHANGED vars
  <2>1. list' = list /\ body' = body /\ me' = me BY <1>3 DEF vars, disk
  <2>2. ASSUME NEW q \in Procs PROVE Fits(q)'
    <3>1. Fits(q) /\ Compacting(q)' = Compacting(q) /\ OwnTable(q)' = OwnTable(q)
      BY <2>1 DEF TransInv, Compacting, OwnTable
    <3> QED BY <3>1, <2>1 DEF Fits, UpdateFits, MergeFits
  <2>3. Coherent(ViewIn(body', list')) BY <1>0, <2>1
  <2> QED BY <2>2, <2>3, Zenon DEF TransInv, Coherent, ViewIn, NewestIn
<1> QED BY <1>1, <1>2, <1>3 DEF Next

------------------------------
(* The refinement of RefTransactions: the map is the abstract state, the plans *)
(* of the calls under way are the transactions still open. *)

AbsRefs == View(list)
AbsWant == [p \in Procs |-> me[p].plan]

(* The transactions open before and after a step that is one caller's. *)
LEMMA OthersWant ==
  ASSUME NEW p \in Procs, \A q \in Procs \ {p} : me'[q] = me[q]
  PROVE  AbsWant' = [AbsWant EXCEPT ![p] = me'[p].plan]
BY DEF AbsWant

(* Every step of the stack is a step of the abstract map, or changes nothing *)
(* of it. *)
LEMMA AbstractStep ==
  ASSUME StackIndInv, TransInv, [Next]_vars
  PROVE  [Abstract!TransNext \/ \E S \in SUBSET Procs : Abstract!Abandon(S)]_(Abstract!transVars)
<1>1. AbsRefs = ViewIn(body, list) /\ AbsRefs' = ViewIn(body', list') BY ViewIs, ViewAfter DEF AbsRefs
<1>2. list' = list => AbsRefs' = AbsRefs BY <1>1, MapsStay
<1>3. ASSUME NEW p \in Procs, \A q \in Procs \ {p} : me'[q] = me[q], me'[p].plan \in {me[p].plan, NoPlan},
             AbsRefs' = AbsRefs
      PROVE  Abstract!Drop(p) \/ UNCHANGED (Abstract!transVars)
  <2>1. AbsWant' = [AbsWant EXCEPT ![p] = me'[p].plan] BY <1>3, OthersWant
  <2>2. CASE me'[p].plan = NoPlan
    <3>1. AbsWant' = [AbsWant EXCEPT ![p] = NoPlan] BY <2>1, <2>2
    <3> QED BY <3>1, <1>3 DEF Abstract!Drop, AbsWant, AbsRefs
  <2>3. CASE me'[p].plan = me[p].plan
    <3>1. AbsWant' = AbsWant BY <2>1, <2>3 DEF AbsWant
    <3> QED BY <3>1, <1>3 DEF Abstract!transVars, AbsWant, AbsRefs
  <2> QED BY <1>3, <2>2, <2>3
<1>4. CASE \E p \in Procs : (Begin(p) \/ Work(p)) /\ UNCHANGED <<use, faults>>
  <2>1. PICK p \in Procs : (Begin(p) \/ Work(p)) /\ UNCHANGED <<use, faults>> BY <1>4
  <2>2. StepOK(p) /\ Fits(p) BY <2>1, WorkOK DEF TransInv
  <2>3. \A q \in Procs \ {p} : me'[q] = me[q] BY <2>2 DEF StepOK, Guarantee, OthersStay
  <2>4. AbsWant' = [AbsWant EXCEPT ![p] = me'[p].plan] BY <2>3, OthersWant
  <2>5. CASE BeginUpdate(p)
    <3>1. DOMAIN me = Procs BY MeShape
    <3>2. PICK P \in Plans :
            me' = [me EXCEPT ![p] = [Idle EXCEPT !.pc = "lockWrite", !.op = "update",
                                                 !.plan = P, !.id = issued + 1]]
      BY <2>5 DEF BeginUpdate
    <3>3. me'[p].plan = P BY <3>1, <3>2 DEF Idle
    <3>4. me[p].plan = NoPlan BY <2>2, <2>5 DEF Fits, UpdateFits, BeginUpdate, At
    <3>5. AbsWant[p] = NoPlan /\ AbsWant' = [AbsWant EXCEPT ![p] = P] BY <2>4, <3>3, <3>4 DEF AbsWant
    <3>6. AbsRefs' = AbsRefs BY <1>2, <2>5 DEF BeginUpdate, disk
    <3>7. Abstract!Ask(p) BY <3>5, <3>6 DEF Abstract!Ask, AbsWant, AbsRefs
    <3> QED BY <3>7 DEF Abstract!TransNext
  <2>6. CASE CommitListBody(p) /\ ~Compacting(p)
    <3>1. /\ me[p].pc = "commit" /\ list' = me[p].next /\ body' = body /\ me'[p].plan = NoPlan
      BY <2>6, CommitChanges
    <3>2. /\ me[p].plan \in Plans /\ Verified(me[p].plan, AbsRefs)
          /\ NamesAvailable(me[p].plan, AbsRefs)
          /\ AbsRefs' = Applied(me[p].plan, AbsRefs)
      BY <1>1, <2>6, <3>1, CommitMap
    <3>3. Coherent(AbsRefs) BY <1>1 DEF TransInv
    <3>4. Coherent(Applied(me[p].plan, AbsRefs)) BY <3>2, <3>3, AppliedCoherent
    <3>5. AbsWant[p] = me[p].plan /\ me[p].plan # NoPlan BY <3>2, StackAssumption DEF AbsWant
    <3>6. AbsWant' = [AbsWant EXCEPT ![p] = NoPlan] BY <2>4, <3>1
    <3>7. Abstract!Expected(AbsWant[p], AbsRefs) BY <3>2, <3>5 DEF Abstract!Expected, Verified
    <3>8. AbsRefs' = Abstract!Applied(AbsWant[p], AbsRefs) BY <3>2, <3>5 DEF Abstract!Applied, Applied
    <3>9. Abstract!Coherent(AbsRefs') BY <3>2, <3>4 DEF Abstract!Coherent, Coherent
    <3>10. Abstract!Commit(p) BY <3>5, <3>6, <3>7, <3>8, <3>9 DEF Abstract!Commit, AbsWant, AbsRefs
    <3> QED BY <3>10 DEF Abstract!TransNext
  <2>7. CASE ~BeginUpdate(p) /\ ~(CommitListBody(p) /\ ~Compacting(p))
    <3>1. me'[p].plan \in {me[p].plan, NoPlan} BY <2>1, <2>7, FitPlans, RestSteps
    <3>2. AbsRefs' = AbsRefs
      <4>1. CASE CommitListBody(p)
        <5>1. me[p].pc = "commit" /\ list' = me[p].next /\ body' = body BY <4>1, CommitChanges
        <5> QED BY <1>1, <2>7, <4>1, <5>1, CommitMap
      <4>2. CASE ~CommitListBody(p) BY <2>1, <4>2, <1>2, ListKept
      <4> QED BY <4>1, <4>2
    <3>3. Abstract!Drop(p) \/ UNCHANGED (Abstract!transVars) BY <1>3, <2>3, <3>1, <3>2
    <3> QED BY <3>3 DEF Abstract!TransNext
  <2> QED BY <2>5, <2>6, <2>7
<1>5. CASE Fault
  <2>1. list' = list /\ \A q \in Procs : me'[q].plan \in {me[q].plan, NoPlan}
    <3>1. Idle.plan = NoPlan BY DEF Idle
    <3> QED BY <1>5, <3>1, FaultTrans
  <2>2. PICK S \in SUBSET Procs : \A q \in Procs : q \in S <=> me'[q].plan = NoPlan
    <3>1. {q \in Procs : me'[q].plan = NoPlan} \in SUBSET Procs OBVIOUS
    <3> QED BY <3>1
  <2>3. AbsWant' = [q \in Procs |-> IF q \in S THEN NoPlan ELSE AbsWant[q]] BY <2>1, <2>2 DEF AbsWant
  <2>4. Abstract!Abandon(S) BY <1>2, <2>1, <2>3 DEF Abstract!Abandon, AbsWant, AbsRefs
  <2>5. \E T \in SUBSET Procs : Abstract!Abandon(T) BY <2>4, Zenon
  <2> QED BY <2>5, Zenon
<1>6. CASE UNCHANGED vars
  <2>1. list' = list /\ me' = me BY <1>6 DEF vars, disk
  <2>2. AbsRefs' = AbsRefs /\ AbsWant' = AbsWant BY <1>2, <2>1 DEF AbsWant
  <2> QED BY <2>2 DEF Abstract!transVars, AbsWant, AbsRefs
<1> QED BY <1>4, <1>5, <1>6 DEF Next

(* It starts with no transaction open and no name a directory of another. *)
LEMMA AbstractInit ==
  ASSUME Init
  PROVE  Abstract!TransInit
<1>1. Coherent(AbsRefs) BY TransInitOK, ViewIs DEF TransInv, AbsRefs
<1>2. Abstract!Coherent(AbsRefs) BY <1>1 DEF Abstract!Coherent, Coherent
<1>3. AbsWant = [p \in Procs |-> NoPlan] BY DEF Init, Idle, AbsWant
<1> QED BY <1>2, <1>3 DEF Abstract!TransInit, AbsRefs, AbsWant

(* The reftable stack implements RefTransactions, for any callers, names, *)
(* transactions, compactions, sweeps and crashes: a transaction is made whole *)
(* at the rename of tables.list.lock, where every value it requires is the *)
(* current one and no name becomes a directory of another, or it is not made; *)
(* compaction and packRefs change no ref. *)
THEOREM TransactionsRefined == Spec => RefinesTransactions
<1>1. Init => Abstract!TransInit BY AbstractInit
<1>2. StackIndInv /\ TransInv /\ [Next]_vars =>
        [Abstract!TransNext \/ \E S \in SUBSET Procs : Abstract!Abandon(S)]_(Abstract!transVars)
  BY AbstractStep
<1>3. Spec => []StackIndInv BY StackSound
<1>4. Init => TransInv BY TransInitOK
<1>5. StackIndInv /\ TransInv /\ [Next]_vars => TransInv' BY TransStep
<1> QED BY <1>1, <1>2, <1>3, <1>4, <1>5, PTL DEF Spec, RefinesTransactions, Abstract!TransSpec

=============================================================================
