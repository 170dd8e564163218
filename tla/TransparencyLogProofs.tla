------------------------- MODULE TransparencyLogProofs -------------------------
(***************************************************************************)
(* The transparency log is one sequence, the statements of a scan are one  *)
(* chain and every head that was signed is a head of this log, for every   *)
(* number of processes, scans and records, every interval, and with or     *)
(* without the advisory lock.                                              *)
(*                                                                         *)
(* What makes it so: an index that append computed is never ahead of the   *)
(* log; the log as flush read it is a prefix of the log as it stands; and  *)
(* a row is the predecessor of later rows only.  For that the hash of the  *)
(* tree is opaque.  What the tree itself is, its head, its audit paths and *)
(* their verification, is proved of every sequence of leaves.              *)
(***************************************************************************)
EXTENDS TransparencyLog, FiniteSetTheorems, WellFoundedInduction, TLAPS

Size == Cardinality(leaf)

\* The leaves are the indexes from 0 on, one each, and one for each record.
LeavesOK ==
  /\ {l.index : l \in leaf} = 0 .. Size - 1
  /\ \A k, l \in leaf : k.index = l.index => k = l
  /\ \A k, l \in leaf : k.record = l.record => k = l

\* A statement follows an earlier row, and its status is what followed it.
RowOK(r) ==
  /\ record[r].previous < r
  /\ record[r].type = "EVENT" => record[r].previous = 0
  /\ record[r].type # "EVENT" =>
       /\ \A k \in Rows : record[r].previous # 0 /\ record[k].previous = record[r].previous => k = r
       /\ IF HasSuccessor(r)
          THEN \E k \in Rows : record[k].previous = r /\ record[r].status = StatusBy(record[k].type)
          ELSE record[r].status = "ACTIVE"

\* What a process remembers of the log is still true of it, as far as it goes.
ActOK(a) ==
  /\ a.at \in {"status", "append", "insert"} => a.record \in Rows
  /\ a.at = "status" => record[a.record].type # "EVENT"
  /\ a.at = "insert" => a.next <= Size
  /\ a.at = "flush" => Len(a.seen) \in 1 .. Size /\ \A i \in 1 .. Len(a.seen) : a.seen[i] = Log[i]

HeadOK(h) == h.size \in 1 .. Size /\ h.root = RootAt(Log, h.size)

\* A checkpoint, its head and its job have the columns they have.
Shaped ==
  /\ \A c \in ckpt : c = [head |-> c.head, external |-> c.external]
  /\ \A h \in Heads : h = [size |-> h.size, root |-> h.root]
  /\ \A j \in job : j = [head |-> j.head, state |-> j.state]

ReceiptOK(c) ==
  /\ c.external \subseteq {c.head}
  /\ c.external # {} => [head |-> c.head, state |-> "CONFIRMED"] \in job

TypesInv == LogTypeOK /\ history \in Nat /\ Shaped

LogInv ==
  /\ LeavesOK
  /\ \A p \in Process : ActOK(proc[p])
  /\ \A h \in Heads : HeadOK(h)
  /\ \A c \in ckpt : ReceiptOK(c)

LineageInv == \A r \in Rows : RowOK(r)

--------------------------------------------------------------------------------
(* The order of the log. *)

\* Leaves that are numbered from 0 on come in the order of their numbers.
LEMMA InOrderIs ==
  ASSUME NEW N \in SUBSET Nat, NEW rows \in SUBSET [index : Nat, record : N], IsFiniteSet(rows),
         {l.index : l \in rows} = 0 .. Cardinality(rows) - 1,
         \A k, l \in rows : k.index = l.index => k = l
  PROVE  /\ Cardinality(rows) \in Nat
         /\ DOMAIN InOrder(rows) = 1 .. Cardinality(rows)
         /\ Len(InOrder(rows)) = Cardinality(rows)
         /\ \A l \in rows : InOrder(rows)[l.index + 1] = l.record
         /\ InOrder(rows) \in Seq(N)
<1> DEFINE n == Cardinality(rows)
           Rank(l) == Cardinality({k \in rows : Before(k, l)})
<1>1. n \in Nat
  BY FS_CardinalityType
<1>1a. \A l \in rows : l.index \in 0 .. n - 1 /\ l.index \in Nat /\ l.record \in N /\ l.record \in Nat
  OBVIOUS
<1>1b. \A i \in 0 .. n - 1 : \E l \in rows : l.index = i
  <2>1. \A i \in {l.index : l \in rows} : \E l \in rows : l.index = i
    OBVIOUS
  <2>. QED  BY <2>1
<1>2. ASSUME NEW l \in rows PROVE Rank(l) = l.index
  <2> DEFINE S == {k \in rows : Before(k, l)}
             T == 0 .. l.index - 1
             f == [k \in S |-> k.index]
  <2>2. \A k \in rows : Before(k, l) <=> k.index < l.index
    <3> SUFFICES ASSUME NEW k \in rows PROVE Before(k, l) <=> k.index < l.index
      OBVIOUS
    <3>1. CASE k.index = l.index
      <4>1. k = l
        BY <3>1
      <4>2. \A m \in Nat : ~(m < m)
        OBVIOUS
      <4>3. ~(l.record < l.record) /\ ~(l.index < l.index)
        BY <1>1a, <4>2
      <4>. QED  BY <4>1, <4>3 DEF Before
    <3>2. CASE k.index # l.index
      BY <3>2 DEF Before
    <3>. QED  BY <3>1, <3>2
  <2>3. f \in [S -> T]
    BY <1>1a, <2>2
  <2>4. \A t \in T : \E k \in S : f[k] = t
    BY <1>1, <1>1a, <1>1b, <2>2
  <2>5. \A k, m \in S : f[k] = f[m] => k = m
    OBVIOUS
  <2>6. IsFiniteSet(T) /\ Cardinality(T) = l.index
    <3>0. 0 \in Int /\ l.index - 1 \in Int
      BY <1>1a
    <3>1. /\ IsFiniteSet(0 .. l.index - 1)
          /\ Cardinality(0 .. l.index - 1) = IF 0 > l.index - 1 THEN 0 ELSE l.index - 1 - 0 + 1
      BY <3>0, FS_Interval
    <3>. QED  BY <1>1a, <3>1
  <2>7. IsFiniteSet(S)
    BY FS_Subset
  <2> HIDE DEF S, T, f
  <2>8. f \in Bijection(S, T)
    BY <2>3, <2>4, <2>5 DEF Bijection, Injection, Surjection, IsInjective
  <2>9. Cardinality(T) = Cardinality(S)
    BY <2>7, <2>8, FS_Bijection DEF ExistsBijection
  <2>. QED  BY <2>6, <2>9 DEF S
<1> HIDE DEF Rank
<1>3. ASSUME NEW l \in rows
      PROVE  (CHOOSE k \in rows : Rank(k) = l.index + 1 - 1) = l
  <2>1. \A k \in rows : Rank(k) = l.index + 1 - 1 <=> k = l
    BY <1>1a, <1>2
  <2>. QED  BY <2>1
<1>4. InOrder(rows) = [i \in 1 .. n |-> (CHOOSE k \in rows : Rank(k) = i - 1).record]
  BY DEF InOrder, Rank
<1>5. ASSUME NEW l \in rows PROVE InOrder(rows)[l.index + 1] = l.record
  BY <1>1, <1>1a, <1>3, <1>4
<1>6. \A i \in 1 .. n : InOrder(rows)[i] \in N
  <2> SUFFICES ASSUME NEW i \in 1 .. n PROVE InOrder(rows)[i] \in N
    OBVIOUS
  <2>1. PICK l \in rows : l.index = i - 1
    BY <1>1, <1>1b
  <2>. QED  BY <2>1, <1>1a, <1>5
<1>7. DOMAIN InOrder(rows) = 1 .. n
  BY <1>4
<1>8. InOrder(rows) \in [1 .. n -> N]
  BY <1>4, <1>6
<1>. QED  BY <1>1, <1>5, <1>7, <1>8

\* The smallest number of a set, and the greatest of a bounded one.
LEMMA MinIsThere ==
  ASSUME NEW S \in SUBSET Nat, S # {}
  PROVE  Min(S) \in S /\ \A y \in S : Min(S) <= y
<1>1. \E x \in S : \A y \in S : <<y, x>> \notin OpToRel(<, Nat)
  BY NatLessThanWellFounded, WFMin, Zenon
<1>2. \E x \in S : \A y \in S : ~(y < x)
  BY <1>1, Zenon DEF OpToRel
<1>3. \E x \in S : \A y \in S : x <= y
  BY <1>2
<1>. QED  BY <1>3 DEF Min

LEMMA MaxIsThere ==
  ASSUME NEW S \in SUBSET Nat, S # {}, NEW n \in Nat, \A x \in S : x <= n
  PROVE  Max(S) \in S
<1> DEFINE T == {n - x : x \in S}
<1>1. T \in SUBSET Nat /\ T # {}
  <2>1. \A x \in S : n - x \in Nat
    OBVIOUS
  <2>. QED  BY <2>1
<1>2. Min(T) \in T /\ \A y \in T : Min(T) <= y
  BY <1>1, MinIsThere
<1>3. PICK x \in S : Min(T) = n - x
  BY <1>2
<1>4. ASSUME NEW y \in S PROVE x >= y
  <2>1. n - y \in T
    OBVIOUS
  <2>2. n - x <= n - y
    BY <1>2, <1>3, <2>1
  <2>. QED  BY <2>2
<1>. QED  BY <1>4 DEF Max

\* A leaf with the next number goes to the end.
LEMMA InOrderGrows ==
  ASSUME NEW N \in SUBSET Nat, NEW rows \in SUBSET [index : Nat, record : N], IsFiniteSet(rows),
         {l.index : l \in rows} = 0 .. Cardinality(rows) - 1,
         \A k, l \in rows : k.index = l.index => k = l,
         NEW row \in [index : Nat, record : N], row.index = Cardinality(rows)
  PROVE  LET more == rows \cup {row}
             n == Cardinality(rows) IN
         /\ IsFiniteSet(more) /\ Cardinality(more) = n + 1 /\ n \in Nat
         /\ {l.index : l \in more} = 0 .. n
         /\ \A k, l \in more : k.index = l.index => k = l
         /\ Len(InOrder(more)) = n + 1
         /\ \A i \in 1 .. n : InOrder(more)[i] = InOrder(rows)[i]
         /\ InOrder(more) \in Seq(N)
<1> DEFINE more == rows \cup {row}
           n == Cardinality(rows)
<1>1. /\ n \in Nat /\ \A l \in rows : l.index \in 0 .. n - 1
      /\ \A i \in 0 .. n - 1 : \E l \in rows : l.index = i
  <2>1. \A i \in {l.index : l \in rows} : \E l \in rows : l.index = i
    OBVIOUS
  <2>. QED  BY <2>1, FS_CardinalityType
<1>2. IsFiniteSet(more) /\ Cardinality(more) = n + 1
  BY <1>1, FS_AddElement
<1>3. {l.index : l \in more} = 0 .. n /\ {l.index : l \in more} = 0 .. Cardinality(more) - 1
  <2>1. \A i \in 0 .. n : \E l \in more : l.index = i
    <3> SUFFICES ASSUME NEW i \in 0 .. n PROVE \E l \in more : l.index = i
      OBVIOUS
    <3>1. CASE i = n
      BY <3>1
    <3>2. CASE i \in 0 .. n - 1
      BY <3>2
    <3>. QED  BY <1>1, <3>1, <3>2
  <2>2. \A l \in more : l.index \in 0 .. n
    BY <1>1
  <2>. QED  BY <1>1, <1>2, <2>1, <2>2
<1>4. \A k, l \in more : k.index = l.index => k = l
  BY <1>1
<1>5. more \in SUBSET [index : Nat, record : N]
  OBVIOUS
<1>6. /\ Len(InOrder(more)) = n + 1 /\ InOrder(more) \in Seq(N)
      /\ \A l \in more : InOrder(more)[l.index + 1] = l.record
  <2> HIDE DEF more
  <2>. QED  BY <1>2, <1>3, <1>4, <1>5, InOrderIs
<1>7. \A l \in rows : InOrder(rows)[l.index + 1] = l.record
  BY InOrderIs
<1>8. ASSUME NEW i \in 1 .. n PROVE InOrder(more)[i] = InOrder(rows)[i]
  <2>1. PICK l \in rows : l.index = i - 1
    BY <1>1
  <2>2. l.index + 1 = i /\ l \in more
    BY <2>1
  <2>. QED  BY <1>6, <1>7, <2>2
<1>. QED  BY <1>1, <1>2, <1>3, <1>4, <1>6, <1>8

--------------------------------------------------------------------------------
(* The log as it starts, and as it is. *)

\* The order of the log, of any state in which the leaves are numbered.
LEMMA LogIs ==
  ASSUME LogTypeOK, LeavesOK
  PROVE  /\ Size \in Nat /\ Len(Log) = Size /\ Log \in Seq(Rows) /\ Log \in Seq(Nat)
         /\ \A l \in leaf : l.index \in 0 .. Size - 1 /\ Log[l.index + 1] = l.record
<1> DEFINE N == Rows
<1>1. /\ N \in SUBSET Nat /\ leaf \in SUBSET [index : Nat, record : N] /\ IsFiniteSet(leaf)
      /\ {l.index : l \in leaf} = 0 .. Cardinality(leaf) - 1
      /\ \A k, l \in leaf : k.index = l.index => k = l
  BY DEF LogTypeOK, LeavesOK, Rows, Size
<1> HIDE DEF N
<1>2. /\ Cardinality(leaf) \in Nat /\ Len(InOrder(leaf)) = Cardinality(leaf) /\ InOrder(leaf) \in Seq(N)
      /\ \A l \in leaf : InOrder(leaf)[l.index + 1] = l.record
  BY <1>1, InOrderIs
<1>3. \A l \in leaf : l.index \in 0 .. Cardinality(leaf) - 1
  BY <1>1
<1>4. InOrder(leaf) \in Seq(Nat)
  <2>0. \A i \in 1 .. Cardinality(leaf) : InOrder(leaf)[i] \in N
    BY <1>2
  <2>1. \A i \in 1 .. Cardinality(leaf) : InOrder(leaf)[i] \in Nat
    BY <1>1, <2>0
  <2>. QED  BY <1>2, <2>1
<1>. QED  BY <1>2, <1>3, <1>4 DEF Log, Size, N

\* Every root of the log that was computed is that of the log as far as both agree.
LEMMA RootIs ==
  ASSUME NEW a, NEW b, NEW n, \A i \in 1 .. n : a[i] = b[i]
  PROVE  RootAt(a, n) = RootAt(b, n)
<1>1. [i \in 1 .. n |-> LeafHash(a[i])] = [i \in 1 .. n |-> LeafHash(b[i])]
  OBVIOUS
<1>. QED  BY <1>1 DEF RootAt, Hashes

LEMMA InitLog ==
  ASSUME Init
  PROVE  TypesInv /\ LogInv /\ LineageInv
<1>1. PICK h \in Histories, s \in Scan :
        /\ record = [i \in 1 .. h |-> IF i = 1 THEN Result(s) ELSE Event]
        /\ leaf = {[index |-> i - 1, record |-> i] : i \in 1 .. h}
        /\ LET head == [size |-> h, root |-> RootAt([i \in 1 .. h |-> i], h)] IN
           /\ ckpt = IF h = 0 THEN {} ELSE {[head |-> head, external |-> {head}]}
           /\ job = IF h = 0 THEN {} ELSE {[head |-> head, state |-> "CONFIRMED"]}
        /\ proc = [p \in Process |-> Idle]
        /\ faults = 0
        /\ history = h
  BY DEF Init
<1> DEFINE log == [i \in 1 .. h |-> i]
           head == [size |-> h, root |-> RootAt(log, h)]
           l0(i) == [index |-> i - 1, record |-> i]
           f == [i \in 1 .. h |-> l0(i)]
<1>2. h \in Nat /\ DOMAIN record = 1 .. h /\ Len(record) = h
  BY <1>1, LogAssumption
<1>3. record \in Seq(Record)
  <2>1. \A i \in 1 .. h : record[i] \in Record
    BY <1>1 DEF Result, Event, Record, StatementStatus
  <2>2. record = [i \in 1 .. h |-> record[i]]
    BY <1>1
  <2>. QED  BY <1>2, <2>1, <2>2
<1>4. leaf \in SUBSET [index : Nat, record : Rows]
  BY <1>1, <1>2 DEF Rows
<1>5. IsFiniteSet(leaf) /\ Cardinality(leaf) = h
  <2>1. f \in Bijection(1 .. h, leaf)
    <3>1. f \in [1 .. h -> leaf]
      BY <1>1
    <3>2. \A l \in leaf : \E i \in 1 .. h : f[i] = l
      BY <1>1
    <3>3. \A i, k \in 1 .. h : f[i] = f[k] => i = k
      OBVIOUS
    <3> HIDE DEF f
    <3>. QED  BY <3>1, <3>2, <3>3 DEF Bijection, Injection, Surjection, IsInjective
  <2>2. 1 \in Int /\ h \in Int
    BY <1>2
  <2>3. IsFiniteSet(1 .. h) /\ Cardinality(1 .. h) = IF 1 > h THEN 0 ELSE h - 1 + 1
    BY <2>2, FS_Interval
  <2>4. Cardinality(1 .. h) = h
    BY <1>2, <2>3
  <2>. QED  BY <2>1, <2>3, <2>4, FS_Bijection DEF ExistsBijection
<1>6. LeavesOK
  <2>1. \A i \in 0 .. h - 1 : \E l \in leaf : l.index = i
    <3> SUFFICES ASSUME NEW i \in 0 .. h - 1 PROVE \E l \in leaf : l.index = i
      OBVIOUS
    <3>1. i + 1 \in 1 .. h /\ i + 1 - 1 = i
      BY <1>2
    <3>2. [index |-> i + 1 - 1, record |-> i + 1] \in leaf
      BY <1>1, <3>1
    <3>. QED  BY <3>1, <3>2
  <2>2. \A l \in leaf : l.index \in 0 .. h - 1
    BY <1>1, <1>2
  <2>3. {l.index : l \in leaf} = 0 .. h - 1
    BY <2>1, <2>2
  <2>4. \A l \in leaf : \E i \in 1 .. h : l = l0(i)
    BY <1>1
  <2>5. \A k, l \in leaf : k.index = l.index \/ k.record = l.record => k = l
    BY <2>4
  <2>. QED  BY <1>5, <2>3, <2>5 DEF LeavesOK, Size
<1>7. proc = [p \in Process |-> Idle] /\ Idle \in Activation /\ Idle.record = 0
  <2>1. <<>> \in Seq(Nat)
    OBVIOUS
  <2>. QED  BY <1>1, <2>1 DEF Idle, Activation, At
<1>8. /\ ckpt = IF h = 0 THEN {} ELSE {[head |-> head, external |-> {head}]}
      /\ job = IF h = 0 THEN {} ELSE {[head |-> head, state |-> "CONFIRMED"]}
  BY <1>1
<1>9. head.size = h /\ head.root = RootAt(log, h)
  OBVIOUS
<1> HIDE DEF head
<1>10. Heads \subseteq {head} /\ (h # 0 => Heads = {head}) /\ (h = 0 => Heads = {})
  <2>1. h = 0 => Heads = {}
    BY <1>8 DEF Heads
  <2>2. h # 0 => \A c \in ckpt : c.head = head
    BY <1>8
  <2>3. h # 0 => \E c \in ckpt : c.head = head
    BY <1>8
  <2>. QED  BY <2>1, <2>2, <2>3 DEF Heads
<1>11. LogTypeOK
  <2>1. \A c \in ckpt : c.head.size \in Nat \ {0} /\ c.external \subseteq Heads
    BY <1>2, <1>8, <1>9, <1>10
  <2>2. \A j \in job : j.head \in Heads /\ j.state \in {"OPEN", "CONFIRMED"}
    BY <1>8, <1>10
  <2>3. \A p \in Process : proc[p].record \in 0 .. Len(record)
    BY <1>2, <1>7
  <2>4. faults \in 0 .. MaxFaults
    BY <1>1, LogAssumption
  <2>. QED  BY <1>3, <1>4, <1>5, <1>7, <2>1, <2>2, <2>3, <2>4 DEF LogTypeOK
<1>12. Size = h /\ \A l \in leaf : l.index \in 0 .. h - 1 /\ Log[l.index + 1] = l.record
  BY <1>5, <1>6, <1>11, LogIs DEF Size
<1>13. \A i \in 1 .. h : Log[i] = log[i]
  <2> SUFFICES ASSUME NEW i \in 1 .. h PROVE Log[i] = i
    OBVIOUS
  <2>1. l0(i) \in leaf /\ l0(i).index + 1 = i /\ l0(i).record = i
    BY <1>1, <1>2
  <2> HIDE DEF l0
  <2>. QED  BY <1>12, <2>1
<1> HIDE DEF log
<1>14. RootAt(Log, h) = RootAt(log, h)
  BY <1>13, RootIs
<1>15. \A x \in Heads : HeadOK(x)
  BY <1>2, <1>9, <1>10, <1>12, <1>14 DEF HeadOK
<1>16. Shaped /\ \A c \in ckpt : ReceiptOK(c)
  BY <1>8, <1>10 DEF Shaped, ReceiptOK, head
<1>17. \A p \in Process : ActOK(proc[p])
  BY <1>7 DEF ActOK, Idle
<1>18. history \in Nat
  BY <1>1, <1>2
<1>19. LineageInv
  <2>1. \A r \in 1 .. h : record[r].previous = 0 /\ record[r].status = "ACTIVE"
    BY <1>1, <1>2 DEF Result, Event
  <2>. QED  BY <1>2, <2>1 DEF LineageInv, RowOK, Rows, HasSuccessor
<1>. QED
  BY <1>6, <1>11, <1>15, <1>16, <1>17, <1>18, <1>19 DEF TypesInv, LogInv

--------------------------------------------------------------------------------
(* The steps of a process that change nothing but what it works on. *)

LEMMA Moves ==
  ASSUME TypesInv, LogInv, NEW p \in Process, UNCHANGED <<record, leaf, ckpt, job, history>>,
         faults' \in 0 .. MaxFaults, NEW g \in Activation, ActOK(g), g.record \in 0 .. Len(record),
         proc' = [proc EXCEPT ![p] = g]
  PROVE  (TypesInv /\ LogInv)'
<1>1. Rows' = Rows /\ Heads' = Heads /\ Log' = Log /\ Size' = Size
  BY DEF Rows, Heads, Log, Size
<1>2. proc' \in [Process -> Activation] /\ \A q \in Process : proc'[q] = g \/ proc'[q] = proc[q]
  BY DEF TypesInv, LogTypeOK
<1>3. LogTypeOK'
  BY <1>1, <1>2 DEF TypesInv, LogTypeOK
<1>4. LeavesOK' /\ Shaped'
  BY <1>1 DEF TypesInv, LogInv, LeavesOK, Shaped
<1>5. (\A q \in Process : ActOK(proc[q]))'
  BY <1>1, <1>2 DEF LogInv, ActOK
<1>6. (\A h \in Heads : HeadOK(h))' /\ (\A c \in ckpt : ReceiptOK(c))'
  BY <1>1 DEF LogInv, HeadOK, ReceiptOK
<1>. QED  BY <1>3, <1>4, <1>5, <1>6 DEF TypesInv, LogInv

\* What a process does next with the checkpoint of its receipt.
LEMMA ContinueIs ==
  ASSUME NEW p \in Process, NEW sizes \in SUBSET Nat, NEW n \in Nat, \A x \in sizes : x <= n,
         Continue(p, sizes)
  PROVE  \E g \in Activation :
           g.at \in {"idle", "enqueue"} /\ g.record = 0 /\ proc' = [proc EXCEPT ![p] = g]
<1>1. Idle \in Activation /\ Idle.at = "idle" /\ Idle.record = 0
  BY DEF Idle, Activation, At
<1>2. CASE sizes = {}
  BY <1>1, <1>2 DEF Continue
<1>3. CASE sizes # {}
  <2> DEFINE g == [Idle EXCEPT !.at = "enqueue", !.size = Max(sizes)]
  <2>1. Max(sizes) \in Nat
    BY <1>3, MaxIsThere
  <2>2. g \in Activation /\ g.at = "enqueue" /\ g.record = 0
    BY <1>1, <2>1 DEF Activation, At
  <2>3. proc' = [proc EXCEPT ![p] = g]
    BY <1>3 DEF Continue
  <2>. QED  BY <2>2, <2>3
<1>. QED  BY <1>2, <1>3

LEMMA EnqueueOrIdle ==
  ASSUME NEW a, a.at \in {"idle", "enqueue"}
  PROVE  ActOK(a)
BY DEF ActOK

LEMMA SizesAreCovered ==
  ASSUME TypesInv, LogInv
  PROVE  Sizes \in SUBSET Nat /\ Size \in Nat /\ \A x \in Sizes : x <= Size
BY LogIs DEF TypesInv, LogInv, LogTypeOK, Sizes, Heads, HeadOK

LEMMA WorkSteps ==
  ASSUME TypesInv, LogInv, NEW p \in Process,
         \/ \E r \in Rows : ReadStatus(p, r)
         \/ AppendRead(p) \/ FlushRead(p) \/ ReconcileUnqueued(p) \/ Recover(p) \/ Fault(p)
  PROVE  (TypesInv /\ LogInv)'
<1>1. /\ UNCHANGED <<record, leaf, ckpt, job, history>> /\ faults' \in 0 .. MaxFaults
  <2>1. /\ UNCHANGED <<record, leaf, ckpt, job, history>>
        /\ faults' = faults \/ (faults < MaxFaults /\ faults' = faults + 1)
    BY DEF ReadStatus, AppendRead, FlushRead, ReconcileUnqueued, Recover, Fault
  <2>2. faults \in 0 .. MaxFaults /\ MaxFaults \in Nat
    BY LogAssumption DEF TypesInv, LogTypeOK
  <2>. QED  BY <2>1, <2>2
<1>2. /\ Rows = 1 .. Len(record) /\ Len(record) \in Nat /\ proc[p] \in Activation
      /\ proc[p].record \in 0 .. Len(record) /\ ActOK(proc[p])
      /\ \A r \in Rows : r \in Nat /\ r \in 0 .. Len(record)
  BY DEF TypesInv, LogInv, LogTypeOK, Rows
<1>3. Idle \in Activation /\ Idle.at = "idle" /\ Idle.record = 0
  BY DEF Idle, Activation, At
<1> DEFINE Goes(g) == proc' = [proc EXCEPT ![p] = g] => (TypesInv /\ LogInv)'
<1>4. \A g \in Activation : ActOK(g) /\ g.record \in 0 .. Len(record) => Goes(g)
  BY <1>1, Moves
<1>4a. 0 \in 0 .. Len(record)
  BY <1>2
<1> HIDE DEF Goes
<1>5. ASSUME NEW sizes \in SUBSET Nat, NEW n \in Nat, \A x \in sizes : x <= n, Continue(p, sizes)
      PROVE  (TypesInv /\ LogInv)'
  <2>1. PICK g \in Activation :
          g.at \in {"idle", "enqueue"} /\ g.record = 0 /\ proc' = [proc EXCEPT ![p] = g]
    BY <1>5, ContinueIs
  <2>2. Goes(g)
    BY <1>4, <1>4a, <2>1, EnqueueOrIdle
  <2>. QED  BY <2>1, <2>2 DEF Goes
<1>6. ASSUME NEW r \in Rows, ReadStatus(p, r) PROVE (TypesInv /\ LogInv)'
  <2> DEFINE g == [Idle EXCEPT !.at = "status", !.record = r]
  <2>0. r \in Nat
    BY <1>2
  <2>1. g \in Activation /\ g.at = "status" /\ g.record = r
    BY <2>0, <1>3 DEF Activation, At
  <2>2. record[r].type # "EVENT" /\ proc' = [proc EXCEPT ![p] = g]
    BY <1>6 DEF ReadStatus
  <2> HIDE DEF g
  <2>3. ActOK(g)
    BY <1>6, <2>1, <2>2 DEF ActOK
  <2>4. Goes(g)
    BY <1>2, <1>4, <2>1, <2>3
  <2>. QED  BY <2>2, <2>4 DEF Goes
<1>7. CASE AppendRead(p)
  <2>1. CASE Logged(proc[p].record)
    <3> DEFINE S == {n \in Sizes : \E l \in leaf : l.record = proc[p].record /\ l.index < n}
    <3>1. S \in SUBSET Nat /\ Size \in Nat /\ \A x \in S : x <= Size
      BY SizesAreCovered
    <3>2. Continue(p, S) \/ Continue(p, {})
      BY <1>7, <2>1 DEF AppendRead
    <3> HIDE DEF S
    <3>3. {} \in SUBSET Nat /\ \A x \in {} : x <= Size
      OBVIOUS
    <3>. QED  BY <1>5, <3>1, <3>2, <3>3
  <2>2. CASE ~Logged(proc[p].record)
    <3> DEFINE g == [proc[p] EXCEPT !.at = "insert", !.next = Cardinality(leaf)]
    <3>1. Size \in Nat /\ proc' = [proc EXCEPT ![p] = g] /\ proc[p].record \in Rows
      BY <1>2, <1>7, <2>2, SizesAreCovered DEF AppendRead, ActOK
    <3>2. g \in Activation /\ g.at = "insert" /\ g.record = proc[p].record /\ g.next = Size
      BY <1>2, <3>1 DEF Activation, At, Size
    <3> HIDE DEF g
    <3>3. ActOK(g)
      BY <3>1, <3>2 DEF ActOK
    <3>4. Goes(g)
      BY <1>2, <1>4, <3>2, <3>3
    <3>. QED  BY <3>1, <3>4 DEF Goes
  <2>. QED  BY <2>1, <2>2
<1>8. CASE FlushRead(p)
  <2> DEFINE g == [Idle EXCEPT !.at = "flush", !.seen = Log]
  <2>1. Log \in Seq(Nat) /\ Len(Log) = Size /\ Size \in Nat
    BY LogIs DEF TypesInv, LogInv
  <2>2. g \in Activation /\ g.at = "flush" /\ g.record = 0 /\ g.seen = Log
    BY <1>3, <2>1 DEF Activation, At
  <2>3. proc' = [proc EXCEPT ![p] = g] /\ Size # 0
    BY <1>8, FS_EmptySet DEF FlushRead, TypesInv, LogTypeOK, Size
  <2> HIDE DEF g
  <2>4. ActOK(g)
    BY <2>1, <2>2, <2>3 DEF ActOK
  <2>5. Goes(g)
    BY <1>4, <1>4a, <2>2, <2>4
  <2>. QED  BY <2>3, <2>5 DEF Goes
<1>9. CASE ReconcileUnqueued(p)
  <2> DEFINE missing == {h.size : h \in {h \in Heads : ~Queued(h)}}
  <2>1. missing \in SUBSET Nat
    BY DEF TypesInv, LogTypeOK, Heads
  <2>2. missing # {} /\ Continue(p, {Min(missing)})
    BY <1>9 DEF ReconcileUnqueued
  <2> HIDE DEF missing
  <2>3. Min(missing) \in Nat
    BY <2>1, <2>2, MinIsThere
  <2>. QED  BY <1>5, <2>2, <2>3
<1>10. CASE Recover(p)
  <2>1. PICK events \in BOOLEAN :
          LET lost == {r \in Rows : ~Logged(r) /\ (record[r].type = "EVENT") = events} IN
          /\ lost # {}
          /\ proc' = [proc EXCEPT ![p] = [Idle EXCEPT !.at = "append", !.record = Min(lost),
                                                      !.recovers = TRUE]]
    BY <1>10 DEF Recover
  <2> DEFINE lost == {r \in Rows : ~Logged(r) /\ (record[r].type = "EVENT") = events}
             g == [Idle EXCEPT !.at = "append", !.record = Min(lost), !.recovers = TRUE]
  <2>2. lost \in SUBSET Nat /\ lost \subseteq Rows /\ lost # {} /\ proc' = [proc EXCEPT ![p] = g]
    BY <1>2, <2>1
  <2> HIDE DEF lost
  <2>3. Min(lost) \in Rows /\ Min(lost) \in Nat
    BY <2>2, MinIsThere
  <2>4. g \in Activation /\ g.at = "append" /\ g.record = Min(lost)
    BY <1>3, <2>3 DEF Activation, At
  <2> HIDE DEF g
  <2>5. ActOK(g)
    BY <2>3, <2>4 DEF ActOK
  <2>6. Goes(g)
    BY <1>2, <1>4, <2>3, <2>4, <2>5
  <2>. QED  BY <2>2, <2>6 DEF Goes
<1>11. CASE Fault(p)
  <2>1. Goes(Idle)
    BY <1>3, <1>4, <1>4a, EnqueueOrIdle
  <2>. QED  BY <1>11, <2>1 DEF Fault, Goes
<1>. QED  BY <1>6, <1>7, <1>8, <1>9, <1>10, <1>11

--------------------------------------------------------------------------------
(* A record is committed. *)

LEMMA Commit ==
  ASSUME TypesInv, LogInv, NEW p \in Process, NEW rows \in Seq(Record), Len(rows) = Len(record) + 1,
         \A r \in Rows : rows[r].type = record[r].type,
         record' = rows, UNCHANGED <<leaf, ckpt, job, faults, history>>,
         proc' = [proc EXCEPT ![p] = [Idle EXCEPT !.at = "append", !.record = Len(record) + 1]]
  PROVE  (TypesInv /\ LogInv)'
<1> DEFINE g == [Idle EXCEPT !.at = "append", !.record = Len(record) + 1]
<1>1. /\ Rows = 1 .. Len(record) /\ Len(record) \in Nat
      /\ Rows' = 1 .. Len(record) + 1 /\ Rows \subseteq Rows' /\ Len(record') = Len(record) + 1
  BY DEF TypesInv, LogTypeOK, Rows
<1>2. Heads' = Heads /\ Log' = Log /\ Size' = Size
  BY DEF Heads, Log, Size
<1>3. Idle \in Activation
  BY DEF Idle, Activation, At
<1>4. g \in Activation /\ g.at = "append" /\ g.record = Len(record) + 1
  <2>1. Len(record) + 1 \in Nat
    BY <1>1
  <2>. QED  BY <1>3, <2>1 DEF Activation, At
<1> HIDE DEF g
<1>5. proc' \in [Process -> Activation] /\ \A q \in Process : proc'[q] = g \/ proc'[q] = proc[q]
  BY <1>4 DEF TypesInv, LogTypeOK, g
<1>6. (\A q \in Process : proc[q].record \in 0 .. Len(record))'
  BY <1>1, <1>4, <1>5 DEF TypesInv, LogTypeOK
<1>7. leaf' \subseteq [index : Nat, record : Rows'] /\ IsFiniteSet(leaf')
  <2>1. leaf' = leaf /\ leaf \subseteq [index : Nat, record : Rows] /\ IsFiniteSet(leaf)
    BY DEF TypesInv, LogTypeOK
  <2>. QED  BY <1>1, <2>1
<1>8. LogTypeOK'
  BY <1>2, <1>5, <1>6, <1>7 DEF TypesInv, LogTypeOK
<1>9. LeavesOK' /\ Shaped'
  BY <1>2 DEF TypesInv, LogInv, LeavesOK, Shaped
<1>10. (\A q \in Process : ActOK(proc[q]))'
  <2> SUFFICES ASSUME NEW q \in Process PROVE ActOK(proc[q])'
    OBVIOUS
  <2>1. CASE proc'[q] = g
    BY <1>1, <1>4, <2>1 DEF ActOK
  <2>2. CASE proc'[q] = proc[q]
    <3>1. ActOK(proc[q])
      BY DEF LogInv
    <3>. QED  BY <1>1, <1>2, <2>2, <3>1 DEF ActOK
  <2>. QED  BY <1>5, <2>1, <2>2
<1>11. (\A h \in Heads : HeadOK(h))' /\ (\A c \in ckpt : ReceiptOK(c))'
  BY <1>2 DEF LogInv, HeadOK, ReceiptOK
<1>. QED  BY <1>8, <1>9, <1>10, <1>11 DEF TypesInv, LogInv

\* A row that follows nothing.
LEMMA CommitFirst ==
  ASSUME TypesInv, LogInv, LineageInv, NEW p \in Process,
         RecordEvent(p) \/ \E s \in Scan : IssueResult(p, s)
  PROVE  (TypesInv /\ LogInv /\ LineageInv)'
<1>1. PICK row \in Record :
        /\ row.previous = 0 /\ row.status = "ACTIVE"
        /\ record' = Append(record, row)
        /\ proc' = [proc EXCEPT ![p] = [Idle EXCEPT !.at = "append", !.record = Len(record) + 1]]
        /\ UNCHANGED <<leaf, ckpt, job, faults, history>>
  <2>1. /\ Event \in Record /\ Event.previous = 0 /\ Event.status = "ACTIVE"
        /\ \A s \in Scan : Result(s) \in Record /\ Result(s).previous = 0 /\ Result(s).status = "ACTIVE"
    BY DEF Event, Result, Record, StatementStatus
  <2>. QED  BY <2>1 DEF RecordEvent, IssueResult, Commits
<1>2. record \in Seq(Record) /\ Len(record) \in Nat /\ Rows = 1 .. Len(record)
  BY DEF TypesInv, LogTypeOK, Rows
<1> DEFINE n == Len(record)
           rows == Append(record, row)
<1>3. rows \in Seq(Record) /\ Len(rows) = n + 1 /\ (\A r \in Rows : rows[r] = record[r]) /\ rows[n + 1] = row
  BY <1>2
<1>4. Rows' = 1 .. n + 1 /\ record' = rows
  BY <1>1, <1>2, <1>3 DEF Rows
<1> HIDE DEF rows
<1>5. (TypesInv /\ LogInv)'
  BY <1>1, <1>3, <1>4, Commit DEF rows
<1>6. \A r \in Rows : record[r].previous < r /\ record[r].previous \in Nat
  <2>1. \A r \in Rows : record[r] \in Record
    BY <1>2
  <2>. QED  BY <2>1 DEF LineageInv, RowOK, Record
<1>7. \A k \in Rows' : k \in Rows \/ k = n + 1
  BY <1>2, <1>4
<1>8. \A r \in Rows' : HasSuccessor(r)' <=> \E k \in Rows : record[k].previous = r
  <2>1. \A r \in Rows' : r # 0
    BY <1>4
  <2>2. Rows \subseteq Rows'
    BY <1>2, <1>4
  <2>. QED  BY <1>1, <1>3, <1>4, <1>7, <2>1, <2>2 DEF HasSuccessor
<1>9. ASSUME NEW r \in Rows' PROVE RowOK(r)'
  <2>1. CASE r = n + 1
    <3>1. record'[r] = row /\ 0 < r
      BY <1>2, <1>3, <1>4, <2>1
    <3>2. ~HasSuccessor(r)'
      BY <1>2, <1>6, <1>8, <2>1
    <3>. QED  BY <1>1, <3>1, <3>2 DEF RowOK
  <2>2. CASE r \in Rows
    <3>1. record'[r] = record[r] /\ RowOK(r)
      BY <1>3, <1>4, <2>2 DEF LineageInv
    <3>2. HasSuccessor(r)' <=> HasSuccessor(r)
      BY <1>8 DEF HasSuccessor
    <3>3. \A k \in Rows' : record'[r].previous # 0 /\ record'[k].previous = record'[r].previous =>
                             k \in Rows /\ record'[k] = record[k]
      BY <1>1, <1>3, <1>4, <1>7
    <3>4. \A k \in Rows : k \in Rows' /\ record'[k] = record[k]
      BY <1>2, <1>3, <1>4
    <3>. QED  BY <3>1, <3>2, <3>3, <3>4 DEF RowOK
  <2>. QED  BY <1>7, <2>1, <2>2
<1>. QED  BY <1>5, <1>9 DEF LineageInv

\* A status change: its predecessor had none, and has this one from now on.
LEMMA CommitStatus ==
  ASSUME TypesInv, LogInv, LineageInv, NEW p \in Process, NEW type \in Changes, AppendStatus(p, type)
  PROVE  (TypesInv /\ LogInv /\ LineageInv)'
<1> DEFINE b == proc[p].record
           n == Len(record)
           marked == [record EXCEPT ![b].status = StatusBy(type)]
           row == Successor(b, type)
           rows == Append(marked, row)
<1>1. record \in Seq(Record) /\ n \in Nat /\ Rows = 1 .. n
  BY DEF TypesInv, LogTypeOK, Rows
<1>2. /\ proc[p].at = "status" /\ b \in Rows /\ record[b].type # "EVENT"
      /\ UNCHANGED <<leaf, ckpt, job, faults, history>>
  BY DEF AppendStatus, LogInv, ActOK
<1>3. CASE HasSuccessor(b)
  <2>1. proc' = [proc EXCEPT ![p] = Idle] /\ UNCHANGED record
    BY <1>3 DEF AppendStatus
  <2>2. Idle \in Activation /\ Idle.at = "idle" /\ Idle.record \in 0 .. Len(record)
    BY <1>1 DEF Idle, Activation, At
  <2>3. faults' \in 0 .. MaxFaults
    BY <1>2 DEF TypesInv, LogTypeOK
  <2>4. ActOK(Idle)
    BY <2>2, EnqueueOrIdle
  <2>5. (TypesInv /\ LogInv)'
    BY <1>2, <2>1, <2>2, <2>3, <2>4, Moves
  <2>6. LineageInv'
    BY <2>1 DEF LineageInv, RowOK, HasSuccessor, Rows
  <2>. QED  BY <2>5, <2>6
<1>4. CASE ~HasSuccessor(b)
  <2>1. /\ record' = rows
        /\ proc' = [proc EXCEPT ![p] = [Idle EXCEPT !.at = "append", !.record = Len(record) + 1]]
    BY <1>4 DEF AppendStatus
  <2>2. type \in StatusChange /\ type # "EVENT" /\ StatusBy(type) \in StatementStatus
    BY LogAssumption DEF StatusChange, StatusBy, StatementStatus
  <2>3. /\ row \in Record /\ row.previous = b /\ row.type = type /\ row.status = "ACTIVE"
    <3>1. record[b] \in Record /\ b \in Nat
      BY <1>1, <1>2
    <3>. QED  BY <2>2, <3>1 DEF Successor, Record, StatementStatus
  <2>4. /\ marked \in Seq(Record) /\ Len(marked) = n
        /\ \A r \in Rows : /\ r # b => marked[r] = record[r]
                           /\ marked[r].type = record[r].type
                           /\ marked[r].previous = record[r].previous
        /\ marked[b].status = StatusBy(type)
    <3>1. \A r \in Rows : record[r] \in Record
      BY <1>1
    <3>2. [record[b] EXCEPT !.status = StatusBy(type)] \in Record
      BY <1>2, <2>2, <3>1 DEF Record
    <3>3. marked \in [1 .. n -> Record]
      BY <1>1, <1>2, <3>1, <3>2
    <3>4. \A r \in Rows : /\ r # b => marked[r] = record[r]
                          /\ r = b => marked[r] = [record[b] EXCEPT !.status = StatusBy(type)]
      BY <1>1, <1>2
    <3>. QED  BY <1>1, <1>2, <3>1, <3>3, <3>4 DEF Record
  <2> HIDE DEF marked, row
  <2>5. /\ rows \in Seq(Record) /\ Len(rows) = n + 1 /\ rows[n + 1] = row
        /\ \A r \in Rows : rows[r] = marked[r]
    BY <1>1, <2>3, <2>4
  <2> HIDE DEF rows
  <2>6. /\ Rows' = 1 .. n + 1 /\ record'[n + 1] = row /\ n + 1 \in Rows'
        /\ \A k \in Rows' : k \in Rows \/ k = n + 1
        /\ \A r \in Rows : /\ r \in Rows'
                           /\ r # b => record'[r] = record[r]
                           /\ record'[r].type = record[r].type
                           /\ record'[r].previous = record[r].previous
        /\ record'[b].status = StatusBy(type)
    BY <1>1, <1>2, <2>1, <2>4, <2>5 DEF Rows
  <2>7. (TypesInv /\ LogInv)'
    <3>1. \A r \in Rows : rows[r].type = record[r].type
      BY <2>4, <2>5
    <3>. QED  BY <1>2, <2>1, <2>5, <3>1, Commit
  <2>8. \A r \in Rows : record[r].previous < r /\ record[r].previous \in Nat /\ record[r].previous # b
    <3>1. \A r \in Rows : record[r] \in Record
      BY <1>1
    <3>2. \A r \in Rows : record[r].previous \in Nat
      BY <3>1 DEF Record
    <3>3. \A r \in Rows : record[r].previous # b
      BY <1>4 DEF HasSuccessor
    <3>. QED  BY <3>2, <3>3 DEF LineageInv, RowOK
  <2>9. ASSUME NEW r \in Rows' PROVE RowOK(r)'
    <3>1. CASE r = n + 1
      <4>1. record'[r] = row /\ b < r
        BY <1>1, <1>2, <2>6, <3>1
      <4>2. \A k \in Rows' : record'[k].previous = b => k = r
        BY <2>6, <2>8, <3>1
      <4>3. ~HasSuccessor(r)'
        BY <1>1, <1>2, <2>3, <2>6, <2>8, <3>1 DEF HasSuccessor
      <4>. QED  BY <2>2, <2>3, <4>1, <4>2, <4>3 DEF RowOK
    <3>2. CASE r = b
      <4>1. RowOK(r) /\ record'[r].type # "EVENT"
        BY <1>2, <2>6, <3>2 DEF LineageInv
      <4>2. HasSuccessor(r)' /\ record'[n + 1].previous = r /\ record'[r].status = StatusBy(record'[n + 1].type)
        BY <2>3, <2>6, <3>2 DEF HasSuccessor
      <4>3. record'[r].previous < r
        BY <1>2, <2>6, <2>8, <3>2
      <4>4. ASSUME NEW k \in Rows', record'[r].previous # 0, record'[k].previous = record'[r].previous
            PROVE  k = r
        BY <1>2, <2>3, <2>6, <2>8, <3>2, <4>1, <4>4 DEF RowOK
      <4>. QED  BY <2>6, <4>1, <4>2, <4>3, <4>4 DEF RowOK
    <3>3. CASE r \in Rows /\ r # b
      <4>1. RowOK(r) /\ record'[r] = record[r]
        BY <2>6, <3>3 DEF LineageInv
      <4>2. HasSuccessor(r)' <=> HasSuccessor(r)
        BY <1>2, <2>3, <2>6, <3>3 DEF HasSuccessor
      <4>3. ASSUME NEW k \in Rows', record[r].previous # 0, record'[k].previous = record[r].previous
            PROVE  k \in Rows /\ record[k].previous = record[r].previous
        BY <2>3, <2>6, <2>8, <3>3, <4>3
      <4>4. \A k \in Rows : /\ k \in Rows' /\ record'[k].previous = record[k].previous
                            /\ record'[k].type = record[k].type
        BY <2>6
      <4>. QED  BY <4>1, <4>2, <4>3, <4>4 DEF RowOK
    <3>. QED  BY <2>6, <3>1, <3>2, <3>3
  <2>. QED  BY <2>7, <2>9 DEF LineageInv
<1>. QED  BY <1>3, <1>4

--------------------------------------------------------------------------------
(* The log grows at its end, a head of it is signed. *)

LEMMA Signs ==
  ASSUME TypesInv, LogInv, NEW p \in Process, UNCHANGED <<record, job, faults, history>>,
         leaf' \subseteq [index : Nat, record : Rows], IsFiniteSet(leaf'), LeavesOK',
         Size' \in Nat, Size <= Size', \A i \in 1 .. Size : Log'[i] = Log[i],
         NEW h, h = [size |-> h.size, root |-> h.root], h.size \in 1 .. Size', h.root = RootAt(Log', h.size),
         ckpt' = ckpt \/ ckpt' = ckpt \cup {[head |-> h, external |-> {}]},
         NEW g \in Activation, g.at \in {"idle", "enqueue"}, g.record = 0, proc' = [proc EXCEPT ![p] = g]
  PROVE  (TypesInv /\ LogInv)'
<1> DEFINE new == [head |-> h, external |-> {}]
<1>1. Rows' = Rows /\ Len(record) \in Nat /\ Size \in Nat
  BY LogIs DEF Rows, TypesInv, LogInv, LogTypeOK
<1>2. new.head = h /\ new.external = {} /\ new = [head |-> new.head, external |-> new.external]
  OBVIOUS
<1>3. ckpt \subseteq ckpt' /\ \A c \in ckpt' : c \in ckpt \/ c = new
  OBVIOUS
<1> HIDE DEF new
<1>4. Heads \subseteq Heads' /\ \A x \in Heads' : x \in Heads \/ x = h
  BY <1>2, <1>3 DEF Heads
<1>5. proc' \in [Process -> Activation] /\ \A q \in Process : proc'[q] = g \/ proc'[q] = proc[q]
  BY DEF TypesInv, LogTypeOK
<1>6. (\A q \in Process : proc[q].record \in 0 .. Len(record))'
  BY <1>1, <1>5 DEF TypesInv, LogTypeOK
<1>7. (\A c \in ckpt : c.head.size \in Nat \ {0} /\ c.external \subseteq Heads)'
  <2>1. h.size \in Nat \ {0}
    OBVIOUS
  <2>. QED  BY <1>2, <1>3, <1>4, <2>1 DEF TypesInv, LogTypeOK
<1>8. (\A j \in job : j.head \in Heads /\ j.state \in {"OPEN", "CONFIRMED"})'
  BY <1>4 DEF TypesInv, LogTypeOK
<1>9. LogTypeOK'
  BY <1>1, <1>5, <1>6, <1>7, <1>8 DEF TypesInv, LogTypeOK
<1>10. Shaped' /\ (\A c \in ckpt : ReceiptOK(c))'
  BY <1>2, <1>3, <1>4 DEF TypesInv, LogInv, Shaped, ReceiptOK
<1>11. (\A q \in Process : ActOK(proc[q]))'
  <2> SUFFICES ASSUME NEW q \in Process PROVE ActOK(proc[q])'
    OBVIOUS
  <2>1. CASE proc'[q] = g
    BY <2>1 DEF ActOK
  <2>2. CASE proc'[q] = proc[q]
    <3>1. ActOK(proc[q]) /\ proc[q].next \in Nat
      BY DEF LogInv, TypesInv, LogTypeOK, Activation
    <3>2. proc[q].at = "flush" =>
            Len(proc[q].seen) \in 1 .. Size' /\ \A i \in 1 .. Len(proc[q].seen) : proc[q].seen[i] = Log'[i]
      BY <1>1, <3>1 DEF ActOK
    <3>3. proc[q].at = "insert" => proc[q].next <= Size'
      BY <1>1, <3>1 DEF ActOK
    <3>. QED  BY <1>1, <2>2, <3>1, <3>2, <3>3 DEF ActOK
  <2>. QED  BY <1>5, <2>1, <2>2
<1>12. ASSUME NEW x \in Heads' PROVE HeadOK(x)'
  <2>1. CASE x \in Heads
    <3>1. x.size \in 1 .. Size /\ x.root = RootAt(Log, x.size)
      BY <2>1 DEF LogInv, HeadOK
    <3>2. x.size \in 1 .. Size' /\ \A i \in 1 .. x.size : Log'[i] = Log[i]
      BY <1>1, <3>1
    <3>3. RootAt(Log', x.size) = RootAt(Log, x.size)
      BY <3>2, RootIs
    <3>. QED  BY <3>1, <3>2, <3>3 DEF HeadOK
  <2>2. CASE x = h
    BY <2>2 DEF HeadOK
  <2>. QED  BY <1>4, <2>1, <2>2
<1>. QED  BY <1>9, <1>10, <1>11, <1>12 DEF TypesInv, LogInv

LEMMA InsertStep ==
  ASSUME TypesInv, LogInv, NEW p \in Process, AppendInsert(p)
  PROVE  (TypesInv /\ LogInv)'
<1> DEFINE row == [index |-> proc[p].next, record |-> proc[p].record]
           more == leaf \cup {row}
           taken == \E l \in leaf : l.index = row.index \/ l.record = row.record
           n == Len(InOrder(more))
           due == n % Interval = 0
<1>1. /\ proc[p].at = "insert" /\ proc[p] \in Activation /\ proc[p].record \in Rows
      /\ proc[p].next \in Nat /\ proc[p].next <= Size /\ proc[p].record \in 0 .. Len(record)
      /\ UNCHANGED <<record, job, faults, history>> /\ ActOK(proc[p])
  BY DEF AppendInsert, TypesInv, LogInv, LogTypeOK, ActOK, Activation
<1>2. CASE taken
  <2> DEFINE g == [proc[p] EXCEPT !.at = "append"]
  <2>1. UNCHANGED <<leaf, ckpt>> /\ proc' = [proc EXCEPT ![p] = g]
    BY <1>2 DEF AppendInsert
  <2>2. g \in Activation /\ g.at = "append" /\ g.record = proc[p].record
    BY <1>1 DEF Activation, At
  <2> HIDE DEF g
  <2>3. ActOK(g)
    BY <1>1, <2>2 DEF ActOK
  <2>4. faults' \in 0 .. MaxFaults
    BY <1>1 DEF TypesInv, LogTypeOK
  <2>. QED  BY <1>1, <2>1, <2>2, <2>3, <2>4, Moves
<1>3. CASE ~taken
  <2>1. /\ leaf' = more
        /\ ckpt' = IF due /\ n \notin Sizes THEN ckpt \cup {Unanchored(InOrder(more), n)} ELSE ckpt
        /\ Continue(p, IF due THEN {n} ELSE {})
    BY <1>3 DEF AppendInsert
  <2>2. /\ Size \in Nat /\ {l.index : l \in leaf} = 0 .. Size - 1
        /\ leaf \in SUBSET [index : Nat, record : Rows] /\ IsFiniteSet(leaf)
        /\ \A k, l \in leaf : k.index = l.index => k = l
        /\ \A k, l \in leaf : k.record = l.record => k = l
        /\ Rows \in SUBSET Nat /\ row \in [index : Nat, record : Rows]
    BY <1>1, LogIs DEF TypesInv, LogInv, LogTypeOK, LeavesOK, Rows
  <2>3. row.index = Size
    <3>1. row.index \notin {l.index : l \in leaf}
      BY <1>3
    <3>. QED  BY <1>1, <2>2, <3>1
  <2>4. \A l \in leaf : l.record # row.record
    BY <1>3
  <2> DEFINE N == Rows
  <2> HIDE DEF row, N, n
  <2>5. /\ IsFiniteSet(more) /\ Cardinality(more) = Size + 1
        /\ {l.index : l \in more} = 0 .. Size
        /\ \A k, l \in more : k.index = l.index => k = l
        /\ n = Size + 1
        /\ \A i \in 1 .. Size : InOrder(more)[i] = InOrder(leaf)[i]
    <3>1. /\ N \in SUBSET Nat /\ leaf \in SUBSET [index : Nat, record : N] /\ IsFiniteSet(leaf)
          /\ {l.index : l \in leaf} = 0 .. Cardinality(leaf) - 1
          /\ \A k, l \in leaf : k.index = l.index => k = l
          /\ row \in [index : Nat, record : N] /\ row.index = Cardinality(leaf)
      BY <2>2, <2>3 DEF N, Size
    <3>. QED  BY <3>1, InOrderGrows, ZenonT(60) DEF Size, n
  <2>6. /\ Size' = Size + 1 /\ Log' = InOrder(more) /\ \A i \in 1 .. Size : Log'[i] = Log[i]
    BY <2>1, <2>5 DEF Size, Log
  <2>7. leaf' \subseteq [index : Nat, record : Rows] /\ IsFiniteSet(leaf')
    BY <2>1, <2>2, <2>5
  <2>8. LeavesOK'
    <3>1. \A k, l \in more : k.record = l.record => k = l
      BY <2>2, <2>4
    <3>2. Size' - 1 = Size
      BY <2>2, <2>6
    <3>3. {l.index : l \in leaf'} = 0 .. Size' - 1
      BY <2>1, <2>5, <3>2
    <3>4. \A k, l \in leaf' : (k.index = l.index => k = l) /\ (k.record = l.record => k = l)
      BY <2>1, <2>5, <3>1
    <3>. QED  BY <3>3, <3>4 DEF LeavesOK
  <2> DEFINE h == [size |-> n, root |-> RootAt(InOrder(more), n)]
  <2>9. /\ h = [size |-> h.size, root |-> h.root] /\ h.size = n /\ h.root = RootAt(InOrder(more), h.size)
        /\ ckpt' = ckpt \/ ckpt' = ckpt \cup {[head |-> h, external |-> {}]}
    BY <2>1 DEF Unanchored
  <2> HIDE DEF h
  <2>10. n \in Nat /\ h.size \in 1 .. Size' /\ h.root = RootAt(Log', h.size)
    BY <2>2, <2>5, <2>6, <2>9
  <2>11. PICK g \in Activation :
           g.at \in {"idle", "enqueue"} /\ g.record = 0 /\ proc' = [proc EXCEPT ![p] = g]
    <3> DEFINE S == IF due THEN {n} ELSE {}
    <3>1. S \in SUBSET Nat /\ (\A x \in S : x <= n) /\ Continue(p, S)
      BY <2>1, <2>10
    <3> HIDE DEF S
    <3>. QED  BY <2>10, <3>1, ContinueIs
  <2>12. Size' \in Nat /\ Size <= Size'
    BY <2>2, <2>6
  <2>. QED  BY <1>1, <2>6, <2>7, <2>8, <2>9, <2>10, <2>11, <2>12, Signs
<1>. QED  BY <1>2, <1>3

LEMMA FlushStep ==
  ASSUME TypesInv, LogInv, NEW p \in Process, FlushWrite(p)
  PROVE  (TypesInv /\ LogInv)'
<1> DEFINE seen == proc[p].seen
           n == Len(seen)
           h == [size |-> n, root |-> RootAt(seen, n)]
<1>1. /\ Size \in Nat /\ n \in 1 .. Size /\ \A i \in 1 .. n : seen[i] = Log[i]
      /\ UNCHANGED <<record, leaf, job, faults, history>>
  BY LogIs DEF FlushWrite, TypesInv, LogInv, ActOK
<1>2. Size' = Size /\ Log' = Log /\ Rows' = Rows
  BY <1>1 DEF Size, Log, Rows
<1>3. /\ h = [size |-> h.size, root |-> h.root] /\ h.size = n /\ h.root = RootAt(seen, n)
      /\ ckpt' = ckpt \/ ckpt' = ckpt \cup {[head |-> h, external |-> {}]}
      /\ Continue(p, {n})
  BY DEF FlushWrite, Unanchored
<1> HIDE DEF h
<1>4. RootAt(seen, n) = RootAt(Log, n)
  BY <1>1, RootIs
<1>5. PICK g \in Activation :
        g.at \in {"idle", "enqueue"} /\ g.record = 0 /\ proc' = [proc EXCEPT ![p] = g]
  <2> DEFINE S == {n}
  <2>1. n \in Nat /\ S \in SUBSET Nat /\ (\A x \in S : x <= n) /\ Continue(p, S)
    BY <1>1, <1>3
  <2> HIDE DEF S
  <2>. QED  BY <2>1, ContinueIs
<1>6. leaf' \subseteq [index : Nat, record : Rows] /\ IsFiniteSet(leaf') /\ LeavesOK'
  BY <1>1, <1>2 DEF TypesInv, LogInv, LogTypeOK, LeavesOK
<1>7. Size' \in Nat /\ Size <= Size' /\ \A i \in 1 .. Size : Log'[i] = Log[i]
  BY <1>1, <1>2
<1>8. h.size \in 1 .. Size' /\ h.root = RootAt(Log', h.size)
  BY <1>1, <1>2, <1>3, <1>4
<1>. QED  BY <1>1, <1>3, <1>5, <1>6, <1>7, <1>8, Signs

--------------------------------------------------------------------------------
(* The jobs of the checkpoints. *)

LEMMA EnqueueStep ==
  ASSUME TypesInv, LogInv, NEW p \in Process, Enqueue(p)
  PROVE  (TypesInv /\ LogInv)'
<1> DEFINE due == {h \in Heads : h.size = proc[p].size /\ ~Queued(h)}
           opened == {[head |-> h, state |-> "OPEN"] : h \in due}
<1>1. /\ job' = job \cup opened /\ UNCHANGED <<record, leaf, ckpt, faults, history>>
      /\ proc' = [proc EXCEPT ![p] = Idle]
  BY DEF Enqueue, Continue
<1>2. Heads' = Heads /\ Rows' = Rows /\ Log' = Log /\ Size' = Size
  BY <1>1 DEF Heads, Rows, Log, Size
<1>3. \A j \in opened : j.head \in Heads /\ j.state = "OPEN" /\ j = [head |-> j.head, state |-> j.state]
  OBVIOUS
<1>4. job \subseteq job' /\ \A j \in job' : j \in job \/ j \in opened
  BY <1>1
<1> HIDE DEF opened
<1>5. Idle \in Activation /\ Idle.at = "idle" /\ Idle.record = 0
  BY DEF Idle, Activation, At
<1>6. proc' \in [Process -> Activation] /\ \A q \in Process : proc'[q] = Idle \/ proc'[q] = proc[q]
  BY <1>1, <1>5 DEF TypesInv, LogTypeOK
<1>7. (\A q \in Process : proc[q].record \in 0 .. Len(record))'
  <2>1. Len(record) \in Nat
    BY DEF TypesInv, LogTypeOK
  <2>. QED  BY <1>1, <1>5, <1>6, <2>1 DEF TypesInv, LogTypeOK
<1>8. LogTypeOK'
  <2>1. (\A j \in job : j.head \in Heads /\ j.state \in {"OPEN", "CONFIRMED"})'
    BY <1>2, <1>3, <1>4 DEF TypesInv, LogTypeOK
  <2>. QED  BY <1>1, <1>2, <1>6, <1>7, <2>1 DEF TypesInv, LogTypeOK
<1>9. Shaped' /\ LeavesOK' /\ (\A c \in ckpt : ReceiptOK(c))' /\ (\A h \in Heads : HeadOK(h))'
  BY <1>1, <1>2, <1>3, <1>4 DEF TypesInv, LogInv, Shaped, LeavesOK, ReceiptOK, HeadOK
<1>10. (\A q \in Process : ActOK(proc[q]))'
  <2>1. ActOK(Idle)
    BY <1>5, EnqueueOrIdle
  <2>. QED  BY <1>1, <1>2, <1>6, <2>1 DEF LogInv, ActOK
<1>. QED  BY <1>1, <1>8, <1>9, <1>10 DEF TypesInv, LogInv

LEMMA ConfirmStep ==
  ASSUME TypesInv, LogInv, NEW j \in job, JobConfirms(j)
  PROVE  (TypesInv /\ LogInv)'
<1> DEFINE done == [j EXCEPT !.state = "CONFIRMED"]
           shown(c) == IF c.head = j.head THEN [c EXCEPT !.external = @ \cup {j.head}] ELSE c
<1>1. /\ j.state = "OPEN" /\ UNCHANGED <<record, leaf, proc, faults, history>>
      /\ job' = (job \ {j}) \cup {done} /\ ckpt' = {shown(c) : c \in ckpt}
  BY DEF JobConfirms
<1>2. done = [head |-> j.head, state |-> "CONFIRMED"]
  BY DEF TypesInv, Shaped
<1>3. ASSUME NEW c \in ckpt
      PROVE  /\ shown(c).head = c.head
             /\ shown(c) = [head |-> shown(c).head, external |-> shown(c).external]
             /\ shown(c).external = c.external \/ (c.head = j.head /\ shown(c).external = c.external \cup {j.head})
  <2>1. c = [head |-> c.head, external |-> c.external]
    BY DEF TypesInv, Shaped
  <2>. QED  BY <2>1
<1>4. \A d \in ckpt' : \E c \in ckpt : d = shown(c)
  BY <1>1
<1>5. \A c \in ckpt : shown(c) \in ckpt'
  BY <1>1
<1> HIDE DEF shown, done
<1>6. Heads' = Heads
  <2>1. \A h \in Heads : \E d \in ckpt' : d.head = h
    BY <1>3, <1>5 DEF Heads
  <2>2. \A d \in ckpt' : \E c \in ckpt : d.head = c.head
    BY <1>3, <1>4
  <2>. QED  BY <2>1, <2>2 DEF Heads
<1>7. Rows' = Rows /\ Log' = Log /\ Size' = Size
  BY <1>1 DEF Rows, Log, Size
<1>8. \A i \in job' : i = done \/ i \in job
  BY <1>1
<1>9. LogTypeOK' /\ Shaped'
  <2>1. \A d \in ckpt' : d.head.size \in Nat \ {0} /\ d.external \subseteq Heads
                         /\ d = [head |-> d.head, external |-> d.external]
    <3> SUFFICES ASSUME NEW c \in ckpt
        PROVE  /\ shown(c).head.size \in Nat \ {0} /\ shown(c).external \subseteq Heads
               /\ shown(c) = [head |-> shown(c).head, external |-> shown(c).external]
      BY <1>4
    <3>1. c.head.size \in Nat \ {0} /\ c.external \subseteq Heads /\ j.head \in Heads
      BY DEF TypesInv, LogTypeOK
    <3>. QED  BY <1>3, <3>1
  <2>2. \A i \in job' : i.head \in Heads /\ i.state \in {"OPEN", "CONFIRMED"}
                        /\ i = [head |-> i.head, state |-> i.state]
    BY <1>2, <1>8 DEF TypesInv, LogTypeOK, Shaped
  <2>. QED  BY <1>1, <1>6, <1>7, <2>1, <2>2 DEF TypesInv, LogTypeOK, Shaped
<1>10. ASSUME NEW d \in ckpt' PROVE ReceiptOK(d)'
  <2>1. PICK c \in ckpt : d = shown(c)
    BY <1>4
  <2>2. ReceiptOK(c)
    BY DEF LogInv
  <2>3. d.head = c.head /\ d.external \subseteq {d.head}
    BY <1>3, <2>1, <2>2 DEF ReceiptOK
  <2>4. [head |-> j.head, state |-> "CONFIRMED"] \in job'
    BY <1>1, <1>2
  <2>5. c.external # {} => [head |-> c.head, state |-> "CONFIRMED"] \in job'
    <3>1. [head |-> c.head, state |-> "CONFIRMED"] # j
      BY <1>1
    <3>. QED  BY <1>1, <2>2, <3>1 DEF ReceiptOK
  <2>. QED  BY <1>3, <2>1, <2>3, <2>4, <2>5 DEF ReceiptOK
<1>11. LeavesOK' /\ (\A h \in Heads : HeadOK(h))' /\ (\A q \in Process : ActOK(proc[q]))'
  BY <1>1, <1>6, <1>7 DEF LogInv, LeavesOK, HeadOK, ActOK
<1>. QED  BY <1>1, <1>9, <1>10, <1>11 DEF TypesInv, LogInv

--------------------------------------------------------------------------------
(* The log as its readers see it. *)

\* A step that leaves log, heads and receipts alone is no step for them.
LEMMA Unseen ==
  ASSUME UNCHANGED <<leaf, ckpt, job>>
  PROVE  UNCHANGED Public!publicVars
<1>1. Log' = Log /\ Heads' = Heads /\ Anchored' = Anchored /\ Receipts' = Receipts
  BY DEF Log, Heads, Anchored, Receipts
<1>. QED  BY <1>1 DEF Public!publicVars

\* No record has two places.
LEMMA NoRecordTwice ==
  ASSUME TypesInv, LogInv
  PROVE  \A i, k \in 1 .. Size : Log[i] = Log[k] => i = k
<1> SUFFICES ASSUME NEW i \in 1 .. Size, NEW k \in 1 .. Size, Log[i] = Log[k] PROVE i = k
  OBVIOUS
<1>1. /\ Size \in Nat /\ {l.index : l \in leaf} = 0 .. Size - 1
      /\ \A l \in leaf : l.index \in Nat /\ Log[l.index + 1] = l.record
      /\ \A x, y \in leaf : x.record = y.record => x = y
  BY LogIs DEF TypesInv, LogInv, LeavesOK
<1>2. \A n \in 0 .. Size - 1 : \E l \in leaf : l.index = n
  <2>1. \A n \in {l.index : l \in leaf} : \E l \in leaf : l.index = n
    OBVIOUS
  <2>. QED  BY <1>1, <2>1
<1>3. PICK x \in leaf : x.index = i - 1
  BY <1>1, <1>2
<1>4. PICK y \in leaf : y.index = k - 1
  BY <1>1, <1>2
<1>5. x.index + 1 = i /\ y.index + 1 = k
  BY <1>3, <1>4
<1>6. x = y
  BY <1>1, <1>5
<1>. QED  BY <1>5, <1>6

\* A new checkpoint shows no receipt.
LEMMA SignedOnly ==
  ASSUME NEW h, ckpt' = ckpt \cup {[head |-> h, external |-> {}]}, UNCHANGED job
  PROVE  Heads' = Heads \cup {h} /\ Anchored' = Anchored /\ Receipts' = Receipts
<1> DEFINE new == [head |-> h, external |-> {}]
           shows(c) == {[head |-> c.head, of |-> e] : e \in c.external}
<1>1. new.head = h /\ shows(new) = {}
  OBVIOUS
<1>2. Receipts = UNION {shows(c) : c \in ckpt} /\ Receipts' = UNION {shows(c) : c \in ckpt'}
  BY DEF Receipts
<1> HIDE DEF new, shows
<1>3. ckpt' = ckpt \cup {new}
  BY DEF new
<1>4. Heads' = Heads \cup {h}
  BY <1>1, <1>3 DEF Heads
<1>5. Receipts' = Receipts
  BY <1>1, <1>2, <1>3
<1>. QED  BY <1>4, <1>5 DEF Anchored

\* A leaf with the next index and a record of its own goes to the end of the log.
LEMMA LeafGoesLast ==
  ASSUME TypesInv, LogInv, NEW row \in [index : Nat, record : Rows], row.index <= Size,
         \A l \in leaf : l.index # row.index /\ l.record # row.record
  PROVE  LET log == InOrder(leaf \cup {row}) IN
         /\ Size \in Nat /\ Len(Log) = Size /\ Len(log) = Size + 1
         /\ log = Append(Log, row.record)
         /\ \A i \in 1 .. Size : Log[i] # row.record
<1> DEFINE more == leaf \cup {row}
           log == InOrder(more)
           N == Rows
<1>1. /\ Size \in Nat /\ Len(Log) = Size /\ Log \in Seq(Rows)
      /\ {l.index : l \in leaf} = 0 .. Size - 1
      /\ \A l \in leaf : l.index \in Nat /\ Log[l.index + 1] = l.record
  BY LogIs DEF TypesInv, LogInv, LeavesOK
<1>2. row.index = Size
  <2>1. row.index \notin {l.index : l \in leaf}
    OBVIOUS
  <2>. QED  BY <1>1, <2>1
<1>3. /\ N \in SUBSET Nat /\ leaf \in SUBSET [index : Nat, record : N] /\ IsFiniteSet(leaf)
      /\ {l.index : l \in leaf} = 0 .. Cardinality(leaf) - 1
      /\ \A k, l \in leaf : k.index = l.index => k = l
      /\ row \in [index : Nat, record : N] /\ row.index = Cardinality(leaf)
  BY <1>1, <1>2 DEF TypesInv, LogInv, LogTypeOK, LeavesOK, Rows, Size
<1> HIDE DEF N
<1>4. /\ IsFiniteSet(more) /\ Cardinality(more) = Cardinality(leaf) + 1
      /\ {l.index : l \in more} = 0 .. Cardinality(more) - 1
      /\ \A k, l \in more : k.index = l.index => k = l
  <2>1. /\ IsFiniteSet(more) /\ Cardinality(more) = Cardinality(leaf) + 1
    <3>1. row \notin leaf
      OBVIOUS
    <3>. QED  BY <1>3, <3>1, FS_AddElement
  <2>2. {l.index : l \in more} = 0 .. Size
    <3>1. {l.index : l \in more} = {l.index : l \in leaf} \cup {row.index}
      OBVIOUS
    <3>. QED  BY <1>1, <1>2, <3>1
  <2>3. Cardinality(more) - 1 = Size
    BY <1>1, <2>1 DEF Size
  <2>4. \A k, l \in more : k.index = l.index => k = l
    BY <1>3
  <2>. QED  BY <2>1, <2>2, <2>3, <2>4
<1>5. more \in SUBSET [index : Nat, record : N]
  BY <1>3
<1> HIDE DEF more
<1>6. Len(log) = Size + 1 /\ log \in Seq(N) /\ \A l \in more : log[l.index + 1] = l.record
  BY <1>3, <1>4, <1>5, InOrderIs DEF Size
<1>7. leaf \subseteq more /\ row \in more
  BY DEF more
<1> HIDE DEF log
<1>8. ASSUME NEW i \in 1 .. Size PROVE log[i] = Log[i] /\ Log[i] # row.record
  <2>1. i - 1 \in {l.index : l \in leaf}
    <3>1. i - 1 \in 0 .. Size - 1
      BY <1>1
    <3>. QED  BY <1>1, <3>1, Zenon
  <2>2. PICK l \in leaf : l.index = i - 1
    BY <2>1
  <2>3. l.index + 1 = i
    BY <2>2
  <2>. QED  BY <1>1, <1>6, <1>7, <2>3
<1>9. log[Size + 1] = row.record
  BY <1>2, <1>6, <1>7
<1>10. log = Append(Log, row.record)
  <2> DEFINE longer == Append(Log, row.record)
  <2>1. Log \in Seq(N) /\ row.record \in N
    BY <1>1, <1>3 DEF N
  <2>2. /\ longer \in Seq(N) /\ Len(longer) = Size + 1
        /\ \A i \in 1 .. Size : longer[i] = Log[i]
        /\ longer[Size + 1] = row.record
    BY <1>1, <2>1
  <2> HIDE DEF longer
  <2>3. ASSUME NEW i \in 1 .. Size + 1 PROVE log[i] = longer[i]
    <3>1. i \in 1 .. Size \/ i = Size + 1
      BY <1>1
    <3>. QED  BY <1>8, <1>9, <2>2, <3>1
  <2>. QED  BY <1>1, <1>6, <2>2, <2>3 DEF longer
<1>. QED  BY <1>1, <1>6, <1>8, <1>10 DEF log, more

\* A leaf, and the checkpoint it completes, extend the log.
LEMMA InsertExtends ==
  ASSUME TypesInv, LogInv, NEW p \in Process, AppendInsert(p)
  PROVE  Public!Extend \/ UNCHANGED Public!publicVars
<1> DEFINE row == [index |-> proc[p].next, record |-> proc[p].record]
           log == InOrder(leaf \cup {row})
           n == Len(log)
           due == n % Interval = 0
           taken == \E l \in leaf : l.index = row.index \/ l.record = row.record
           head == [size |-> n, root |-> RootAt(log, n)]
<1>1. CASE taken
  <2>1. UNCHANGED <<leaf, ckpt, job>>
    BY <1>1 DEF AppendInsert
  <2>. QED  BY <2>1, Unseen
<1>2. CASE ~taken
  <2>1. leaf' = leaf \cup {row} /\ UNCHANGED <<record, job>>
    BY <1>2 DEF AppendInsert
  <2>2. ckpt' = ckpt \/ ckpt' = ckpt \cup {[head |-> head, external |-> {}]}
    BY <1>2 DEF AppendInsert, Unanchored
  <2>3. /\ row \in [index : Nat, record : Rows] /\ row.index <= Size
        /\ \A l \in leaf : l.index # row.index /\ l.record # row.record
    <3>1. proc[p].next \in Nat /\ proc[p].next <= Size /\ proc[p].record \in Rows
      BY DEF AppendInsert, TypesInv, LogInv, LogTypeOK, ActOK, Activation
    <3>. QED  BY <1>2, <3>1
  <2>4. Log' = log
    BY <2>1 DEF Log
  <2> HIDE DEF row, head
  <2>5. /\ Size \in Nat /\ Len(Log) = Size /\ n = Size + 1
        /\ log = Append(Log, row.record)
        /\ \A i \in 1 .. Size : Log[i] # row.record
    BY <2>3, LeafGoesLast
  <2> HIDE DEF log
  <2>6. log # <<>> /\ log[n] = row.record
    <3>1. Log \in Seq(Nat) /\ row.record \in Nat
      <4>1. Rows \in SUBSET Nat
        BY DEF TypesInv, LogTypeOK, Rows
      <4>. QED  BY <2>3, <4>1, LogIs DEF TypesInv, LogInv
    <3>. QED  BY <2>5, <3>1
  <2>7. Heads' \in {Heads, Heads \cup {head}} /\ Anchored' = Anchored /\ Receipts' = Receipts
    <3>1. CASE ckpt' = ckpt
      BY <2>1, <3>1 DEF Heads, Anchored, Receipts
    <3>2. CASE ckpt' = ckpt \cup {[head |-> head, external |-> {}]}
      BY <2>1, <3>2, SignedOnly
    <3>. QED  BY <2>2, <3>1, <3>2
  <2>8. head = Public!HeadOf(Log', Len(Log'))
    BY <2>4 DEF Public!HeadOf, head
  <2>. QED  BY <2>4, <2>5, <2>6, <2>7, <2>8 DEF Public!Extend
<1>. QED  BY <1>1, <1>2

\* What flush signs is a prefix of the log.
LEMMA FlushSigns ==
  ASSUME TypesInv, LogInv, NEW p \in Process, FlushWrite(p)
  PROVE  (\E n \in 1 .. Len(Log) : Public!Sign(n)) \/ UNCHANGED Public!publicVars
<1> DEFINE seen == proc[p].seen
           n == Len(seen)
           head == [size |-> n, root |-> RootAt(seen, n)]
<1>1. /\ n \in 1 .. Len(Log) /\ \A i \in 1 .. n : seen[i] = Log[i]
      /\ UNCHANGED <<leaf, job>>
  BY LogIs DEF FlushWrite, TypesInv, LogInv, ActOK
<1>2. ckpt' = ckpt \/ ckpt' = ckpt \cup {[head |-> head, external |-> {}]}
  BY DEF FlushWrite, Unanchored
<1>3. head = Public!HeadOf(Log, n)
  <2>1. RootAt(seen, n) = RootAt(Log, n)
    BY <1>1, RootIs
  <2>. QED  BY <2>1 DEF Public!HeadOf
<1> HIDE DEF head, n
<1>4. CASE ckpt' = ckpt
  BY <1>1, <1>4, Unseen
<1>5. CASE ckpt' = ckpt \cup {[head |-> head, external |-> {}]}
  <2>1. Heads' = Heads \cup {head} /\ Anchored' = Anchored /\ Receipts' = Receipts
    BY <1>1, <1>5, SignedOnly
  <2>2. Log' = Log
    BY <1>1 DEF Log
  <2>. QED  BY <1>1, <1>3, <2>1, <2>2 DEF Public!Sign
<1>. QED  BY <1>2, <1>4, <1>5

\* A new job is not yet on the chain.
LEMMA EnqueueUnseen ==
  ASSUME TypesInv, LogInv, NEW p \in Process, Enqueue(p)
  PROVE  UNCHANGED Public!publicVars
<1> DEFINE opened == {[head |-> h, state |-> "OPEN"] :
                        h \in {h \in Heads : h.size = proc[p].size /\ ~Queued(h)}}
<1>1. job' = job \cup opened /\ UNCHANGED <<leaf, ckpt>>
  BY DEF Enqueue
<1>2. \A j \in opened : j.state # "CONFIRMED"
  OBVIOUS
<1> HIDE DEF opened
<1>3. Anchored' = Anchored
  BY <1>1, <1>2 DEF Anchored
<1>4. Log' = Log /\ Heads' = Heads /\ Receipts' = Receipts
  BY <1>1 DEF Log, Heads, Receipts
<1>. QED  BY <1>3, <1>4 DEF Public!publicVars

\* A job that confirms anchors its head, and every checkpoint of it shows the receipt.
LEMMA ConfirmAnchors ==
  ASSUME TypesInv, LogInv, NEW j \in job, JobConfirms(j)
  PROVE  \E head \in Heads : Public!Anchor(head)
<1> DEFINE done == [j EXCEPT !.state = "CONFIRMED"]
           shown(c) == IF c.head = j.head THEN [c EXCEPT !.external = @ \cup {j.head}] ELSE c
           shows(c) == {[head |-> c.head, of |-> e] : e \in c.external}
           receipt == [head |-> j.head, of |-> j.head]
<1>1. /\ j.state = "OPEN" /\ UNCHANGED leaf
      /\ job' = (job \ {j}) \cup {done} /\ ckpt' = {shown(c) : c \in ckpt}
  BY DEF JobConfirms
<1>2. done.head = j.head /\ done.state = "CONFIRMED"
  BY DEF TypesInv, Shaped
<1> HIDE DEF done
<1>3. Anchored' = Anchored \cup {j.head}
  <2> DEFINE over == {i \in job : i.state = "CONFIRMED"}
  <2>1. {i \in job' : i.state = "CONFIRMED"} = over \cup {done}
    BY <1>1, <1>2
  <2>2. Anchored = {i.head : i \in over} /\ Anchored' = {i.head : i \in {i \in job' : i.state = "CONFIRMED"}}
    BY DEF Anchored
  <2> HIDE DEF over
  <2>. QED  BY <1>2, <2>1, <2>2
<1>4. \A c \in ckpt : shown(c).head = c.head /\ shows(shown(c)) = IF c.head = j.head THEN shows(c) \cup {receipt} ELSE shows(c)
  <2> SUFFICES ASSUME NEW c \in ckpt
      PROVE  shown(c).head = c.head /\ shows(shown(c)) = IF c.head = j.head THEN shows(c) \cup {receipt} ELSE shows(c)
    OBVIOUS
  <2>1. c = [head |-> c.head, external |-> c.external]
    BY DEF TypesInv, Shaped
  <2>2. CASE c.head = j.head
    <3>1. shown(c).head = c.head /\ shown(c).external = c.external \cup {j.head}
      BY <2>1, <2>2
    <3> HIDE DEF shown
    <3>. QED  BY <2>2, <3>1
  <2>3. CASE c.head # j.head
    BY <2>3
  <2>. QED  BY <2>2, <2>3
<1>5. PICK own \in ckpt : own.head = j.head
  BY DEF TypesInv, LogTypeOK, Heads
<1>6. Receipts = UNION {shows(c) : c \in ckpt} /\ Receipts' = UNION {shows(c) : c \in ckpt'}
  BY DEF Receipts
<1>7. (\A d \in ckpt' : \E c \in ckpt : d = shown(c)) /\ \A c \in ckpt : shown(c) \in ckpt'
  BY <1>1
<1> HIDE DEF shown, shows, receipt
<1>8. Heads' = Heads
  BY <1>4, <1>7 DEF Heads
<1>9. Receipts' = Receipts \cup {receipt}
  <2>1. \A r \in Receipts' : r \in Receipts \cup {receipt}
    <3> SUFFICES ASSUME NEW d \in ckpt', NEW r \in shows(d) PROVE r \in Receipts \cup {receipt}
      BY <1>6
    <3>1. PICK c \in ckpt : d = shown(c)
      BY <1>7
    <3>2. r \in shows(c) \cup {receipt}
      BY <1>4, <3>1
    <3>. QED  BY <1>6, <3>2
  <2>2. \A c \in ckpt : shows(c) \subseteq shows(shown(c))
    BY <1>4
  <2>3. Receipts \subseteq Receipts'
    BY <1>6, <1>7, <2>2
  <2>4. receipt \in Receipts'
    <3>1. receipt \in shows(shown(own))
      BY <1>4, <1>5
    <3>. QED  BY <1>6, <1>7, <3>1
  <2>. QED  BY <2>1, <2>3, <2>4
<1>10. Log' = Log /\ j.head \in Heads
  BY <1>1 DEF Log, TypesInv, LogTypeOK
<1>. QED  BY <1>3, <1>8, <1>9, <1>10 DEF Public!Anchor, Public!Receipt, receipt

\* Every step of the log is one that its readers were promised, or none for them.
LEMMA StepKeepsPromise ==
  ASSUME TypesInv, LogInv, [Next]_vars
  PROVE  [Public!PublicNext]_Public!publicVars
<1>1. ASSUME NEW p \in Process,
             \/ \E s \in Scan : IssueResult(p, s)
             \/ RecordEvent(p) \/ (\E r \in Rows : ReadStatus(p, r))
             \/ (\E type \in Changes : AppendStatus(p, type))
             \/ AppendRead(p) \/ FlushRead(p) \/ ReconcileUnqueued(p) \/ Recover(p) \/ Fault(p)
      PROVE  UNCHANGED Public!publicVars
  <2>1. UNCHANGED <<leaf, ckpt, job>>
    BY <1>1 DEF IssueResult, RecordEvent, ReadStatus, AppendStatus, AppendRead, FlushRead,
                ReconcileUnqueued, Recover, Fault
  <2>. QED  BY <2>1, Unseen
<1>2. ASSUME NEW p \in Process, AppendInsert(p) PROVE Public!PublicNext \/ UNCHANGED Public!publicVars
  BY <1>2, InsertExtends DEF Public!PublicNext
<1>3. ASSUME NEW p \in Process, FlushWrite(p) PROVE Public!PublicNext \/ UNCHANGED Public!publicVars
  BY <1>3, FlushSigns DEF Public!PublicNext
<1>4. ASSUME NEW p \in Process, Enqueue(p) PROVE UNCHANGED Public!publicVars
  BY <1>4, EnqueueUnseen
<1>5. ASSUME NEW j \in job, JobConfirms(j) PROVE Public!PublicNext
  BY <1>5, ConfirmAnchors DEF Public!PublicNext
<1>6. CASE UNCHANGED vars
  <2>1. UNCHANGED <<leaf, ckpt, job>>
    BY <1>6 DEF vars
  <2>. QED  BY <2>1, Unseen
<1>. QED  BY <1>1, <1>2, <1>3, <1>4, <1>5, <1>6 DEF Next, Dispatch, Work

\* A history that was anchored as a whole keeps the promise.
LEMMA InitKeepsPromise ==
  ASSUME Init
  PROVE  Public!PublicInit
<1>1. TypesInv /\ LogInv
  BY InitLog
<1>2. PICK h \in Histories :
        LET head == [size |-> h, root |-> RootAt([i \in 1 .. h |-> i], h)] IN
        /\ ckpt = IF h = 0 THEN {} ELSE {[head |-> head, external |-> {head}]}
        /\ job = IF h = 0 THEN {} ELSE {[head |-> head, state |-> "CONFIRMED"]}
  BY DEF Init
<1> DEFINE head == [size |-> h, root |-> RootAt([i \in 1 .. h |-> i], h)]
<1>3. Len(Log) = Size /\ \A x \in Heads : x.size \in 1 .. Size /\ x.root = RootAt(Log, x.size)
                                           /\ x = [size |-> x.size, root |-> x.root]
  BY <1>1, LogIs DEF TypesInv, LogInv, HeadOK, Shaped
<1>4. \A x \in Heads : x = Public!HeadOf(Log, x.size)
  BY <1>3 DEF Public!HeadOf
<1> HIDE DEF head
<1>5. Anchored \subseteq Heads /\ Receipts = {Public!Receipt(x) : x \in Anchored}
  <2>1. CASE h = 0
    <3>1. ckpt = {} /\ job = {}
      BY <1>2, <2>1
    <3>. QED  BY <3>1 DEF Anchored, Receipts, Heads
  <2>2. CASE h # 0
    <3>1. ckpt = {[head |-> head, external |-> {head}]} /\ job = {[head |-> head, state |-> "CONFIRMED"]}
      BY <1>2, <2>2 DEF head
    <3>2. Anchored = {head} /\ Heads = {head}
      <4> DEFINE own == [head |-> head, external |-> {head}]
                 done == [head |-> head, state |-> "CONFIRMED"]
      <4>1. own.head = head /\ done.head = head /\ done.state = "CONFIRMED"
        OBVIOUS
      <4>2. ckpt = {own} /\ job = {done}
        BY <3>1
      <4> HIDE DEF own, done
      <4>. QED  BY <4>1, <4>2 DEF Anchored, Heads
    <3>3. Receipts = {[head |-> head, of |-> head]}
      BY <3>1 DEF Receipts
    <3>. QED  BY <3>2, <3>3 DEF Public!Receipt
  <2>. QED  BY <2>1, <2>2
<1>6. \A i, k \in 1 .. Len(Log) : Log[i] = Log[k] => i = k
  BY <1>1, <1>3, NoRecordTwice
<1>. QED  BY <1>3, <1>4, <1>5, <1>6 DEF Public!PublicInit


--------------------------------------------------------------------------------
(* The tree.  What a loop computes is shown by induction, as a fact about the    *)
(* set of the rounds for which it holds: without a least exception there is none. *)

\* A set of numbers that holds 0 and, with each of its elements, the next.
LEMMA Reaches ==
  ASSUME NEW S, 0 \in S, \A n \in Nat : n \in S => n + 1 \in S
  PROVE  \A n \in Nat : n \in S
<1> SUFFICES ASSUME NEW m \in Nat, m \notin S PROVE FALSE
  OBVIOUS
<1> DEFINE T == {n \in Nat : n \notin S}
<1>1. Min(T) \in T /\ \A y \in T : Min(T) <= y
  BY MinIsThere
<1>2. PICK x \in T : \A y \in T : x <= y
  BY <1>1
<1>3. x - 1 \in Nat /\ x - 1 \notin T /\ x - 1 + 1 = x
  BY <1>2
<1>. QED  BY <1>2, <1>3

\* A set of numbers that holds each number when it holds all smaller ones.
LEMMA ReachesFromBelow ==
  ASSUME NEW S, \A n \in Nat : (\A m \in Nat : m < n => m \in S) => n \in S
  PROVE  \A n \in Nat : n \in S
<1> SUFFICES ASSUME NEW m \in Nat, m \notin S PROVE FALSE
  OBVIOUS
<1> DEFINE T == {n \in Nat : n \notin S}
<1>1. Min(T) \in T /\ \A y \in T : Min(T) <= y
  BY MinIsThere
<1>2. PICK x \in T : \A y \in T : x <= y
  BY <1>1
<1>3. \A y \in Nat : y < x => y \in S
  BY <1>2
<1>. QED  BY <1>2, <1>3

\* s is a sequence of n elements, whatever they are.
HasLen(s, n) == n \in Nat /\ Len(s) = n /\ s = [i \in 1 .. n |-> s[i]]

\* A function on 1 .. n is one.
LEMMA IsSequence ==
  ASSUME NEW n \in Nat, NEW s, s = [i \in 1 .. n |-> s[i]]
  PROVE  HasLen(s, n) /\ DOMAIN s = 1 .. n
<1> DEFINE S == {s[i] : i \in 1 .. n}
<1>1. s \in [1 .. n -> S]
  <2>1. \A i \in 1 .. n : s[i] \in S
    OBVIOUS
  <2> HIDE DEF S
  <2>. QED  BY <2>1
<1> HIDE DEF S
<1>2. s \in Seq(S)
  BY <1>1
<1>3. DOMAIN s = 1 .. n
  BY <1>1
<1>. QED  BY <1>2, <1>3 DEF HasLen

\* more is p, of n elements, and one item.
IsOneMore(more, p, n, item) ==
  HasLen(more, n + 1) /\ more[n + 1] = item /\ \A i \in 1 .. n : more[i] = p[i]

\* Appending an item to a path, and appending nothing.
LEMMA OneMore ==
  ASSUME NEW p, NEW n \in Nat, NEW item, HasLen(p, n)
  PROVE  IsOneMore(p \o <<item>>, p, n, item)
<1> DEFINE S == {p[i] : i \in 1 .. n} \cup {item}
           more == p \o <<item>>
<1>1. p \in Seq(S) /\ Len(p) = n /\ item \in S
  <2>1. \A i \in 1 .. n : p[i] \in S
    OBVIOUS
  <2>2. item \in S
    OBVIOUS
  <2> HIDE DEF S
  <2>3. p \in [1 .. n -> S]
    BY <2>1 DEF HasLen
  <2>. QED  BY <2>2, <2>3
<1> HIDE DEF S
<1>2. <<item>> \in Seq(S) /\ Len(<<item>>) = 1
  BY <1>1
<1>3. more \in Seq(S) /\ Len(more) = n + 1 /\ more[n + 1] = item
  BY <1>1, <1>2
<1>4. \A i \in 1 .. n : more[i] = p[i]
  BY <1>1, <1>2
<1> HIDE DEF more
<1>5. more \in [1 .. n + 1 -> S]
  BY <1>3
<1>6. more = [i \in 1 .. n + 1 |-> more[i]]
  BY <1>5
<1>7. HasLen(more, n + 1)
  BY <1>3, <1>6 DEF HasLen
<1>8. IsOneMore(more, p, n, item)
  BY <1>3, <1>4, <1>7 DEF IsOneMore
<1>. QED  BY <1>8 DEF more

LEMMA NoMore ==
  ASSUME NEW p, NEW n \in Nat, HasLen(p, n)
  PROVE  p \o <<>> = p
<1> DEFINE S == {p[i] : i \in 1 .. n}
<1>1. p \in Seq(S)
  <2>1. \A i \in 1 .. n : p[i] \in S
    OBVIOUS
  <2> HIDE DEF S
  <2>2. p \in [1 .. n -> S]
    BY <2>1 DEF HasLen
  <2>. QED  BY <2>2
<1> HIDE DEF S
<1>. QED  BY <1>1

\* The levels are those of the loop of compute_root.
LEMMA LevelIs ==
  ASSUME NEW leaves
  PROVE  /\ Level(leaves, 0) = leaves
         /\ \A k \in Nat : Level(leaves, k + 1) = NextLevel(Level(leaves, k))
<1> DEFINE Follows(f, n) == f[0] = leaves /\ \A i \in 0 .. n - 1 : f[i + 1] = NextLevel(f[i])
           Upto(f, n) == f = [i \in 0 .. n |-> f[i]] /\ Follows(f, n)
<1>1. \A n \in Nat : \E f : Upto(f, n)
  <2> DEFINE S == {n \in Nat : \E f : Upto(f, n)}
  <2>1. 0 \in S
    <3> DEFINE f == [i \in 0 .. 0 |-> leaves]
    <3>1. Upto(f, 0)
      OBVIOUS
    <3>. QED  BY <3>1
  <2>2. ASSUME NEW n \in Nat, n \in S PROVE n + 1 \in S
    <3>1. PICK f : Upto(f, n)
      BY <2>2
    <3> DEFINE g == [i \in 0 .. n + 1 |-> IF i = n + 1 THEN NextLevel(f[n]) ELSE f[i]]
    <3>2. g[0] = f[0] /\ g[n + 1] = NextLevel(f[n]) /\ \A i \in 0 .. n : g[i] = f[i]
      OBVIOUS
    <3>3. g = [i \in 0 .. n + 1 |-> g[i]]
      OBVIOUS
    <3> HIDE DEF g
    <3>4. ASSUME NEW i \in 0 .. n + 1 - 1 PROVE g[i + 1] = NextLevel(g[i])
      <4>1. CASE i = n
        BY <3>2, <4>1
      <4>2. CASE i \in 0 .. n - 1
        <5>1. i + 1 \in 0 .. n /\ i \in 0 .. n
          BY <4>2
        <5>. QED  BY <3>1, <3>2, <4>2, <5>1
      <4>. QED  BY <4>1, <4>2
    <3>5. g[0] = leaves
      BY <3>1, <3>2
    <3>6. Follows(g, n + 1)
      BY <3>4, <3>5
    <3>7. \E h : Upto(h, n + 1)
      <4> HIDE DEF Follows
      <4>. QED  BY <3>3, <3>6
    <3>8. n + 1 \in Nat
      OBVIOUS
    <3>. QED  BY <3>7, <3>8
  <2>3. \A n \in Nat : n \in S
    <3> HIDE DEF S
    <3>. QED  BY <2>1, <2>2, Reaches
  <2>. QED  BY <2>3
<1>2. ASSUME NEW n \in Nat, NEW m \in Nat, NEW f, NEW g, Follows(f, n), Follows(g, m)
      PROVE  \A i \in Nat : i <= n /\ i <= m => f[i] = g[i]
  <2> DEFINE S == {i \in Nat : i <= n /\ i <= m => f[i] = g[i]}
  <2>1. 0 \in S
    BY <1>2
  <2>2. ASSUME NEW i \in Nat, i \in S PROVE i + 1 \in S
    <3> SUFFICES ASSUME i + 1 <= n, i + 1 <= m PROVE f[i + 1] = g[i + 1]
      OBVIOUS
    <3>1. i \in 0 .. n - 1 /\ i \in 0 .. m - 1 /\ f[i] = g[i]
      BY <2>2
    <3>. QED  BY <1>2, <3>1
  <2>3. \A i \in Nat : i \in S
    <3> HIDE DEF S
    <3>. QED  BY <2>1, <2>2, Reaches
  <2>. QED  BY <2>3
<1> DEFINE c(n) == CHOOSE f : Upto(f, n)
           F == [n \in Nat |-> c(n)[n]]
<1>3. \A n \in Nat : Upto(c(n), n)
  <2> HIDE DEF Upto
  <2>. QED  BY <1>1
<1>4. \A n \in Nat : Follows(c(n), n)
  BY <1>3
<1> HIDE DEF c
<1>5. F[0] = leaves
  BY <1>4
<1>6. ASSUME NEW n \in Nat PROVE F[n + 1] = NextLevel(F[n])
  <2>1. c(n + 1)[n] = c(n)[n]
    <3>1. n + 1 \in Nat /\ Follows(c(n + 1), n + 1) /\ Follows(c(n), n) /\ n <= n + 1 /\ n <= n
      BY <1>4
    <3> HIDE DEF Follows
    <3>. QED  BY <1>2, <3>1
  <2>2. n \in 0 .. n + 1 - 1 /\ n + 1 \in Nat
    OBVIOUS
  <2>3. c(n + 1)[n + 1] = NextLevel(c(n + 1)[n])
    BY <1>4, <2>2
  <2>. QED  BY <2>1, <2>2, <2>3
<1>7. ASSUME NEW n \in Nat PROVE F[n] = IF n = 0 THEN leaves ELSE NextLevel(F[n - 1])
  <2>1. CASE n = 0
    BY <1>5, <2>1
  <2>2. CASE n # 0
    <3> DEFINE m == n - 1
    <3>1. m \in Nat /\ m + 1 = n
      BY <2>2
    <3> HIDE DEF m
    <3>2. F[m + 1] = NextLevel(F[m])
      BY <1>6, <3>1
    <3>3. F[n] = NextLevel(F[m])
      BY <3>1, <3>2
    <3>. QED  BY <2>2, <3>3 DEF m
  <2>. QED  BY <2>1, <2>2
<1>8. F = [n \in Nat |-> F[n]]
  OBVIOUS
<1> HIDE DEF F
<1> DEFINE Solves(f) == f = [n \in Nat |-> IF n = 0 THEN leaves ELSE NextLevel(f[n - 1])]
<1>9. Solves(F)
  BY <1>7, <1>8
<1> DEFINE G == CHOOSE f : Solves(f)
<1>10. Solves(G)
  BY <1>9, Zenon
<1>11. \A k : Level(leaves, k) = G[k]
  BY Zenon DEF Level
<1> HIDE DEF G
<1>12. G[0] = leaves
  BY <1>10
<1>13. ASSUME NEW k \in Nat PROVE G[k + 1] = NextLevel(G[k])
  <2>1. k + 1 \in Nat /\ k + 1 # 0 /\ k + 1 - 1 = k
    OBVIOUS
  <2>. QED  BY <1>10, <2>1
<1>. QED  BY <1>11, <1>12, <1>13

\* Cursor and path are those of the loop of _root_and_proof.
LEMMA ClimbIs ==
  ASSUME NEW leaves, NEW index
  PROVE  /\ Climb(leaves, index, 0) = [cursor |-> index, path |-> <<>>]
         /\ \A k \in Nat : Climb(leaves, index, k + 1) = Climbs(Level(leaves, k), Climb(leaves, index, k))
<1> DEFINE Follows(f, n) == f[0] = [cursor |-> index, path |-> <<>>] /\ \A i \in 0 .. n - 1 : f[i + 1] = Climbs(Level(leaves, i + 1 - 1), f[i])
           Upto(f, n) == f = [i \in 0 .. n |-> f[i]] /\ Follows(f, n)
<1>1. \A n \in Nat : \E f : Upto(f, n)
  <2> DEFINE S == {n \in Nat : \E f : Upto(f, n)}
  <2>1. 0 \in S
    <3> DEFINE f == [i \in 0 .. 0 |-> [cursor |-> index, path |-> <<>>]]
    <3>1. Upto(f, 0)
      OBVIOUS
    <3>. QED  BY <3>1
  <2>2. ASSUME NEW n \in Nat, n \in S PROVE n + 1 \in S
    <3>1. PICK f : Upto(f, n)
      BY <2>2
    <3> DEFINE g == [i \in 0 .. n + 1 |-> IF i = n + 1 THEN Climbs(Level(leaves, n + 1 - 1), f[n]) ELSE f[i]]
    <3>2. g[0] = f[0] /\ g[n + 1] = Climbs(Level(leaves, n + 1 - 1), f[n]) /\ \A i \in 0 .. n : g[i] = f[i]
      OBVIOUS
    <3>3. g = [i \in 0 .. n + 1 |-> g[i]]
      OBVIOUS
    <3> HIDE DEF g
    <3>4. ASSUME NEW i \in 0 .. n + 1 - 1 PROVE g[i + 1] = Climbs(Level(leaves, i + 1 - 1), g[i])
      <4>1. CASE i = n
        BY <3>2, <4>1
      <4>2. CASE i \in 0 .. n - 1
        <5>1. i + 1 \in 0 .. n /\ i \in 0 .. n
          BY <4>2
        <5>. QED  BY <3>1, <3>2, <4>2, <5>1
      <4>. QED  BY <4>1, <4>2
    <3>5. g[0] = [cursor |-> index, path |-> <<>>]
      BY <3>1, <3>2
    <3>6. Follows(g, n + 1)
      BY <3>4, <3>5
    <3>7. \E h : Upto(h, n + 1)
      <4> HIDE DEF Follows
      <4>. QED  BY <3>3, <3>6
    <3>8. n + 1 \in Nat
      OBVIOUS
    <3>. QED  BY <3>7, <3>8
  <2>3. \A n \in Nat : n \in S
    <3> HIDE DEF S
    <3>. QED  BY <2>1, <2>2, Reaches
  <2>. QED  BY <2>3
<1>2. ASSUME NEW n \in Nat, NEW m \in Nat, NEW f, NEW g, Follows(f, n), Follows(g, m)
      PROVE  \A i \in Nat : i <= n /\ i <= m => f[i] = g[i]
  <2> DEFINE S == {i \in Nat : i <= n /\ i <= m => f[i] = g[i]}
  <2>1. 0 \in S
    BY <1>2
  <2>2. ASSUME NEW i \in Nat, i \in S PROVE i + 1 \in S
    <3> SUFFICES ASSUME i + 1 <= n, i + 1 <= m PROVE f[i + 1] = g[i + 1]
      OBVIOUS
    <3>1. i \in 0 .. n - 1 /\ i \in 0 .. m - 1 /\ f[i] = g[i]
      BY <2>2
    <3>. QED  BY <1>2, <3>1
  <2>3. \A i \in Nat : i \in S
    <3> HIDE DEF S
    <3>. QED  BY <2>1, <2>2, Reaches
  <2>. QED  BY <2>3
<1> DEFINE c(n) == CHOOSE f : Upto(f, n)
           F == [n \in Nat |-> c(n)[n]]
<1>3. \A n \in Nat : Upto(c(n), n)
  <2> HIDE DEF Upto
  <2>. QED  BY <1>1
<1>4. \A n \in Nat : Follows(c(n), n)
  BY <1>3
<1> HIDE DEF c
<1>5. F[0] = [cursor |-> index, path |-> <<>>]
  BY <1>4
<1>6. ASSUME NEW n \in Nat PROVE F[n + 1] = Climbs(Level(leaves, n + 1 - 1), F[n])
  <2>1. c(n + 1)[n] = c(n)[n]
    <3>1. n + 1 \in Nat /\ Follows(c(n + 1), n + 1) /\ Follows(c(n), n) /\ n <= n + 1 /\ n <= n
      BY <1>4
    <3> HIDE DEF Follows
    <3>. QED  BY <1>2, <3>1
  <2>2. n \in 0 .. n + 1 - 1 /\ n + 1 \in Nat
    OBVIOUS
  <2>3. c(n + 1)[n + 1] = Climbs(Level(leaves, n + 1 - 1), c(n + 1)[n])
    BY <1>4, <2>2
  <2>. QED  BY <2>1, <2>2, <2>3
<1>7. ASSUME NEW n \in Nat PROVE F[n] = IF n = 0 THEN [cursor |-> index, path |-> <<>>] ELSE Climbs(Level(leaves, n - 1), F[n - 1])
  <2>1. CASE n = 0
    BY <1>5, <2>1
  <2>2. CASE n # 0
    <3> DEFINE m == n - 1
    <3>1. m \in Nat /\ m + 1 = n
      BY <2>2
    <3> HIDE DEF m
    <3>2. F[m + 1] = Climbs(Level(leaves, m + 1 - 1), F[m])
      BY <1>6, <3>1
    <3>3. F[n] = Climbs(Level(leaves, n - 1), F[m])
      BY <3>1, <3>2
    <3>. QED  BY <2>2, <3>3 DEF m
  <2>. QED  BY <2>1, <2>2
<1>8. F = [n \in Nat |-> F[n]]
  OBVIOUS
<1> HIDE DEF F
<1> DEFINE Solves(f) == f = [n \in Nat |-> IF n = 0 THEN [cursor |-> index, path |-> <<>>] ELSE Climbs(Level(leaves, n - 1), f[n - 1])]
<1>9. Solves(F)
  BY <1>7, <1>8
<1> DEFINE G == CHOOSE f : Solves(f)
<1>10. Solves(G)
  BY <1>9, Zenon
<1>11. \A k : Climb(leaves, index, k) = G[k]
  BY Zenon DEF Climb
<1> HIDE DEF G
<1>12. G[0] = [cursor |-> index, path |-> <<>>]
  BY <1>10
<1>13. ASSUME NEW k \in Nat PROVE G[k + 1] = Climbs(Level(leaves, k), G[k])
  <2>1. k + 1 \in Nat /\ k + 1 # 0 /\ k + 1 - 1 = k
    OBVIOUS
  <2>. QED  BY <1>10, <2>1
<1>. QED  BY <1>11, <1>12, <1>13

\* The values are those of the loop of verify_inclusion.
LEMMA RecomputedIs ==
  ASSUME NEW packet, NEW path
  PROVE  /\ Recomputed(packet, path, 0) = LeafHash(packet)
         /\ \A k \in Nat : Recomputed(packet, path, k + 1) = Combine(path[k + 1], Recomputed(packet, path, k))
<1> DEFINE Follows(f, n) == f[0] = LeafHash(packet) /\ \A i \in 0 .. n - 1 : f[i + 1] = Combine(path[i + 1], f[i])
           Upto(f, n) == f = [i \in 0 .. n |-> f[i]] /\ Follows(f, n)
<1>1. \A n \in Nat : \E f : Upto(f, n)
  <2> DEFINE S == {n \in Nat : \E f : Upto(f, n)}
  <2>1. 0 \in S
    <3> DEFINE f == [i \in 0 .. 0 |-> LeafHash(packet)]
    <3>1. Upto(f, 0)
      OBVIOUS
    <3>. QED  BY <3>1
  <2>2. ASSUME NEW n \in Nat, n \in S PROVE n + 1 \in S
    <3>1. PICK f : Upto(f, n)
      BY <2>2
    <3> DEFINE g == [i \in 0 .. n + 1 |-> IF i = n + 1 THEN Combine(path[n + 1], f[n]) ELSE f[i]]
    <3>2. g[0] = f[0] /\ g[n + 1] = Combine(path[n + 1], f[n]) /\ \A i \in 0 .. n : g[i] = f[i]
      OBVIOUS
    <3>3. g = [i \in 0 .. n + 1 |-> g[i]]
      OBVIOUS
    <3> HIDE DEF g
    <3>4. ASSUME NEW i \in 0 .. n + 1 - 1 PROVE g[i + 1] = Combine(path[i + 1], g[i])
      <4>1. CASE i = n
        BY <3>2, <4>1
      <4>2. CASE i \in 0 .. n - 1
        <5>1. i + 1 \in 0 .. n /\ i \in 0 .. n
          BY <4>2
        <5>. QED  BY <3>1, <3>2, <4>2, <5>1
      <4>. QED  BY <4>1, <4>2
    <3>5. g[0] = LeafHash(packet)
      BY <3>1, <3>2
    <3>6. Follows(g, n + 1)
      BY <3>4, <3>5
    <3>7. \E h : Upto(h, n + 1)
      <4> HIDE DEF Follows
      <4>. QED  BY <3>3, <3>6
    <3>8. n + 1 \in Nat
      OBVIOUS
    <3>. QED  BY <3>7, <3>8
  <2>3. \A n \in Nat : n \in S
    <3> HIDE DEF S
    <3>. QED  BY <2>1, <2>2, Reaches
  <2>. QED  BY <2>3
<1>2. ASSUME NEW n \in Nat, NEW m \in Nat, NEW f, NEW g, Follows(f, n), Follows(g, m)
      PROVE  \A i \in Nat : i <= n /\ i <= m => f[i] = g[i]
  <2> DEFINE S == {i \in Nat : i <= n /\ i <= m => f[i] = g[i]}
  <2>1. 0 \in S
    BY <1>2
  <2>2. ASSUME NEW i \in Nat, i \in S PROVE i + 1 \in S
    <3> SUFFICES ASSUME i + 1 <= n, i + 1 <= m PROVE f[i + 1] = g[i + 1]
      OBVIOUS
    <3>1. i \in 0 .. n - 1 /\ i \in 0 .. m - 1 /\ f[i] = g[i]
      BY <2>2
    <3>. QED  BY <1>2, <3>1
  <2>3. \A i \in Nat : i \in S
    <3> HIDE DEF S
    <3>. QED  BY <2>1, <2>2, Reaches
  <2>. QED  BY <2>3
<1> DEFINE c(n) == CHOOSE f : Upto(f, n)
           F == [n \in Nat |-> c(n)[n]]
<1>3. \A n \in Nat : Upto(c(n), n)
  <2> HIDE DEF Upto
  <2>. QED  BY <1>1
<1>4. \A n \in Nat : Follows(c(n), n)
  BY <1>3
<1> HIDE DEF c
<1>5. F[0] = LeafHash(packet)
  BY <1>4
<1>6. ASSUME NEW n \in Nat PROVE F[n + 1] = Combine(path[n + 1], F[n])
  <2>1. c(n + 1)[n] = c(n)[n]
    <3>1. n + 1 \in Nat /\ Follows(c(n + 1), n + 1) /\ Follows(c(n), n) /\ n <= n + 1 /\ n <= n
      BY <1>4
    <3> HIDE DEF Follows
    <3>. QED  BY <1>2, <3>1
  <2>2. n \in 0 .. n + 1 - 1 /\ n + 1 \in Nat
    OBVIOUS
  <2>3. c(n + 1)[n + 1] = Combine(path[n + 1], c(n + 1)[n])
    BY <1>4, <2>2
  <2>. QED  BY <2>1, <2>2, <2>3
<1>7. ASSUME NEW n \in Nat PROVE F[n] = IF n = 0 THEN LeafHash(packet) ELSE Combine(path[n], F[n - 1])
  <2>1. CASE n = 0
    BY <1>5, <2>1
  <2>2. CASE n # 0
    <3> DEFINE m == n - 1
    <3>1. m \in Nat /\ m + 1 = n
      BY <2>2
    <3> HIDE DEF m
    <3>2. F[m + 1] = Combine(path[m + 1], F[m])
      BY <1>6, <3>1
    <3>3. F[n] = Combine(path[n], F[m])
      BY <3>1, <3>2
    <3>. QED  BY <2>2, <3>3 DEF m
  <2>. QED  BY <2>1, <2>2
<1>8. F = [n \in Nat |-> F[n]]
  OBVIOUS
<1> HIDE DEF F
<1> DEFINE Solves(f) == f = [n \in Nat |-> IF n = 0 THEN LeafHash(packet) ELSE Combine(path[n], f[n - 1])]
<1>9. Solves(F)
  BY <1>7, <1>8
<1> DEFINE G == CHOOSE f : Solves(f)
<1>10. Solves(G)
  BY <1>9, Zenon
<1>11. \A k : Recomputed(packet, path, k) = G[k]
  BY Zenon DEF Recomputed
<1> HIDE DEF G
<1>12. G[0] = LeafHash(packet)
  BY <1>10
<1>13. ASSUME NEW k \in Nat PROVE G[k + 1] = Combine(path[k + 1], G[k])
  <2>1. k + 1 \in Nat /\ k + 1 # 0 /\ k + 1 - 1 = k
    OBVIOUS
  <2>. QED  BY <1>10, <2>1
<1>. QED  BY <1>11, <1>12, <1>13

\* The powers of two are doubled from one to the next.
LEMMA PowerIs ==
  Power[0] = 1 /\ \A k \in Nat : Power[k + 1] = 2 * Power[k]
<1> DEFINE Follows(f, n) == f[0] = 1 /\ \A i \in 0 .. n - 1 : f[i + 1] = 2 * f[i]
           Upto(f, n) == f = [i \in 0 .. n |-> f[i]] /\ Follows(f, n)
<1>1. \A n \in Nat : \E f : Upto(f, n)
  <2> DEFINE S == {n \in Nat : \E f : Upto(f, n)}
  <2>1. 0 \in S
    <3> DEFINE f == [i \in 0 .. 0 |-> 1]
    <3>1. Upto(f, 0)
      OBVIOUS
    <3>. QED  BY <3>1
  <2>2. ASSUME NEW n \in Nat, n \in S PROVE n + 1 \in S
    <3>1. PICK f : Upto(f, n)
      BY <2>2
    <3> DEFINE g == [i \in 0 .. n + 1 |-> IF i = n + 1 THEN 2 * f[n] ELSE f[i]]
    <3>2. g[0] = f[0] /\ g[n + 1] = 2 * f[n] /\ \A i \in 0 .. n : g[i] = f[i]
      OBVIOUS
    <3>3. g = [i \in 0 .. n + 1 |-> g[i]]
      OBVIOUS
    <3> HIDE DEF g
    <3>4. ASSUME NEW i \in 0 .. n + 1 - 1 PROVE g[i + 1] = 2 * g[i]
      <4>1. CASE i = n
        BY <3>2, <4>1
      <4>2. CASE i \in 0 .. n - 1
        <5>1. i + 1 \in 0 .. n /\ i \in 0 .. n
          BY <4>2
        <5>. QED  BY <3>1, <3>2, <4>2, <5>1
      <4>. QED  BY <4>1, <4>2
    <3>5. g[0] = 1
      BY <3>1, <3>2
    <3>6. Follows(g, n + 1)
      BY <3>4, <3>5
    <3>7. \E h : Upto(h, n + 1)
      <4> HIDE DEF Follows
      <4>. QED  BY <3>3, <3>6
    <3>8. n + 1 \in Nat
      OBVIOUS
    <3>. QED  BY <3>7, <3>8
  <2>3. \A n \in Nat : n \in S
    <3> HIDE DEF S
    <3>. QED  BY <2>1, <2>2, Reaches
  <2>. QED  BY <2>3
<1>2. ASSUME NEW n \in Nat, NEW m \in Nat, NEW f, NEW g, Follows(f, n), Follows(g, m)
      PROVE  \A i \in Nat : i <= n /\ i <= m => f[i] = g[i]
  <2> DEFINE S == {i \in Nat : i <= n /\ i <= m => f[i] = g[i]}
  <2>1. 0 \in S
    BY <1>2
  <2>2. ASSUME NEW i \in Nat, i \in S PROVE i + 1 \in S
    <3> SUFFICES ASSUME i + 1 <= n, i + 1 <= m PROVE f[i + 1] = g[i + 1]
      OBVIOUS
    <3>1. i \in 0 .. n - 1 /\ i \in 0 .. m - 1 /\ f[i] = g[i]
      BY <2>2
    <3>. QED  BY <1>2, <3>1
  <2>3. \A i \in Nat : i \in S
    <3> HIDE DEF S
    <3>. QED  BY <2>1, <2>2, Reaches
  <2>. QED  BY <2>3
<1> DEFINE c(n) == CHOOSE f : Upto(f, n)
           F == [n \in Nat |-> c(n)[n]]
<1>3. \A n \in Nat : Upto(c(n), n)
  <2> HIDE DEF Upto
  <2>. QED  BY <1>1
<1>4. \A n \in Nat : Follows(c(n), n)
  BY <1>3
<1> HIDE DEF c
<1>5. F[0] = 1
  BY <1>4
<1>6. ASSUME NEW n \in Nat PROVE F[n + 1] = 2 * F[n]
  <2>1. c(n + 1)[n] = c(n)[n]
    <3>1. n + 1 \in Nat /\ Follows(c(n + 1), n + 1) /\ Follows(c(n), n) /\ n <= n + 1 /\ n <= n
      BY <1>4
    <3> HIDE DEF Follows
    <3>. QED  BY <1>2, <3>1
  <2>2. n \in 0 .. n + 1 - 1 /\ n + 1 \in Nat
    OBVIOUS
  <2>3. c(n + 1)[n + 1] = 2 * c(n + 1)[n]
    BY <1>4, <2>2
  <2>. QED  BY <2>1, <2>2, <2>3
<1>7. ASSUME NEW n \in Nat PROVE F[n] = IF n = 0 THEN 1 ELSE 2 * F[n - 1]
  <2>1. CASE n = 0
    BY <1>5, <2>1
  <2>2. CASE n # 0
    <3> DEFINE m == n - 1
    <3>1. m \in Nat /\ m + 1 = n
      BY <2>2
    <3> HIDE DEF m
    <3>2. F[m + 1] = 2 * F[m]
      BY <1>6, <3>1
    <3>3. F[n] = 2 * F[m]
      BY <3>1, <3>2
    <3>. QED  BY <2>2, <3>3 DEF m
  <2>. QED  BY <2>1, <2>2
<1>8. F = [n \in Nat |-> F[n]]
  OBVIOUS
<1> HIDE DEF F
<1> DEFINE Solves(f) == f = [n \in Nat |-> IF n = 0 THEN 1 ELSE 2 * f[n - 1]]
<1>9. Solves(F)
  BY <1>7, <1>8
<1> DEFINE G == CHOOSE f : Solves(f)
<1>10. Solves(G)
  BY <1>9, Zenon
<1>11. Power = G
  BY Zenon DEF Power
<1> HIDE DEF G
<1>12. G[0] = 1
  BY <1>10
<1>13. ASSUME NEW k \in Nat PROVE G[k + 1] = 2 * G[k]
  <2>1. k + 1 \in Nat /\ k + 1 # 0 /\ k + 1 - 1 = k
    OBVIOUS
  <2>. QED  BY <1>10, <2>1
<1>. QED  BY <1>11, <1>12, <1>13

\* A round of pairing halves a level.
LEMMA NextLevelIs ==
  ASSUME NEW s, NEW n, HasLen(s, n)
  PROVE  LET half == (n + 1) \div 2 IN
         /\ HasLen(NextLevel(s), half) /\ half \in Nat /\ 2 * half \in {n, n + 1}
         /\ \A i \in 1 .. half :
              NextLevel(s)[i] = IF 2 * i <= n THEN NodeHash(s[2 * i - 1], s[2 * i]) ELSE s[2 * i - 1]
<1> DEFINE half == (n + 1) \div 2
           new == NextLevel(s)
<1>1. n \in Nat /\ Len(s) = n
  BY DEF HasLen
<1>2. half \in Nat /\ 2 * half \in {n, n + 1}
  BY <1>1
<1>3. new = [i \in 1 .. half |-> IF 2 * i <= n THEN NodeHash(s[2 * i - 1], s[2 * i]) ELSE s[2 * i - 1]]
  BY <1>1 DEF NextLevel
<1> HIDE DEF new, half
<1>4. new = [i \in 1 .. half |-> new[i]]
  BY <1>3
<1>5. HasLen(new, half)
  BY <1>2, <1>4, IsSequence
<1>6. \A i \in 1 .. half :
        new[i] = IF 2 * i <= n THEN NodeHash(s[2 * i - 1], s[2 * i]) ELSE s[2 * i - 1]
  BY <1>3
<1>. QED  BY <1>2, <1>5, <1>6 DEF new, half

\* A level is a single node or at least one node shorter for each round.
LEMMA LevelShrinks ==
  ASSUME NEW s, NEW n, HasLen(s, n), n > 0
  PROVE  \A k \in Nat : \E m \in Nat \ {0} : HasLen(Level(s, k), m) /\ (m = 1 \/ m + k <= n)
<1> DEFINE S == {k \in Nat : \E m \in Nat \ {0} : HasLen(Level(s, k), m) /\ (m = 1 \/ m + k <= n)}
<1>1. n \in Nat \ {0} /\ n + 0 <= n
  BY DEF HasLen
<1>2. 0 \in S
  BY <1>1, LevelIs
<1>3. ASSUME NEW k \in Nat, k \in S PROVE k + 1 \in S
  <2>1. PICK m \in Nat \ {0} : HasLen(Level(s, k), m) /\ (m = 1 \/ m + k <= n)
    BY <1>3
  <2> DEFINE half == (m + 1) \div 2
  <2>2. HasLen(NextLevel(Level(s, k)), half)
    BY <2>1, NextLevelIs
  <2>3. half \in Nat \ {0} /\ (half = 1 \/ half + 1 <= m)
    OBVIOUS
  <2>4. half = 1 \/ half + (k + 1) <= n
    BY <1>1, <2>1, <2>3
  <2> HIDE DEF half
  <2>5. Level(s, k + 1) = NextLevel(Level(s, k))
    BY LevelIs
  <2>6. HasLen(Level(s, k + 1), half)
    BY <2>2, <2>5
  <2>. QED  BY <2>3, <2>4, <2>6
<1>4. \A k \in Nat : k \in S
  <2> HIDE DEF S
  <2>. QED  BY <1>2, <1>3, Reaches
<1>. QED  BY <1>4

\* A single node stays.
LEMMA LevelStays ==
  ASSUME NEW s, NEW j \in Nat, HasLen(Level(s, j), 1)
  PROVE  \A d \in Nat : Level(s, j + d) = Level(s, j)
<1> DEFINE S == {d \in Nat : Level(s, j + d) = Level(s, j)}
<1>1. 0 \in S
  OBVIOUS
<1>2. NextLevel(Level(s, j)) = Level(s, j)
  <2> DEFINE one == Level(s, j)
             new == NextLevel(one)
  <2>1. HasLen(new, (1 + 1) \div 2) /\ \A i \in 1 .. (1 + 1) \div 2 :
           new[i] = IF 2 * i <= 1 THEN NodeHash(one[2 * i - 1], one[2 * i]) ELSE one[2 * i - 1]
    BY NextLevelIs
  <2> HIDE DEF new
  <2>2. (1 + 1) \div 2 = 1
    OBVIOUS
  <2>3. new = [i \in 1 .. 1 |-> new[i]] /\ one = [i \in 1 .. 1 |-> one[i]]
    BY <2>1, <2>2 DEF HasLen
  <2>4. \A i \in 1 .. 1 : new[i] = one[i]
    <3>1. \A i \in 1 .. 1 : 2 * i - 1 = i /\ ~(2 * i <= 1)
      OBVIOUS
    <3>. QED  BY <2>1, <2>2, <3>1
  <2> HIDE DEF one
  <2>. QED  BY <2>3, <2>4 DEF new, one
<1>3. ASSUME NEW d \in Nat, d \in S PROVE d + 1 \in S
  <2>1. Level(s, (j + d) + 1) = NextLevel(Level(s, j + d))
    <3>1. j + d \in Nat
      OBVIOUS
    <3>. QED  BY <3>1, LevelIs
  <2>2. (j + d) + 1 = j + (d + 1) /\ d + 1 \in Nat
    OBVIOUS
  <2>. QED  BY <1>2, <1>3, <2>1, <2>2
<1>4. \A d \in Nat : d \in S
  <2> HIDE DEF S
  <2>. QED  BY <1>1, <1>3, Reaches
<1>. QED  BY <1>4

\* The root is the single node of whatever level has one.
LEMMA RootIsTop ==
  ASSUME NEW s, NEW n, HasLen(s, n), n > 0, NEW j \in Nat, HasLen(Level(s, j), 1)
  PROVE  ComputeRoot(s) = Level(s, j)[1]
<1>1. n \in Nat /\ Len(s) = n /\ s # <<>>
  <2>1. n \in Nat /\ Len(s) = n
    BY DEF HasLen
  <2>2. Len(<<>>) = 0
    OBVIOUS
  <2>. QED  BY <2>1, <2>2
<1>2. PICK m \in Nat \ {0} : HasLen(Level(s, n), m) /\ (m = 1 \/ m + n <= n)
  BY <1>1, LevelShrinks
<1>3. HasLen(Level(s, n), 1)
  <2>1. m = 1
    BY <1>1, <1>2
  <2>. QED  BY <1>2, <2>1
<1>4. Level(s, n) = Level(s, j)
  <2>1. CASE j <= n
    <3>1. n - j \in Nat /\ j + (n - j) = n
      BY <1>1, <2>1
    <3>. QED  BY <3>1, LevelStays
  <2>2. CASE n <= j
    <3>1. j - n \in Nat /\ n + (j - n) = j
      BY <1>1, <2>2
    <3>. QED  BY <1>1, <1>3, <3>1, LevelStays
  <2>. QED  BY <1>1, <2>1, <2>2
<1>. QED  BY <1>1, <1>4 DEF ComputeRoot

\* As many rounds as there are leaves lead to the root.
LEMMA RootIsThere ==
  ASSUME NEW s, NEW n, HasLen(s, n), n > 0
  PROVE  HasLen(Level(s, n), 1) /\ ComputeRoot(s) = Level(s, n)[1] /\ s # <<>>
<1>1. n \in Nat /\ Len(s) = n /\ s # <<>>
  <2>1. n \in Nat /\ Len(s) = n
    BY DEF HasLen
  <2>2. Len(<<>>) = 0
    OBVIOUS
  <2>. QED  BY <2>1, <2>2
<1>2. PICK m \in Nat \ {0} : HasLen(Level(s, n), m) /\ (m = 1 \/ m + n <= n)
  BY <1>1, LevelShrinks
<1>3. m = 1
  BY <1>1, <1>2
<1>. QED  BY <1>1, <1>2, <1>3 DEF ComputeRoot

\* The values depend on the items up to where they are computed.
LEMMA RecomputedPrefix ==
  ASSUME NEW packet, NEW p, NEW q, NEW n \in Nat, \A i \in 1 .. n : q[i] = p[i]
  PROVE  \A k \in Nat : k <= n => Recomputed(packet, q, k) = Recomputed(packet, p, k)
<1> DEFINE S == {k \in Nat : k <= n => Recomputed(packet, q, k) = Recomputed(packet, p, k)}
<1>1. 0 \in S
  BY RecomputedIs
<1>2. ASSUME NEW k \in Nat, k \in S PROVE k + 1 \in S
  <2> SUFFICES ASSUME k + 1 <= n PROVE Recomputed(packet, q, k + 1) = Recomputed(packet, p, k + 1)
    OBVIOUS
  <2>1. q[k + 1] = p[k + 1] /\ Recomputed(packet, q, k) = Recomputed(packet, p, k)
    BY <1>2
  <2>2. /\ Recomputed(packet, q, k + 1) = Combine(q[k + 1], Recomputed(packet, q, k))
        /\ Recomputed(packet, p, k + 1) = Combine(p[k + 1], Recomputed(packet, p, k))
    BY RecomputedIs
  <2>. QED  BY <2>1, <2>2
<1>3. \A k \in Nat : k \in S
  <2> HIDE DEF S
  <2>. QED  BY <1>1, <1>2, Reaches
<1>. QED  BY <1>3

\* One path leads two packets to two values.
LEMMA PathsAreInjective ==
  ASSUME NEW r, NEW q, NEW path
  PROVE  \A k \in Nat : Recomputed(r, path, k) = Recomputed(q, path, k) => r = q
<1> DEFINE S == {k \in Nat : Recomputed(r, path, k) = Recomputed(q, path, k) => r = q}
<1>1. 0 \in S
  <2>1. LeafHash(r) = LeafHash(q) => r = q
    BY DEF LeafHash
  <2>. QED  BY <2>1, RecomputedIs
<1>2. ASSUME NEW k \in Nat, k \in S PROVE k + 1 \in S
  <2> DEFINE item == path[k + 1]
             v == Recomputed(r, path, k)
             w == Recomputed(q, path, k)
  <2>1. Recomputed(r, path, k + 1) = Combine(item, v) /\ Recomputed(q, path, k + 1) = Combine(item, w)
    BY RecomputedIs
  <2>2. v = w => r = q
    BY <1>2
  <2> HIDE DEF v, w, item
  <2>3. Combine(item, v) = Combine(item, w) => v = w
    BY DEF Combine, NodeHash
  <2>. QED  BY <2>1, <2>2, <2>3
<1>3. \A k \in Nat : k \in S
  <2> HIDE DEF S
  <2>. QED  BY <1>1, <1>2, Reaches
<1>. QED  BY <1>3

\* A round of the loop of _root_and_proof and what the verifier makes of it.
LEMMA ClimbOneRound ==
  ASSUME NEW packet, NEW level, NEW m, HasLen(level, m), NEW cursor \in Nat, cursor < m,
         NEW p, NEW n, HasLen(p, n), Recomputed(packet, p, n) = level[cursor + 1]
  PROVE  LET up == Climbs(level, [cursor |-> cursor, path |-> p]) IN
         /\ up = [cursor |-> up.cursor, path |-> up.path]
         /\ up.cursor \in Nat /\ up.cursor < (m + 1) \div 2
         /\ \E k \in Nat : /\ HasLen(up.path, k)
                           /\ Recomputed(packet, up.path, k) = NextLevel(level)[up.cursor + 1]
<1> DEFINE below == [cursor |-> cursor, path |-> p]
           up == Climbs(level, below)
           half == (m + 1) \div 2
           c == cursor \div 2
           step == Step(level, cursor)
           path == p \o step
           next == NextLevel(level)
<1>1. m \in Nat /\ Len(level) = m /\ n \in Nat
  BY DEF HasLen
<1>2. up = [cursor |-> c, path |-> path]
  BY DEF Climbs
<1>3. c \in Nat /\ c < half
  BY <1>1
<1>4. \A i \in 1 .. half :
        next[i] = IF 2 * i <= m THEN NodeHash(level[2 * i - 1], level[2 * i]) ELSE level[2 * i - 1]
  BY NextLevelIs
<1>5. c + 1 \in 1 .. half
  BY <1>1, <1>3
<1>6. next[c + 1] = IF 2 * (c + 1) <= m THEN NodeHash(level[2 * (c + 1) - 1], level[2 * (c + 1)])
                    ELSE level[2 * (c + 1) - 1]
  BY <1>4, <1>5
<1> HIDE DEF next
<1>7. ASSUME NEW item, step = <<item>>, Combine(item, level[cursor + 1]) = next[c + 1]
      PROVE  \E k \in Nat : HasLen(path, k) /\ Recomputed(packet, path, k) = next[c + 1]
  <2>1. path = p \o <<item>>
    BY <1>7
  <2> HIDE DEF step, path
  <2>2. HasLen(path, n + 1) /\ path[n + 1] = item /\ \A i \in 1 .. n : path[i] = p[i]
    <3>1. n \in Nat /\ HasLen(p, n)
      BY <1>1
    <3>2. IsOneMore(path, p, n, item)
      BY <2>1, <3>1, OneMore
    <3>. QED  BY <3>2 DEF IsOneMore
  <2>4. Recomputed(packet, path, n) = Recomputed(packet, p, n)
    <3>1. n \in Nat /\ n <= n /\ \A i \in 1 .. n : path[i] = p[i]
      BY <1>1, <2>2
    <3>. QED  BY <3>1, RecomputedPrefix
  <2>5. Recomputed(packet, path, n + 1) = Combine(path[n + 1], Recomputed(packet, path, n))
    BY <1>1, RecomputedIs
  <2>6. n + 1 \in Nat
    BY <1>1
  <2>. QED  BY <1>7, <2>2, <2>4, <2>5, <2>6
<1>8. ASSUME step = <<>>, level[cursor + 1] = next[c + 1]
      PROVE  \E k \in Nat : HasLen(path, k) /\ Recomputed(packet, path, k) = next[c + 1]
  <2>1. path = p
    BY <1>1, <1>8, NoMore
  <2>. QED  BY <1>1, <1>8, <2>1
<1>9. \E k \in Nat : HasLen(path, k) /\ Recomputed(packet, path, k) = next[c + 1]
  <2>1. CASE cursor % 2 = 1
    <3> DEFINE item == [side |-> "left", hash |-> level[cursor]]
    <3>1. cursor = 2 * c + 1 /\ 2 * (c + 1) <= m /\ 2 * (c + 1) = cursor + 1 /\ 2 * (c + 1) - 1 = cursor
      BY <1>1, <2>1
    <3>2. step = <<item>>
      BY <2>1 DEF Step
    <3>3. Combine(item, level[cursor + 1]) = NodeHash(level[cursor], level[cursor + 1])
      BY DEF Combine
    <3>4. Combine(item, level[cursor + 1]) = next[c + 1]
      BY <1>6, <3>1, <3>3
    <3> HIDE DEF item, step, path, c
    <3>. QED  BY <1>7, <3>2, <3>4
  <2>2. CASE cursor % 2 # 1 /\ cursor + 1 < m
    <3> DEFINE item == [side |-> "right", hash |-> level[cursor + 2]]
    <3>1. /\ cursor = 2 * c /\ 2 * (c + 1) <= m
          /\ 2 * (c + 1) = cursor + 2 /\ 2 * (c + 1) - 1 = cursor + 1
      BY <1>1, <2>2
    <3>2. step = <<item>>
      BY <1>1, <2>2 DEF Step
    <3>3. Combine(item, level[cursor + 1]) = NodeHash(level[cursor + 1], level[cursor + 2])
      BY DEF Combine
    <3>4. Combine(item, level[cursor + 1]) = next[c + 1]
      BY <1>6, <3>1, <3>3
    <3> HIDE DEF item, step, path, c
    <3>. QED  BY <1>7, <3>2, <3>4
  <2>3. CASE cursor % 2 # 1 /\ ~(cursor + 1 < m)
    <3>1. ~(2 * (c + 1) <= m) /\ 2 * (c + 1) - 1 = cursor + 1
      BY <1>1, <2>3
    <3>2. step = <<>>
      BY <1>1, <2>3 DEF Step
    <3>3. level[cursor + 1] = next[c + 1]
      BY <1>6, <3>1
    <3> HIDE DEF step, path, c
    <3>. QED  BY <1>8, <3>2, <3>3
  <2>. QED  BY <2>1, <2>2, <2>3
<1> HIDE DEF path, c, step
<1>10. up.cursor = c /\ up.path = path
  BY <1>2
<1> HIDE DEF up
<1>. QED  BY <1>2, <1>3, <1>9, <1>10 DEF up, next

\* The audit path of a leaf leads the packet of that leaf to the head.
LEMMA AuditPathLeads ==
  ASSUME NEW s, NEW n, HasLen(s, n), NEW index \in Nat, index < n,
         NEW packet, LeafHash(packet) = s[index + 1]
  PROVE  LET path == AuditPath(s, index) IN
         Len(path) \in Nat /\ Recomputed(packet, path, Len(path)) = ComputeRoot(s)
<1> DEFINE Leads(k, m, c, p, l) ==
             /\ Climb(s, index, k) = [cursor |-> c, path |-> p]
             /\ HasLen(Level(s, k), m) /\ c < m
             /\ HasLen(p, l) /\ Recomputed(packet, p, l) = Level(s, k)[c + 1]
           S == {k \in Nat : \E m, c, l \in Nat : \E p : Leads(k, m, c, p, l)}
<1>1. 0 \in S
  <2> DEFINE none == <<>>
  <2>1. HasLen(none, 0)
    BY DEF HasLen
  <2>2. Climb(s, index, 0) = [cursor |-> index, path |-> none]
    BY ClimbIs
  <2>3. Level(s, 0) = s /\ Recomputed(packet, none, 0) = LeafHash(packet)
    BY LevelIs, RecomputedIs
  <2>4. n \in Nat
    BY DEF HasLen
  <2> HIDE DEF none
  <2>5. Leads(0, n, index, none, 0)
    BY <2>1, <2>2, <2>3
  <2> HIDE DEF Leads
  <2>. QED  BY <2>4, <2>5
<1>2. ASSUME NEW k \in Nat, k \in S PROVE k + 1 \in S
  <2>1. PICK m, c, l \in Nat : \E p : Leads(k, m, c, p, l)
    BY <1>2
  <2>2. PICK p : Leads(k, m, c, p, l)
    BY <2>1
  <2> DEFINE level == Level(s, k)
             up == Climbs(level, [cursor |-> c, path |-> p])
             half == (m + 1) \div 2
  <2>3. /\ up = [cursor |-> up.cursor, path |-> up.path]
        /\ up.cursor \in Nat /\ up.cursor < half
        /\ \E i \in Nat : HasLen(up.path, i) /\ Recomputed(packet, up.path, i) = NextLevel(level)[up.cursor + 1]
    <3> HIDE DEF level
    <3>1. HasLen(level, m) /\ c < m /\ HasLen(p, l) /\ Recomputed(packet, p, l) = level[c + 1]
      BY <2>2 DEF level
    <3>. QED  BY <3>1, ClimbOneRound
  <2>4. HasLen(NextLevel(level), half) /\ half \in Nat
    <3> HIDE DEF level
    <3>1. HasLen(level, m)
      BY <2>2 DEF level
    <3>. QED  BY <3>1, NextLevelIs
  <2>5. Climb(s, index, k + 1) = up /\ Level(s, k + 1) = NextLevel(level)
    <3>1. Climb(s, index, k + 1) = Climbs(Level(s, k), Climb(s, index, k))
      BY ClimbIs
    <3>2. Climb(s, index, k) = [cursor |-> c, path |-> p]
      BY <2>2
    <3>. QED  BY <3>1, <3>2, LevelIs
  <2> HIDE DEF up, level, half
  <2>6. PICK i \in Nat : HasLen(up.path, i) /\ Recomputed(packet, up.path, i) = NextLevel(level)[up.cursor + 1]
    BY <2>3
  <2>7. Leads(k + 1, half, up.cursor, up.path, i)
    BY <2>3, <2>4, <2>5, <2>6
  <2> HIDE DEF Leads
  <2>. QED  BY <2>3, <2>4, <2>7
<1>3. \A k \in Nat : k \in S
  <2> HIDE DEF S
  <2>. QED  BY <1>1, <1>2, Reaches
<1>4. n \in Nat /\ Len(s) = n /\ n > 0
  BY DEF HasLen
<1>5. PICK m, c, l \in Nat : \E p : Leads(n, m, c, p, l)
  BY <1>3, <1>4
<1>6. PICK p : Leads(n, m, c, p, l)
  BY <1>5
<1>7. HasLen(Level(s, n), 1) /\ ComputeRoot(s) = Level(s, n)[1]
  BY <1>4, RootIsThere
<1>8. m = 1 /\ c = 0
  <2> DEFINE top == Level(s, n)
  <2>1. HasLen(top, m) /\ HasLen(top, 1) /\ c < m
    BY <1>6, <1>7
  <2> HIDE DEF top
  <2>2. m = 1
    <3>1. m = Len(top) /\ Len(top) = 1
      BY <2>1 DEF HasLen
    <3>. QED  BY <3>1, Zenon
  <2>3. c \in Nat /\ m \in Nat /\ c < m
    BY <1>5, <2>1
  <2>. QED  BY <2>2, <2>3
<1>9. AuditPath(s, index) = p /\ Len(p) = l
  <2>1. Climb(s, index, n).path = p
    BY <1>6
  <2>. QED  BY <1>4, <1>6, <2>1 DEF AuditPath, HasLen
<1>10. Recomputed(packet, p, l) = Level(s, n)[c + 1]
  BY <1>6
<1>. QED  BY <1>7, <1>8, <1>9, <1>10

\* Of all packets one verifies against the head with the audit path of a leaf: the
\* packet of that leaf (_root_and_proof, verify_inclusion).
THEOREM OneLeafVerifies ==
  ASSUME NEW s, NEW n, HasLen(s, n), NEW index \in Nat, index < n,
         NEW q, LeafHash(q) = s[index + 1], NEW r
  PROVE  VerifyInclusion(r, ComputeRoot(s), AuditPath(s, index)) <=> r = q
<1> DEFINE path == AuditPath(s, index)
<1>1. Len(path) \in Nat /\ Recomputed(q, path, Len(path)) = ComputeRoot(s)
  BY AuditPathLeads
<1> HIDE DEF path
<1>2. Recomputed(r, path, Len(path)) = Recomputed(q, path, Len(path)) => r = q
  BY <1>1, PathsAreInjective
<1>. QED  BY <1>1, <1>2 DEF VerifyInclusion, path

\* s is a, of l elements, and then b, of m elements.
Joins(s, l, a, m, b) ==
  /\ HasLen(s, l + m) /\ HasLen(a, l) /\ HasLen(b, m)
  /\ \A i \in 1 .. l : s[i] = a[i]
  /\ \A i \in 1 .. m : s[l + i] = b[i]

\* A round of pairing does not mix the first 2 * h nodes with the others.
LEMMA JoinedRound ==
  ASSUME NEW s, NEW a, NEW b, NEW h \in Nat, NEW m \in Nat, Joins(s, 2 * h, a, m, b)
  PROVE  Joins(NextLevel(s), h, NextLevel(a), (m + 1) \div 2, NextLevel(b))
<1> DEFINE half == (m + 1) \div 2
           S == NextLevel(s)
           A == NextLevel(a)
           B == NextLevel(b)
<1>1. (2 * h + m + 1) \div 2 = h + half /\ (2 * h + 1) \div 2 = h /\ half \in Nat /\ 2 * half \in {m, m + 1}
  OBVIOUS
<1>2. HasLen(s, 2 * h + m) /\ HasLen(a, 2 * h) /\ HasLen(b, m)
  BY DEF Joins
<1>3. /\ HasLen(S, h + half)
      /\ \A i \in 1 .. h + half :
           S[i] = IF 2 * i <= 2 * h + m THEN NodeHash(s[2 * i - 1], s[2 * i]) ELSE s[2 * i - 1]
  BY <1>1, <1>2, NextLevelIs
<1>4. /\ HasLen(A, h)
      /\ \A i \in 1 .. h :
           A[i] = IF 2 * i <= 2 * h THEN NodeHash(a[2 * i - 1], a[2 * i]) ELSE a[2 * i - 1]
  BY <1>1, <1>2, NextLevelIs
<1>5. /\ HasLen(B, half)
      /\ \A i \in 1 .. half :
           B[i] = IF 2 * i <= m THEN NodeHash(b[2 * i - 1], b[2 * i]) ELSE b[2 * i - 1]
  BY <1>2, NextLevelIs
<1> HIDE DEF S, A, B
<1>6. ASSUME NEW i \in 1 .. h PROVE S[i] = A[i]
  <2>1. /\ i \in 1 .. h + half /\ 2 * i <= 2 * h + m /\ 2 * i <= 2 * h
        /\ 2 * i \in 1 .. 2 * h /\ 2 * i - 1 \in 1 .. 2 * h
    BY <1>1
  <2>2. s[2 * i] = a[2 * i] /\ s[2 * i - 1] = a[2 * i - 1]
    BY <2>1 DEF Joins
  <2>3. S[i] = NodeHash(s[2 * i - 1], s[2 * i])
    BY <1>3, <2>1
  <2>4. A[i] = NodeHash(a[2 * i - 1], a[2 * i])
    BY <1>4, <2>1
  <2>. QED  BY <2>2, <2>3, <2>4
<1>7. ASSUME NEW i \in 1 .. half PROVE S[h + i] = B[i]
  <2>1. /\ h + i \in 1 .. h + half /\ 2 * (h + i) - 1 = 2 * h + (2 * i - 1) /\ 2 * (h + i) = 2 * h + 2 * i
        /\ 2 * (h + i) <= 2 * h + m <=> 2 * i <= m
        /\ 2 * i - 1 \in 1 .. m
    BY <1>1
  <2>2. s[2 * (h + i) - 1] = b[2 * i - 1]
    <3>1. s[2 * h + (2 * i - 1)] = b[2 * i - 1]
      BY <2>1 DEF Joins
    <3>. QED  BY <2>1, <3>1
  <2>3. CASE 2 * i <= m
    <3>1. 2 * i \in 1 .. m
      BY <2>3
    <3>2. s[2 * h + 2 * i] = b[2 * i]
      BY <3>1 DEF Joins
    <3>3. s[2 * (h + i)] = b[2 * i]
      BY <2>1, <3>2
    <3>4. S[h + i] = NodeHash(s[2 * (h + i) - 1], s[2 * (h + i)])
      BY <1>3, <2>1, <2>3
    <3>5. B[i] = NodeHash(b[2 * i - 1], b[2 * i])
      BY <1>5, <2>3
    <3>. QED  BY <2>2, <3>3, <3>4, <3>5
  <2>4. CASE ~(2 * i <= m)
    <3>1. S[h + i] = s[2 * (h + i) - 1]
      BY <1>3, <2>1, <2>4
    <3>2. B[i] = b[2 * i - 1]
      BY <1>5, <2>4
    <3>. QED  BY <2>2, <3>1, <3>2
  <2>. QED  BY <2>3, <2>4
<1>. QED  BY <1>3, <1>4, <1>5, <1>6, <1>7 DEF Joins, S, A, B

\* There is a power of two above every number.
LEMMA PowerGrows ==
  \A e \in Nat : Power[e] \in Nat \ {0} /\ e < Power[e]
<1> DEFINE S == {e \in Nat : Power[e] \in Nat \ {0} /\ e < Power[e]}
<1>1. 0 \in S
  BY PowerIs
<1>2. ASSUME NEW e \in Nat, e \in S PROVE e + 1 \in S
  <2>1. Power[e + 1] = 2 * Power[e] /\ Power[e] \in Nat \ {0} /\ e < Power[e]
    BY <1>2, PowerIs
  <2>. QED  BY <2>1
<1>3. \A e \in Nat : e \in S
  <2> HIDE DEF S
  <2>. QED  BY <1>1, <1>2, Reaches
<1>. QED  BY <1>3

\* The code's tree of a full first part and a rest that is no larger is the node above both.
LEMMA JoinedTree ==
  ASSUME NEW s, NEW e \in Nat, NEW a, NEW m \in 1 .. Power[e], NEW b, Joins(s, Power[e], a, m, b)
  PROVE  ComputeRoot(s) = NodeHash(ComputeRoot(a), ComputeRoot(b))
<1> DEFINE Joined(j, r) == Joins(Level(s, j), Power[e - j], Level(a, j), r, Level(b, j))
           S == {j \in Nat : j <= e => \E r \in 1 .. Power[e - j] : Joined(j, r)}
<1>1. 0 \in S
  <2>1. Level(s, 0) = s /\ Level(a, 0) = a /\ Level(b, 0) = b /\ e - 0 = e
    BY LevelIs
  <2>2. Joined(0, m) /\ m \in 1 .. Power[e - 0]
    BY <2>1
  <2> HIDE DEF Joined
  <2>. QED  BY <2>2
<1>2. ASSUME NEW j \in Nat, j \in S PROVE j + 1 \in S
  <2> SUFFICES ASSUME j + 1 <= e PROVE \E r \in 1 .. Power[e - (j + 1)] : Joined(j + 1, r)
    OBVIOUS
  <2>1. PICK r \in 1 .. Power[e - j] : Joined(j, r)
    BY <1>2
  <2> DEFINE h == Power[e - (j + 1)]
             half == (r + 1) \div 2
  <2>2. h \in Nat \ {0} /\ Power[e - j] = 2 * h
    <3>1. e - (j + 1) \in Nat /\ e - (j + 1) + 1 = e - j
      OBVIOUS
    <3>. QED  BY <3>1, PowerIs, PowerGrows
  <2> HIDE DEF h
  <2>3. half \in 1 .. h /\ r \in Nat
    BY <2>2
  <2>4. Joins(Level(s, j), 2 * h, Level(a, j), r, Level(b, j))
    BY <2>1, <2>2
  <2>5. Joins(NextLevel(Level(s, j)), h, NextLevel(Level(a, j)), half, NextLevel(Level(b, j)))
    BY <2>2, <2>3, <2>4, JoinedRound
  <2>6. /\ Level(s, j + 1) = NextLevel(Level(s, j)) /\ Level(a, j + 1) = NextLevel(Level(a, j))
        /\ Level(b, j + 1) = NextLevel(Level(b, j))
    BY LevelIs
  <2> HIDE DEF half
  <2>7. Joined(j + 1, half)
    BY <2>5, <2>6 DEF h
  <2> HIDE DEF Joined
  <2>. QED  BY <2>3, <2>7 DEF h
<1>3. \A j \in Nat : j \in S
  <2> HIDE DEF S
  <2>. QED  BY <1>1, <1>2, Reaches
<1>4. Power[0] = 1 /\ e - e = 0 /\ e <= e
  BY PowerIs
<1>5. PICK r \in 1 .. Power[e - e] : Joined(e, r)
  BY <1>3, <1>4
<1>6. r = 1
  BY <1>4, <1>5
<1>7. Joins(Level(s, e), 1, Level(a, e), 1, Level(b, e))
  <2>1. Joined(e, r) /\ Power[e - e] = 1
    BY <1>4, <1>5
  <2>. QED  BY <1>6, <2>1
<1> DEFINE top == Level(s, e)
           first == Level(a, e)
           rest == Level(b, e)
<1>8. HasLen(top, 2) /\ HasLen(first, 1) /\ HasLen(rest, 1) /\ top[1] = first[1] /\ top[2] = rest[1]
  <2> HIDE DEF top, first, rest
  <2>1. Joins(top, 1, first, 1, rest)
    BY <1>7 DEF top, first, rest
  <2>2. 1 + 1 = 2 /\ 1 \in 1 .. 1
    OBVIOUS
  <2>. QED  BY <2>1, <2>2 DEF Joins
<1>9. HasLen(Level(s, e + 1), 1) /\ Level(s, e + 1)[1] = NodeHash(top[1], top[2])
  <2> DEFINE over == NextLevel(top)
  <2>1. Level(s, e + 1) = over
    BY LevelIs
  <2> HIDE DEF top
  <2>2. (2 + 1) \div 2 = 1
    OBVIOUS
  <2>3. /\ HasLen(over, (2 + 1) \div 2)
        /\ \A i \in 1 .. (2 + 1) \div 2 :
             over[i] = IF 2 * i <= 2 THEN NodeHash(top[2 * i - 1], top[2 * i]) ELSE top[2 * i - 1]
    BY <1>8, NextLevelIs
  <2> HIDE DEF over
  <2>4. \A i \in 1 .. 1 : over[i] = NodeHash(top[1], top[2])
    <3>1. \A i \in 1 .. 1 : 2 * i <= 2 /\ 2 * i - 1 = 1 /\ 2 * i = 2
      OBVIOUS
    <3>. QED  BY <2>2, <2>3, <3>1
  <2>5. HasLen(over, 1)
    BY <2>2, <2>3
  <2>6. 1 \in 1 .. 1
    OBVIOUS
  <2>. QED  BY <2>1, <2>4, <2>5, <2>6
<1>10. /\ HasLen(s, Power[e] + m) /\ HasLen(a, Power[e]) /\ HasLen(b, m)
       /\ Power[e] > 0 /\ m > 0 /\ Power[e] + m > 0 /\ e + 1 \in Nat
  BY PowerGrows DEF Joins
<1> HIDE DEF top, first, rest
<1>11. ComputeRoot(s) = Level(s, e + 1)[1]
  BY <1>9, <1>10, RootIsTop
<1>12. ComputeRoot(a) = first[1] /\ ComputeRoot(b) = rest[1]
  BY <1>8, <1>10, RootIsTop DEF first, rest
<1>. QED  BY <1>8, <1>9, <1>11, <1>12

\* There is a largest power of two below n, and the rest is no larger.
LEMMA SplitIs ==
  ASSUME NEW n \in Nat, n >= 2
  PROVE  Split(n) \in 1 .. n - 1 /\ n - Split(n) <= Split(n) /\ \E e \in Nat : Split(n) = Power[e]
<1> DEFINE T == {e \in Nat : 2 * Power[e] >= n}
           Good(k) == (\E e \in 0 .. n : k = Power[e]) /\ 2 * k >= n
<1>1. n \in T
  BY PowerGrows
<1>2. PICK e \in T : \A d \in T : e <= d
  BY <1>1, MinIsThere
<1>3. e \in 0 .. n /\ 2 * Power[e] >= n /\ Power[e] \in Nat \ {0}
  BY <1>1, <1>2, PowerGrows
<1>4. Power[e] < n
  <2>1. CASE e = 0
    BY <2>1, PowerIs
  <2>2. CASE e # 0
    <3>1. e - 1 \in Nat /\ e - 1 + 1 = e
      BY <1>3, <2>2
    <3>2. e - 1 \notin T
      BY <1>2, <3>1
    <3>3. Power[e] = 2 * Power[e - 1] /\ Power[e - 1] \in Nat
      BY <3>1, PowerIs, PowerGrows
    <3>. QED  BY <3>1, <3>2, <3>3
  <2>. QED  BY <2>1, <2>2
<1>5. \E k \in 1 .. n - 1 : Good(k)
  BY <1>3, <1>4
<1>6. Split(n) \in 1 .. n - 1 /\ Good(Split(n))
  <2>1. Split(n) = CHOOSE k \in 1 .. n - 1 : Good(k)
    BY Zenon DEF Split
  <2> HIDE DEF Good
  <2>. QED  BY <1>5, <2>1
<1>. QED  BY <1>6

\* The m elements of s from position a on.
Segment(s, a, m) == [i \in 1 .. m |-> s[a + i - 1]]

\* Its length and its elements.
LEMMA SegmentIs ==
  ASSUME NEW s, NEW a \in Nat, NEW m \in Nat
  PROVE  HasLen(Segment(s, a, m), m) /\ \A i \in 1 .. m : Segment(s, a, m)[i] = s[a + i - 1]
<1> DEFINE part == Segment(s, a, m)
<1>1. part = [i \in 1 .. m |-> s[a + i - 1]]
  BY DEF Segment
<1> HIDE DEF part
<1>2. part = [i \in 1 .. m |-> part[i]] /\ \A i \in 1 .. m : part[i] = s[a + i - 1]
  BY <1>1
<1>3. HasLen(part, m)
  BY <1>2, IsSequence
<1>. QED  BY <1>2, <1>3 DEF part

\* A single leaf is its own root.
LEMMA RootOfOne ==
  ASSUME NEW s, HasLen(s, 1)
  PROVE  ComputeRoot(s) = s[1]
<1>1. Level(s, 0) = s /\ 1 > 0 /\ 0 \in Nat
  BY LevelIs
<1>2. HasLen(Level(s, 0), 1)
  BY <1>1
<1>. QED  BY <1>1, <1>2, RootIsTop

\* The head of a part of the log is what RFC 6962 says: its two halves under a node.
LEMMA RootSplits ==
  ASSUME NEW s, NEW a \in Nat, NEW m \in Nat, m >= 2
  PROVE  ComputeRoot(Segment(s, a, m)) =
           NodeHash(ComputeRoot(Segment(s, a, Split(m))),
                    ComputeRoot(Segment(s, a + Split(m), m - Split(m))))
<1> DEFINE k == Split(m)
           whole == Segment(s, a, m)
           first == Segment(s, a, k)
           rest == Segment(s, a + k, m - k)
<1>1. k \in 1 .. m - 1 /\ m - k <= k /\ \E e \in Nat : k = Power[e]
  BY SplitIs
<1> HIDE DEF k
<1>2. k \in Nat /\ m - k \in Nat /\ a + k \in Nat /\ k + (m - k) = m /\ m - k \in 1 .. k
  BY <1>1
<1>3. HasLen(whole, m) /\ \A i \in 1 .. m : whole[i] = s[a + i - 1]
  BY SegmentIs
<1>4. HasLen(first, k) /\ \A i \in 1 .. k : first[i] = s[a + i - 1]
  BY <1>2, SegmentIs
<1>5. HasLen(rest, m - k) /\ \A i \in 1 .. m - k : rest[i] = s[a + k + i - 1]
  BY <1>2, SegmentIs
<1> HIDE DEF whole, first, rest
<1>6. \A i \in 1 .. k : whole[i] = first[i]
  BY <1>1, <1>3, <1>4
<1>7. ASSUME NEW i \in 1 .. m - k PROVE whole[k + i] = rest[i]
  <2>1. k + i \in 1 .. m /\ a + (k + i) - 1 = a + k + i - 1
    BY <1>2
  <2>. QED  BY <1>3, <1>5, <2>1
<1>8. Joins(whole, k, first, m - k, rest)
  BY <1>2, <1>3, <1>4, <1>5, <1>6, <1>7 DEF Joins
<1>9. ComputeRoot(whole) = NodeHash(ComputeRoot(first), ComputeRoot(rest))
  <2>1. PICK e \in Nat : k = Power[e]
    BY <1>1
  <2> DEFINE r == m - k
  <2>2. r \in 1 .. Power[e] /\ Joins(whole, Power[e], first, r, rest)
    BY <1>2, <1>8, <2>1
  <2> HIDE DEF r
  <2>. QED  BY <2>2, JoinedTree
<1>. QED  BY <1>9 DEF whole, first, rest, k

\* The recursive definition of RFC 6962 and the code's loop compute one hash.
LEMMA TreeHashIs ==
  ASSUME NEW s, NEW n \in Nat, n >= 1
  PROVE  TreeHash(s, 1, n) = ComputeRoot(Segment(s, 1, n))
<1> DEFINE Value(m, a) == IF m <= 1 THEN s[a] ELSE ComputeRoot(Segment(s, a, m))
           Solves(f) ==
             f = [m \in Nat |->
                    [a \in Nat |-> IF m <= 1 THEN s[a]
                                   ELSE NodeHash(f[Split(m)][a], f[m - Split(m)][a + Split(m)])]]
           W == [m \in Nat |-> [a \in Nat |-> Value(m, a)]]
           G == CHOOSE f : Solves(f)
<1>1. ASSUME NEW m \in Nat, m >= 1, NEW a \in Nat PROVE Value(m, a) = ComputeRoot(Segment(s, a, m))
  <2>1. CASE m = 1
    <3> DEFINE one == Segment(s, a, m)
    <3>1. HasLen(one, m) /\ \A i \in 1 .. m : one[i] = s[a + i - 1]
      BY SegmentIs
    <3> HIDE DEF one
    <3>2. HasLen(one, 1) /\ one[1] = s[a]
      <4>1. 1 \in 1 .. m /\ a + 1 - 1 = a
        BY <2>1
      <4>. QED  BY <2>1, <3>1, <4>1
    <3>3. ComputeRoot(one) = s[a]
      BY <3>2, RootOfOne
    <3>. QED  BY <2>1, <3>3 DEF one
  <2>2. CASE m # 1
    BY <1>1, <2>2
  <2>. QED  BY <2>1, <2>2
<1>2. ASSUME NEW m \in Nat, m >= 2, NEW a \in Nat
      PROVE  Value(m, a) = NodeHash(Value(Split(m), a), Value(m - Split(m), a + Split(m)))
  <2>1. /\ Split(m) \in Nat /\ Split(m) >= 1 /\ m - Split(m) \in Nat /\ m - Split(m) >= 1
        /\ a + Split(m) \in Nat /\ m >= 1
    BY <1>2, SplitIs
  <2>2. /\ Value(m, a) = ComputeRoot(Segment(s, a, m))
        /\ Value(Split(m), a) = ComputeRoot(Segment(s, a, Split(m)))
        /\ Value(m - Split(m), a + Split(m)) = ComputeRoot(Segment(s, a + Split(m), m - Split(m)))
    <3> HIDE DEF Value
    <3>. QED  BY <1>1, <2>1
  <2> HIDE DEF Value
  <2>. QED  BY <1>2, <2>2, RootSplits
<1>3. ASSUME NEW m \in Nat, NEW a \in Nat
      PROVE  Value(m, a) = IF m <= 1 THEN s[a]
                           ELSE NodeHash(W[Split(m)][a], W[m - Split(m)][a + Split(m)])
  <2>1. CASE m <= 1
    BY <2>1
  <2>2. CASE ~(m <= 1)
    <3>1. Split(m) \in Nat /\ m - Split(m) \in Nat /\ a + Split(m) \in Nat /\ m >= 2
      BY <2>2, SplitIs
    <3>2. Value(m, a) = NodeHash(Value(Split(m), a), Value(m - Split(m), a + Split(m)))
      <4> HIDE DEF Value
      <4>. QED  BY <1>2, <3>1
    <3>3. W[Split(m)][a] = Value(Split(m), a)
      <4> HIDE DEF Value
      <4>. QED  BY <3>1
    <3>4. W[m - Split(m)][a + Split(m)] = Value(m - Split(m), a + Split(m))
      <4> HIDE DEF Value
      <4>. QED  BY <3>1
    <3> HIDE DEF Value, W
    <3>. QED  BY <2>2, <3>2, <3>3, <3>4
  <2>. QED  BY <2>1, <2>2
<1>4. Solves(W)
  <2> DEFINE Other(m, a) == IF m <= 1 THEN s[a]
                            ELSE NodeHash(W[Split(m)][a], W[m - Split(m)][a + Split(m)])
  <2>1. \A m, a \in Nat : Value(m, a) = Other(m, a)
    BY <1>3
  <2> HIDE DEF Value, Other
  <2>2. W = [m \in Nat |-> [a \in Nat |-> Other(m, a)]]
    BY <2>1
  <2>. QED  BY <2>2 DEF Other
<1>5. Solves(G)
  <2> HIDE DEF Solves
  <2>. QED  BY <1>4
<1>6. TreeHash(s, 1, n) = G[n][1]
  BY Zenon DEF TreeHash
<1> HIDE DEF G, W
<1>7. \A m \in Nat : \A a \in Nat : G[m][a] = Value(m, a)
  <2> DEFINE S == {m \in Nat : \A a \in Nat : G[m][a] = Value(m, a)}
  <2>1. ASSUME NEW m \in Nat, \A i \in Nat : i < m => i \in S PROVE m \in S
    <3> SUFFICES ASSUME NEW a \in Nat PROVE G[m][a] = Value(m, a)
      OBVIOUS
    <3>1. G[m][a] = IF m <= 1 THEN s[a] ELSE NodeHash(G[Split(m)][a], G[m - Split(m)][a + Split(m)])
      <4>1. G[m] = [b \in Nat |-> IF m <= 1 THEN s[b]
                                 ELSE NodeHash(G[Split(m)][b], G[m - Split(m)][b + Split(m)])]
        <5> HIDE DEF S, Value
        <5>. QED  BY <1>5
      <4> HIDE DEF S, Value, Solves
      <4>. QED  BY <4>1
    <3>2. CASE m <= 1
      BY <3>1, <3>2
    <3>3. CASE ~(m <= 1)
      <4> DEFINE k == Split(m)
      <4>1. /\ k \in Nat /\ m - k \in Nat /\ a + k \in Nat /\ m >= 2 /\ k < m /\ m - k < m
        BY <3>3, SplitIs
      <4>2. Value(m, a) = NodeHash(Value(k, a), Value(m - k, a + k))
        <5> HIDE DEF Value
        <5>. QED  BY <1>2, <4>1
      <4> HIDE DEF Value, k
      <4>3. k \in S /\ m - k \in S
        <5> HIDE DEF S
        <5>. QED  BY <2>1, <4>1
      <4>4. G[k][a] = Value(k, a) /\ G[m - k][a + k] = Value(m - k, a + k)
        BY <4>1, <4>3
      <4>5. G[m][a] = NodeHash(G[k][a], G[m - k][a + k])
        BY <3>1, <3>3 DEF k
      <4>. QED  BY <4>2, <4>4, <4>5
    <3>. QED  BY <3>2, <3>3
  <2>2. \A m \in Nat : m \in S
    <3> HIDE DEF S
    <3>. QED  BY <2>1, ReachesFromBelow
  <2>. QED  BY <2>2
<1>8. G[n][1] = Value(n, 1)
  BY <1>7
<1>9. Value(n, 1) = ComputeRoot(Segment(s, 1, n))
  <2> HIDE DEF Value
  <2>. QED  BY <1>1
<1>. QED  BY <1>6, <1>8, <1>9

\* The loop of compute_root, level by level, computes for every sequence of leaves
\* the tree head that RFC 6962 defines by halves.
THEOREM RootIsTreeHead ==
  ASSUME NEW s, NEW n, HasLen(s, n)
  PROVE  IsTreeHead(s, ComputeRoot(s))
<1>1. n \in Nat /\ Len(s) = n /\ s = [i \in 1 .. n |-> s[i]]
  BY DEF HasLen
<1>2. CASE s = <<>>
  BY <1>2 DEF IsTreeHead, ComputeRoot
<1>3. CASE s # <<>>
  <2>1. n >= 1
    <3>1. n = 0 => s = <<>>
      BY <1>1
    <3>. QED  BY <1>1, <1>3, <3>1
  <2>2. Segment(s, 1, n) = s
    <3>1. \A i \in 1 .. n : 1 + i - 1 = i
      BY <1>1
    <3>2. Segment(s, 1, n) = [i \in 1 .. n |-> s[i]]
      BY <3>1 DEF Segment
    <3>. QED  BY <1>1, <3>2
  <2>3. TreeHash(s, 1, n) = ComputeRoot(s)
    BY <1>1, <2>1, <2>2, TreeHashIs
  <2>. QED  BY <1>1, <1>3, <2>3 DEF IsTreeHead
<1>. QED  BY <1>2, <1>3

--------------------------------------------------------------------------------

\* The log, its heads and its statements as above, in every reachable state.
THEOREM LogInvariant == Spec => [](TypesInv /\ LogInv /\ LineageInv)
<1>1. ASSUME TypesInv, LogInv, LineageInv, [Next]_vars PROVE (TypesInv /\ LogInv /\ LineageInv)'
  <2>1. ASSUME UNCHANGED record PROVE LineageInv'
    BY <1>1, <2>1 DEF LineageInv, RowOK, HasSuccessor, Rows
  <2>2. ASSUME NEW p \in Process,
               \/ \E r \in Rows : ReadStatus(p, r)
               \/ AppendRead(p) \/ FlushRead(p) \/ ReconcileUnqueued(p) \/ Recover(p) \/ Fault(p)
        PROVE  (TypesInv /\ LogInv /\ LineageInv)'
    <3>1. UNCHANGED record
      BY <2>2 DEF ReadStatus, AppendRead, FlushRead, ReconcileUnqueued, Recover, Fault
    <3>. QED  BY <1>1, <2>1, <2>2, <3>1, WorkSteps
  <2>3. ASSUME NEW p \in Process, RecordEvent(p) \/ \E s \in Scan : IssueResult(p, s)
        PROVE  (TypesInv /\ LogInv /\ LineageInv)'
    BY <1>1, <2>3, CommitFirst
  <2>4. ASSUME NEW p \in Process, NEW type \in Changes, AppendStatus(p, type)
        PROVE  (TypesInv /\ LogInv /\ LineageInv)'
    BY <1>1, <2>4, CommitStatus
  <2>5. ASSUME NEW p \in Process, AppendInsert(p) \/ FlushWrite(p) \/ Enqueue(p)
        PROVE  (TypesInv /\ LogInv /\ LineageInv)'
    <3>1. UNCHANGED record
      BY <2>5 DEF AppendInsert, FlushWrite, Enqueue
    <3>. QED  BY <1>1, <2>1, <2>5, <3>1, InsertStep, FlushStep, EnqueueStep
  <2>6. ASSUME NEW j \in job, JobConfirms(j) PROVE (TypesInv /\ LogInv /\ LineageInv)'
    <3>1. UNCHANGED record
      BY <2>6 DEF JobConfirms
    <3>. QED  BY <1>1, <2>1, <2>6, <3>1, ConfirmStep
  <2>7. CASE UNCHANGED vars
    <3>1. Rows' = Rows /\ Heads' = Heads /\ Log' = Log /\ Size' = Size
      BY <2>7 DEF vars, Rows, Heads, Log, Size
    <3>2. TypesInv' /\ LeavesOK'
      BY <1>1, <2>7, <3>1 DEF vars, TypesInv, LogTypeOK, Shaped, LogInv, LeavesOK
    <3>3. (\A q \in Process : ActOK(proc[q]))'
      BY <1>1, <2>7, <3>1 DEF vars, LogInv, ActOK
    <3>4. (\A h \in Heads : HeadOK(h))' /\ (\A c \in ckpt : ReceiptOK(c))'
      BY <1>1, <2>7, <3>1 DEF vars, LogInv, HeadOK, ReceiptOK
    <3>. QED  BY <2>1, <2>7, <3>2, <3>3, <3>4 DEF vars, LogInv
  <2>. QED
    BY <1>1, <2>2, <2>3, <2>4, <2>5, <2>6, <2>7 DEF Next, Dispatch, Work
<1>. QED  BY <1>1, InitLog, PTL DEF Spec

\* Every table and every request keeps its columns, whatever was interrupted where.
THEOREM LogTypeCorrect == Spec => []LogTypeOK
<1>1. TypesInv => LogTypeOK
  BY DEF TypesInv
<1>. QED  BY <1>1, LogInvariant, PTL

\* No retry, second worker or restart forks the log: its indexes have no gap and
\* no overlap, and no record has two leaves, with the advisory lock or without it.
THEOREM LogNeverForks == Spec => []LogIsOneSequence
<1>1. LogInv => LogIsOneSequence
  BY DEF LogInv, LeavesOK, LogIsOneSequence, Size
<1>. QED  BY <1>1, LogInvariant, PTL

\* Every head that was signed is the head of a prefix of the log as it stands, and
\* its receipt is that of its own confirmed job.
THEOREM HeadsSignThisLog == Spec => []HeadsAreOfThisLog
<1>1. TypesInv /\ LogInv => HeadsAreOfThisLog
  BY LogIs DEF TypesInv, LogInv, HeadOK, ReceiptOK, HeadsAreOfThisLog
<1>. QED  BY <1>1, LogInvariant, PTL

\* Readers of the log see an append-only log: nothing moves, every signed head stays
\* the head of a prefix, every receipt is that of its own confirmed head.
THEOREM LogKeepsPromise == Spec => KeepsPromise
<1>1. Spec => Public!PublicInit
  BY InitKeepsPromise DEF Spec
<1>. QED
  BY <1>1, StepKeepsPromise, LogInvariant, PTL DEF Spec, KeepsPromise, Public!PublicSpec

\* The heads are those of RFC 6962; the audit path of a leaf leads to every head that
\* covers it, from its own record and from no other.
THEOREM InclusionHolds == Spec => []InclusionVerifies
<1>1. ASSUME TypesInv, LogInv PROVE InclusionVerifies
  <2> SUFFICES ASSUME NEW h \in Heads
      PROVE  /\ IsTreeHead(Hashes(Log, h.size), h.root)
             /\ \A i \in 1 .. h.size : \A r \in Rows :
                  VerifyInclusion(r, h.root, AuditPath(Hashes(Log, h.size), i - 1)) <=> r = Log[i]
    BY DEF InclusionVerifies
  <2> DEFINE n == h.size
             leaves == Hashes(Log, n)
  <2>1. n \in Nat /\ h.root = ComputeRoot(leaves)
    BY <1>1, LogIs DEF TypesInv, LogInv, HeadOK, RootAt
  <2>2. leaves = [i \in 1 .. n |-> LeafHash(Log[i])]
    BY DEF Hashes
  <2> HIDE DEF n, leaves
  <2>3. HasLen(leaves, n) /\ \A i \in 1 .. n : leaves[i] = LeafHash(Log[i])
    <3>1. leaves = [i \in 1 .. n |-> leaves[i]] /\ \A i \in 1 .. n : leaves[i] = LeafHash(Log[i])
      BY <2>2
    <3>. QED  BY <2>1, <3>1, IsSequence
  <2>4. IsTreeHead(leaves, h.root)
    BY <2>1, <2>3, RootIsTreeHead
  <2>5. ASSUME NEW i \in 1 .. n, NEW r \in Rows
        PROVE  VerifyInclusion(r, h.root, AuditPath(leaves, i - 1)) <=> r = Log[i]
    <3> DEFINE index == i - 1
    <3>1. index \in Nat /\ index < n /\ LeafHash(Log[i]) = leaves[index + 1]
      BY <2>1, <2>3
    <3> HIDE DEF index
    <3>2. VerifyInclusion(r, ComputeRoot(leaves), AuditPath(leaves, index)) <=> r = Log[i]
      BY <2>3, <3>1, OneLeafVerifies
    <3>. QED  BY <2>1, <3>2 DEF index
  <2>. QED  BY <2>4, <2>5 DEF leaves, n
<1>. QED  BY <1>1, LogInvariant, PTL

\* However reviewers compete for a statement, the statements of a scan are one
\* chain, and the status of each is what its successor made of it.
THEOREM LineageStaysLinear == Spec => []LineageIsLinear
<1>1. LineageInv => LineageIsLinear
  BY DEF LineageInv, RowOK, LineageIsLinear
<1>. QED  BY <1>1, LogInvariant, PTL
================================================================================
