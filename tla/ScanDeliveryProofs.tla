--------------------------- MODULE ScanDeliveryProofs ---------------------------
(***************************************************************************)
(* From request to worker, for every set of requests, workers and setups and  *)
(* every bound on what goes wrong.  The proof goes in layers, each on top of   *)
(* the first:                                                              *)
(*   TypesInv   types, at most one scan, and that what carries it names it;    *)
(*   LockInv    one request at a time is at its commit, and nobody has the key; *)
(*   StageInv   how a stage came to be closed;                               *)
(*   HoldInv    who runs holds an open stage, and one worker ends its scan;     *)
(*   KeyInv     what is answered agrees with the scan that is committed;       *)
(*   MediaInv   what a request owns from its upload to its commit;             *)
(*   CarryInv   the row or the message that will move an unfinished scan.       *)
(* TypesInv and LockInv are inductive together.  The refinement of AcceptedScan  *)
(* rests on them, KeyInv and HoldInv.                                         *)
(***************************************************************************)
EXTENDS ScanDelivery, FiniteSetTheorems, TLAPS

Busy == {"claimed", "handle", "run", "close", "ack", "raise"}
Place == {"waiting", "taken", "leased", "pending", "dead", "gone"}

Inside == {"grant", "lookup", "insert", "commit", "recheck", "publish", "published"}
HandlerState ==
  [at : Inside \cup {"done"}, digest : 1 .. 2,
   answer : {0, 202, 404, 409, 429, 500}, scan : Handler]
OutboxRow == [scan : Handler, state : {"PENDING", "PUBLISHED", "FAILED"}, attempts : Nat]
Entries == [scan : Handler, place : Place, attempt : Nat]

IntakeTypes ==
  /\ setup \in Setups /\ staged \in BOOLEAN /\ up \in BOOLEAN
  /\ handler \in [Handler -> HandlerState]
  /\ spent \in [faults : Nat, doubts : Nat, crashes : Nat, overtakes : Nat]

StoreTypes ==
  /\ scan \in [Handler -> {"NONE", "QUEUED", "COMPLETED", "FAILED"}]
  /\ bytes \subseteq Handler /\ located \subseteq Committed
  /\ \A s, t \in Committed : s = t

OutboxTypes ==
  /\ outbox \in Seq(OutboxRow)
  /\ \A i \in DOMAIN outbox :
       /\ outbox[i].scan \in Committed /\ outbox[i].attempts <= MaxPublishes
       /\ outbox[i].state = "PENDING" => outbox[i].attempts < MaxPublishes

\* What a pass read is still a row; of these it wrote to the transport.
PassTypes ==
  /\ pass = [d \in Dispatcher |-> pass[d]]
  /\ \A d \in Dispatcher :
       /\ pass[d].sent \subseteq DOMAIN outbox
       /\ pass[d].on => \A i \in DOMAIN pass[d].tried : pass[d].tried[i] \in 0 .. MaxPublishes - 1

MessageTypes ==
  /\ msg \in Seq(Entries)
  /\ \A i \in DOMAIN msg : msg[i].scan \in Committed

WorkerTypes ==
  /\ worker \in [Worker -> [at : Busy \cup {"loop", "down"}, hand : Seq(Nat)]]
  /\ \A w \in Worker :
       /\ \A k \in DOMAIN worker[w].hand : worker[w].hand[k] \in DOMAIN msg
       /\ worker[w].at \in Busy => worker[w].hand # <<>>
  /\ lease \in [Handler -> Worker \cup {Nobody, Orphan}]
  /\ turned \subseteq Committed

TypesInv ==
  IntakeTypes /\ StoreTypes /\ OutboxTypes /\ PassTypes /\ MessageTypes /\ WorkerTypes

--------------------------------------------------------------------------------
Agrees(h) ==
  LET s == handler[h].scan IN
  s \in Committed /\ (handler[h].answer = 202 <=> handler[h].digest = handler[s].digest)

\* Who is at its commit holds the key, and nobody has it.
LockInv ==
  \A h \in Handler :
    handler[h].at = "commit" =>
      Committed = {} /\ \A g \in Handler : handler[g].at = "commit" => g = h

\* A stage is given up only after its budget; one that is decided has a worker that
\* goes on to end the scan, or had, and something went wrong.
Closing(s) == \E w \in Worker : worker[w].at = "close" /\ Work(w) = s
StageInv ==
  /\ stage \in [Handler -> [state : {"OPEN", "DECIDED", "EXHAUSTED"}, runs : Nat]]
  /\ \A s \in Handler : stage[s].state = "EXHAUSTED" => stage[s].runs >= MaxRuns
  /\ \A s \in Handler :
       stage[s].state = "DECIDED" =>
         scan[s] \in Ended \/ spent.crashes + spent.faults > 0 \/ Closing(s)

\* Who runs holds an open stage, who ends the scan is the one that decided it.
HoldInv ==
  \A w \in Worker :
    /\ worker[w].at = "run" =>
         lease[Work(w)] = w /\ scan[Work(w)] = "QUEUED" /\ stage[Work(w)].state = "OPEN"
    /\ worker[w].at = "close" =>
         /\ scan[Work(w)] = "QUEUED" /\ stage[Work(w)].state = "DECIDED"
         /\ \A v \in Worker : worker[v].at = "close" /\ Work(v) = Work(w) => v = w

KeyInv ==
  \A h \in Handler :
    /\ handler[h].at \in {"publish", "published"} => h \in Committed
    /\ handler[h].at = "done" /\ handler[h].answer \in {202, 409} => Agrees(h)

MediaInv ==
  /\ \A h \in Handler : handler[h].at \in {"insert", "commit"} => h \in bytes /\ h \notin Committed
  /\ MediaLivesAsLongAsWork

Closed(s) == stage[s].state # "OPEN"

\* A row that a later pass will read, or shows that it failed; not one whose message
\* is out already.
RowCarries(s) ==
  \E i \in DOMAIN outbox :
    /\ outbox[i].scan = s /\ outbox[i].state \in {"PENDING", "FAILED"}
    /\ \A d \in Dispatcher : i \notin pass[d].sent

\* A message in the transport, or on its way from the queue to a lease.
MessageCarries(s) ==
  \E i \in DOMAIN msg :
    /\ msg[i].scan = s
    /\ \/ msg[i].place \in {"waiting", "pending", "leased", "dead"}
       \/ msg[i].place = "taken" /\ \E w \in Worker : worker[w] = [at |-> "claimed", hand |-> <<i>>]

CarryInv ==
  /\ \A w \in Worker : worker[w].at = "ack" => scan[Work(w)] \in Ended
  /\ \A s \in Unfinished : s \in turned \/ Closed(s) \/ Down \/ RowCarries(s) \/ MessageCarries(s)

--------------------------------------------------------------------------------
(* Sequences. *)

\* What a pass sends, and what a worker takes, are all of the set and nothing else.
LEMMA InOrderIsAll ==
  ASSUME NEW n \in Nat, NEW S \in SUBSET (1 .. n), NEW q \in InOrder(S)
  PROVE  /\ Cardinality(S) \in Nat
         /\ q \in [1 .. Cardinality(S) -> S]
         /\ q \in Seq(Nat)
         /\ \A x \in S : \E i \in DOMAIN q : q[i] = x
         /\ S # {} => q # <<>>
<1>1. Cardinality(S) \in Nat
  <2>1. IsFiniteSet(1 .. n)
    BY FS_Interval
  <2> QED  BY <2>1, FS_Subset, FS_CardinalityType
<1>2. q \in [1 .. Cardinality(S) -> S] /\ \A x \in S : \E i \in DOMAIN q : q[i] = x
  BY DEF InOrder
<1>3. q \in Seq(Nat)
  <2>1. S \subseteq Nat
    OBVIOUS
  <2>2. q \in [1 .. Cardinality(S) -> Nat]
    BY <1>2, <2>1
  <2> QED  BY <1>1, <2>2
<1>4. S # {} => q # <<>>
  <2> SUFFICES ASSUME S # {}, q = <<>> PROVE FALSE
    OBVIOUS
  <2>1. PICK x \in S : TRUE
    OBVIOUS
  <2>2. PICK i \in DOMAIN q : q[i] = x
    BY <1>2
  <2> QED  BY <2>2
<1> QED  BY <1>1, <1>2, <1>3, <1>4

\* recover_orphaned_scans appends a row for the scan that has not ended.
LEMMA RecoversRows ==
  ASSUME outbox \in Seq(OutboxRow), Unfinished \subseteq Handler, \A s, t \in Unfinished : s = t, Recovers
  PROVE  /\ outbox' \in Seq(OutboxRow)
         /\ DOMAIN outbox \subseteq DOMAIN outbox'
         /\ \A i \in DOMAIN outbox : outbox'[i] = outbox[i]
         /\ \A i \in DOMAIN outbox' \ DOMAIN outbox : \E s \in Unfinished : outbox'[i] = Row(s)
         /\ \A s \in Unfinished : \E i \in DOMAIN outbox' \ DOMAIN outbox : outbox'[i] = Row(s)
<1>1. CASE Unfinished = {}
  <2>1. Cardinality(Unfinished) = 0
    BY <1>1, FS_EmptySet
  <2>2. outbox' = outbox \o <<>>
    BY <2>1 DEF Recovers
  <2>3. outbox' = outbox
    BY <2>2
  <2> QED  BY <2>3, <1>1
<1>2. CASE Unfinished # {}
  <2>1. PICK s \in Handler : Unfinished = {s}
    BY <1>2
  <2>2. Cardinality(Unfinished) = 1
    BY <2>1, FS_Singleton
  <2>3. SetToSeq(Unfinished) \in [1 .. 1 -> {s}]
    <3>1. [i \in 1 .. 1 |-> s] \in [1 .. 1 -> {s}] /\ IsInjective([i \in 1 .. 1 |-> s])
      BY DEF IsInjective
    <3> QED  BY <2>1, <2>2, <3>1 DEF SetToSeq
  <2>4. SetToSeq(Unfinished)[1] = s
    BY <2>3
  <2>5. [i \in 1 .. Cardinality(Unfinished) |-> Row(SetToSeq(Unfinished)[i])] = <<Row(s)>>
    BY <2>2, <2>4
  <2>6. outbox' = outbox \o <<Row(s)>>
    BY <2>5 DEF Recovers
  <2>7. Row(s) \in OutboxRow
    BY DEF Row, OutboxRow
  <2>8. outbox' \in Seq(OutboxRow) /\ Len(outbox') = Len(outbox) + 1
    BY <2>6, <2>7
  <2>9. \A i \in 1 .. Len(outbox) : outbox'[i] = outbox[i]
    BY <2>6
  <2>10. outbox'[Len(outbox) + 1] = Row(s)
    BY <2>6
  <2>11. DOMAIN outbox = 1 .. Len(outbox) /\ DOMAIN outbox' = 1 .. Len(outbox) + 1
    BY <2>8
  <2> HIDE DEF Recovers, Unfinished
  <2> QED  BY <2>1, <2>8, <2>9, <2>10, <2>11
<1> QED  BY <1>1, <1>2

--------------------------------------------------------------------------------
(* Types: what one kind of variable needs when another changes. *)

LEMMA GoesType ==
  ASSUME IntakeTypes, NEW h \in Handler,
         NEW at \in Inside, Goes(h, at)
  PROVE  handler' \in [Handler -> HandlerState]
  BY DEF IntakeTypes, Goes, HandlerState

LEMMA AnswersType ==
  ASSUME IntakeTypes, NEW h \in Handler, NEW code \in {0, 202, 404, 409, 429, 500},
         NEW s \in Handler, Answers(h, code, s)
  PROVE  handler' \in [Handler -> HandlerState]
<1>1. handler[h] \in HandlerState
  BY DEF IntakeTypes
<1>2. [at |-> "done", digest |-> handler[h].digest, answer |-> code, scan |-> s] \in HandlerState
  BY <1>1 DEF HandlerState
<1> QED  BY <1>2 DEF IntakeTypes, Answers

LEMMA ReplaysAnswers ==
  ASSUME NEW h \in Handler, Committed # {}, Replays(h)
  PROVE  \E s \in Committed :
           Answers(h, IF handler[s].digest = handler[h].digest THEN 202 ELSE 409, s)
  BY DEF Replays

LEMMA ReplaysType ==
  ASSUME IntakeTypes, NEW h \in Handler, Committed # {}, Replays(h)
  PROVE  handler' \in [Handler -> HandlerState]
<1> PICK s \in Committed :
      Answers(h, IF handler[s].digest = handler[h].digest THEN 202 ELSE 409, s)
  BY ReplaysAnswers
<1>1. s \in Handler
  BY DEF Committed
<1> QED  BY <1>1, AnswersType

LEMMA SpendType ==
  ASSUME IntakeTypes, NEW kind \in {"faults", "doubts", "crashes", "overtakes"}, Spend(kind)
  PROVE  /\ spent' \in [faults : Nat, doubts : Nat, crashes : Nat, overtakes : Nat]
         /\ spent.doubts <= spent'.doubts
  BY DEF IntakeTypes, Spend

\* The scan ends or stays as it is; candidates come and go.
LEMMA StoreKept ==
  ASSUME StoreTypes, UNCHANGED scan, located' \subseteq located, bytes' \subseteq Handler
  PROVE  StoreTypes' /\ Committed' = Committed
<1>1. Committed' = Committed
  BY DEF Committed
<1> QED  BY <1>1 DEF StoreTypes

LEMMA OutboxKept ==
  ASSUME OutboxTypes, UNCHANGED outbox, Committed \subseteq Committed'
  PROVE  OutboxTypes'
  BY DEF OutboxTypes

LEMMA PassKept ==
  ASSUME PassTypes, UNCHANGED pass, DOMAIN outbox \subseteq DOMAIN outbox'
  PROVE  PassTypes'
  BY DEF PassTypes

LEMMA MessageKept ==
  ASSUME MessageTypes, UNCHANGED msg, Committed \subseteq Committed'
  PROVE  MessageTypes'
  BY DEF MessageTypes

LEMMA WorkerKept ==
  ASSUME WorkerTypes, UNCHANGED <<worker, lease, turned>>,
         DOMAIN msg \subseteq DOMAIN msg', Committed \subseteq Committed'
  PROVE  WorkerTypes'
  BY DEF WorkerTypes

LEMMA CarriersKept ==
  ASSUME TypesInv, Committed \subseteq Committed', UNCHANGED <<outbox, pass, broker>>
  PROVE  OutboxTypes' /\ PassTypes' /\ MessageTypes' /\ WorkerTypes'
<1>1. OutboxTypes'
  BY OutboxKept DEF TypesInv
<1>2. PassTypes'
  BY PassKept DEF TypesInv
<1>3. MessageTypes'
  BY MessageKept DEF TypesInv, broker
<1>4. WorkerTypes'
  BY WorkerKept DEF TypesInv, broker
<1> QED  BY <1>1, <1>2, <1>3, <1>4

\* A request that does not commit disturbs only itself, the upload and its candidate.
LEMMA RequestKeeps ==
  ASSUME TypesInv, UNCHANGED <<setup, scan, located, outbox, pass, broker, up>>,
         bytes' \subseteq Handler, staged' \in BOOLEAN, handler' \in [Handler -> HandlerState],
         spent' \in [faults : Nat, doubts : Nat, crashes : Nat, overtakes : Nat]
  PROVE  TypesInv' /\ Committed' = Committed
<1>1. StoreTypes' /\ Committed' = Committed
  BY StoreKept DEF TypesInv
<1>2. IntakeTypes'
  BY DEF TypesInv, IntakeTypes
<1>3. OutboxTypes' /\ PassTypes' /\ MessageTypes' /\ WorkerTypes'
  BY <1>1, CarriersKept
<1> QED  BY <1>1, <1>2, <1>3 DEF TypesInv

\* Messages are only ever added, and stay messages of their scan.
Extends ==
  /\ msg' \in Seq(Entries)
  /\ \A i \in DOMAIN msg : i \in DOMAIN msg' /\ msg'[i].scan = msg[i].scan
  /\ \A i \in DOMAIN msg' : msg'[i].scan \in Committed

LEMMA ExtendsType ==
  ASSUME Extends, Committed' = Committed
  PROVE  MessageTypes' /\ DOMAIN msg \subseteq DOMAIN msg'
  BY DEF Extends, MessageTypes

LEMMA Same ==
  ASSUME MessageTypes, UNCHANGED msg
  PROVE  Extends
  BY DEF MessageTypes, Extends

LEMMA Rewritten ==
  ASSUME MessageTypes, NEW i \in DOMAIN msg, NEW m \in Entries, m.scan = msg[i].scan,
         msg' = [msg EXCEPT ![i] = m]
  PROVE  Extends
<1>1. msg \in Seq(Entries)
  BY DEF MessageTypes
<1>2. msg' \in Seq(Entries) /\ DOMAIN msg' = DOMAIN msg
  BY <1>1
<1> QED  BY <1>1, <1>2 DEF MessageTypes, Extends

LEMMA Appended ==
  ASSUME MessageTypes, NEW new \in Seq(Entries), \A k \in DOMAIN new : new[k].scan \in Committed,
         msg' = msg \o new
  PROVE  /\ Extends
         /\ \A i \in DOMAIN msg : msg'[i] = msg[i]
         /\ \A k \in DOMAIN new : Len(msg) + k \in DOMAIN msg' /\ msg'[Len(msg) + k] = new[k]
<1>1. msg \in Seq(Entries)
  BY DEF MessageTypes
<1>2. msg' \in Seq(Entries) /\ Len(msg') = Len(msg) + Len(new)
  BY <1>1
<1>3. \A i \in DOMAIN msg : i \in DOMAIN msg' /\ msg'[i] = msg[i]
  BY <1>1, <1>2
<1>4. \A k \in DOMAIN new : Len(msg) + k \in DOMAIN msg' /\ msg'[Len(msg) + k] = new[k]
  BY <1>1, <1>2
<1>5. \A i \in DOMAIN msg' : i \in DOMAIN msg \/ \E k \in DOMAIN new : i = Len(msg) + k
  <2> TAKE i \in DOMAIN msg'
  <2>1. i \in 1 .. Len(msg) + Len(new) /\ Len(msg) \in Nat /\ Len(new) \in Nat
    BY <1>1, <1>2
  <2>2. CASE i <= Len(msg)
    BY <1>1, <2>1, <2>2
  <2>3. CASE ~(i <= Len(msg))
    <3>1. i - Len(msg) \in 1 .. Len(new) /\ i = Len(msg) + (i - Len(msg))
      BY <2>1, <2>3
    <3>2. DOMAIN new = 1 .. Len(new)
      OBVIOUS
    <3> QED  BY <3>1, <3>2
  <2> QED  BY <2>2, <2>3
<1> QED  BY <1>2, <1>3, <1>4, <1>5 DEF MessageTypes, Extends

LEMMA PlaceType ==
  ASSUME NEW m \in Entries, NEW p \in Place, NEW n \in Nat
  PROVE  /\ [m EXCEPT !.place = p] \in Entries
         /\ [m EXCEPT !.place = p].scan = m.scan /\ [m EXCEPT !.place = p].place = p
         /\ [m EXCEPT !.place = p, !.attempt = n] \in Entries
         /\ [m EXCEPT !.place = p, !.attempt = n].scan = m.scan
         /\ [m EXCEPT !.place = p, !.attempt = n].place = p
  BY DEF Entries

LEMMA GoneType ==
  ASSUME NEW m \in Entries
  PROVE  /\ [m EXCEPT !.place = "gone", !.attempt = 0] \in Entries
         /\ [m EXCEPT !.place = "gone", !.attempt = 0].scan = m.scan
<1>1. "gone" \in Place /\ 0 \in Nat
  BY DEF Place
<1>2. ASSUME NEW n \in Nat
      PROVE  /\ [m EXCEPT !.place = "gone", !.attempt = n] \in Entries
             /\ [m EXCEPT !.place = "gone", !.attempt = n].scan = m.scan
  BY <1>1 DEF Entries
<1> QED  BY <1>1, <1>2

LEMMA TakenType ==
  ASSUME NEW m \in Entries
  PROVE  LET new == [m EXCEPT !.place = "pending", !.attempt = @ + 1]
         IN  new \in Entries /\ new.scan = m.scan /\ new.place = "pending"
<1>1. "pending" \in Place /\ m.attempt + 1 \in Nat
  BY DEF Place, Entries
<1>2. ASSUME NEW n \in Nat
      PROVE  LET new == [m EXCEPT !.place = "pending", !.attempt = n]
             IN  new \in Entries /\ new.scan = m.scan /\ new.place = "pending"
  BY <1>1 DEF Entries
<1> QED  BY <1>1, <1>2

LEMMA GoneExtends ==
  ASSUME MessageTypes, NEW i \in DOMAIN msg, msg' = Gone(i)
  PROVE  Extends /\ \A j \in DOMAIN msg : j # i => msg'[j] = msg[j]
<1>1. msg \in Seq(Entries)
  BY DEF MessageTypes
<1>2. msg[i] \in Entries
  BY <1>1
<1>3. msg' = [msg EXCEPT ![i] = [msg[i] EXCEPT !.place = "gone", !.attempt = 0]]
  BY <1>1 DEF Gone
<1>4. [msg[i] EXCEPT !.place = "gone", !.attempt = 0] \in Entries
  BY <1>2, GoneType
<1>5. [msg[i] EXCEPT !.place = "gone", !.attempt = 0].scan = msg[i].scan
  BY <1>2, GoneType
<1>6. Extends
  BY <1>3, <1>4, <1>5, Rewritten
<1> QED  BY <1>1, <1>3, <1>6

\* What replaces a message is of the same scan and waits, or is a dead letter.
LEMMA ReplacedExtends ==
  ASSUME MessageTypes, NEW i \in DOMAIN msg, msg' = Replaced(i)
  PROVE  /\ Extends
         /\ \A j \in DOMAIN msg : j # i => msg'[j] = msg[j]
         /\ Len(msg) + 1 \in DOMAIN msg'
         /\ msg'[Len(msg) + 1].scan = msg[i].scan
         /\ msg'[Len(msg) + 1].place \in {"waiting", "dead"}
<1> DEFINE m == msg[i]
           new == [Message(m.scan, m.attempt + 1) EXCEPT
                     !.place = IF m.attempt + 1 >= MaxAttempts THEN "dead" ELSE "waiting"]
           gone == [m EXCEPT !.place = "gone", !.attempt = 0]
<1>1. msg \in Seq(Entries) /\ m \in Entries
  BY DEF MessageTypes
<1>2. m.attempt \in Nat /\ m.scan \in Handler /\ m.scan \in Committed
  BY <1>1 DEF Entries, MessageTypes
<1>3. new \in Entries /\ new.scan = m.scan /\ new.place \in {"waiting", "dead"}
  BY <1>2 DEF Entries, Message, Place
<1>4. gone \in Entries /\ gone.scan = m.scan
  BY <1>1, GoneType
<1>5. Gone(i) = [msg EXCEPT ![i] = gone]
  BY <1>1 DEF Gone
<1>6. Gone(i) \in Seq(Entries) /\ Len(Gone(i)) = Len(msg)
  BY <1>1, <1>4, <1>5
<1>7. msg' = Append(Gone(i), new)
  BY DEF Replaced
<1> HIDE DEF new, gone, m
<1>8. msg' \in Seq(Entries) /\ Len(msg') = Len(msg) + 1
  BY <1>3, <1>6, <1>7
<1>9. \A j \in 1 .. Len(msg) : msg'[j] = Gone(i)[j]
  BY <1>3, <1>6, <1>7
<1>10. msg'[Len(msg) + 1] = new
  BY <1>3, <1>6, <1>7
<1>11. \A j \in DOMAIN msg : msg'[j] = IF j = i THEN gone ELSE msg[j]
  BY <1>1, <1>5, <1>9
<1>12. DOMAIN msg = 1 .. Len(msg) /\ DOMAIN msg' = 1 .. Len(msg) + 1 /\ Len(msg) \in Nat
  BY <1>1, <1>8
<1>13. \A j \in DOMAIN msg : msg'[j].scan = msg[j].scan
  BY <1>4, <1>11 DEF m
<1>14. \A j \in DOMAIN msg' : msg'[j].scan \in Committed
  <2> TAKE j \in DOMAIN msg'
  <2>1. CASE j \in DOMAIN msg
    BY <1>13, <2>1 DEF MessageTypes
  <2>2. CASE j = Len(msg) + 1
    BY <1>2, <1>3, <1>10, <2>2
  <2> QED  BY <1>12, <2>1, <2>2
<1>15. Extends
  BY <1>8, <1>12, <1>13, <1>14 DEF Extends
<1> QED  BY <1>3, <1>10, <1>11, <1>12, <1>15 DEF m

(* Types: the worker loops. *)

LEMMA HandOf ==
  ASSUME MessageTypes, WorkerTypes, NEW w \in Worker, worker[w].at \in Busy
  PROVE  /\ worker[w].hand \in Seq(Nat) /\ worker[w].hand # <<>>
         /\ Head(worker[w].hand) \in DOMAIN msg
         /\ Work(w) \in Committed /\ Work(w) \in Handler
<1>1. worker[w].hand \in Seq(Nat) /\ worker[w].hand # <<>>
  BY DEF WorkerTypes
<1>2. Head(worker[w].hand) = worker[w].hand[1] /\ 1 \in DOMAIN worker[w].hand
  BY <1>1
<1>3. Head(worker[w].hand) \in DOMAIN msg
  BY <1>2 DEF WorkerTypes
<1> QED  BY <1>1, <1>3 DEF MessageTypes, Work, Committed

LEMMA MovesType ==
  ASSUME WorkerTypes, NEW w \in Worker, NEW at \in Busy, NEW hand \in Seq(Nat),
         \A k \in DOMAIN hand : hand[k] \in DOMAIN msg', DOMAIN msg \subseteq DOMAIN msg',
         Moves(w, at, hand),
         lease' \in [Handler -> Worker \cup {Nobody, Orphan}], turned' \subseteq Committed'
  PROVE  WorkerTypes'
<1> DEFINE new == [at |-> IF hand = <<>> THEN "loop" ELSE at, hand |-> hand]
<1>1. worker' = [worker EXCEPT ![w] = new]
  BY DEF Moves
<1>2. new \in [at : Busy \cup {"loop", "down"}, hand : Seq(Nat)]
  OBVIOUS
<1>3. new.at \in Busy => new.hand # <<>>
  BY DEF Busy
<1>4. \A k \in DOMAIN new.hand : new.hand[k] \in DOMAIN msg'
  OBVIOUS
<1> HIDE DEF new
<1>5. worker' \in [Worker -> [at : Busy \cup {"loop", "down"}, hand : Seq(Nat)]]
  BY <1>1, <1>2 DEF WorkerTypes
<1>6. \A v \in Worker : worker'[v] = IF v = w THEN new ELSE worker[v]
  BY <1>1 DEF WorkerTypes
<1> QED  BY <1>3, <1>4, <1>5, <1>6 DEF WorkerTypes

LEMMA StaysType ==
  ASSUME MessageTypes, WorkerTypes, NEW w \in Worker, worker[w].at \in Busy, NEW at \in Busy,
         DOMAIN msg \subseteq DOMAIN msg', StaysAt(w, at),
         lease' \in [Handler -> Worker \cup {Nobody, Orphan}], turned' \subseteq Committed'
  PROVE  WorkerTypes' /\ worker' = [worker EXCEPT ![w] = [at |-> at, hand |-> worker[w].hand]]
<1>1. worker[w].hand \in Seq(Nat) /\ worker[w].hand # <<>>
  BY HandOf
<1>2. \A k \in DOMAIN worker[w].hand : worker[w].hand[k] \in DOMAIN msg'
  BY DEF WorkerTypes
<1>3. Moves(w, at, worker[w].hand)
  BY DEF StaysAt
<1>4. WorkerTypes'
  BY <1>1, <1>2, <1>3, MovesType
<1> QED  BY <1>1, <1>3, <1>4 DEF Moves

LEMMA DropsType ==
  ASSUME MessageTypes, WorkerTypes, NEW w \in Worker, worker[w].at \in Busy,
         DOMAIN msg \subseteq DOMAIN msg', Drops(w),
         lease' \in [Handler -> Worker \cup {Nobody, Orphan}], turned' \subseteq Committed'
  PROVE  WorkerTypes' /\ worker' = [worker EXCEPT ![w] = worker'[w]] /\ worker'[w].at \in {"loop", "handle"}
<1> DEFINE hand == worker[w].hand
<1>1. hand \in Seq(Nat) /\ hand # <<>>
  BY HandOf
<1>2. Tail(hand) \in Seq(Nat)
  BY <1>1
<1>3. \A k \in DOMAIN Tail(hand) : k + 1 \in DOMAIN hand /\ Tail(hand)[k] = hand[k + 1]
  BY <1>1
<1>4. \A k \in DOMAIN Tail(hand) : Tail(hand)[k] \in DOMAIN msg'
  BY <1>3 DEF WorkerTypes
<1>5. Moves(w, "handle", Tail(hand))
  BY DEF Drops
<1> HIDE DEF hand
<1>6. WorkerTypes'
  BY <1>2, <1>4, <1>5, MovesType DEF Busy
<1> QED  BY <1>5, <1>6 DEF Moves, WorkerTypes

--------------------------------------------------------------------------------
(* Types: the steps. *)

LEMMA InitTypes == Init => TypesInv
<1> SUFFICES ASSUME Init PROVE TypesInv
  OBVIOUS
<1>1. setup \in Setups /\ setup.direct \in BOOLEAN /\ setup.accepted \subseteq Handler
        /\ \A s, t \in setup.accepted : s = t
  BY DeliveryAssumption DEF Init
<1>2. IntakeTypes
  <2>1. PICK digest \in [Handler -> 1 .. 2] :
          handler = [h \in Handler |->
                      [at |-> IF h \in setup.requests THEN Entry ELSE "done", digest |-> digest[h],
                       answer |-> IF h \in setup.accepted THEN 202 ELSE 0, scan |-> h]]
    BY DEF Init
  <2>2. handler \in [Handler -> HandlerState]
    BY <2>1 DEF HandlerState, Inside, Entry
  <2> QED  BY <1>1, <2>2 DEF Init, IntakeTypes
<1>3. Committed = setup.accepted
  BY <1>1 DEF Init, Committed
<1>4. StoreTypes
  BY <1>1, <1>3 DEF Init, StoreTypes
<1>5. OutboxTypes
  <2>1. CASE setup.accepted = {}
    <3>1. Cardinality(setup.accepted) = 0
      BY <2>1, FS_EmptySet
    <3>2. outbox = <<>>
      BY <3>1 DEF Init
    <3> QED  BY <3>2 DEF OutboxTypes
  <2>2. CASE setup.accepted # {}
    <3>1. PICK s \in setup.accepted : setup.accepted = {s}
      BY <1>1, <2>2
    <3>2. Cardinality(setup.accepted) = 1 /\ (CHOOSE t \in setup.accepted : TRUE) = s
      BY <3>1, FS_Singleton
    <3>3. outbox = <<Row(s)>>
      <4>1. outbox = [i \in 1 .. Cardinality(setup.accepted) |-> Row(CHOOSE t \in setup.accepted : TRUE)]
        BY DEF Init
      <4>2. outbox = [i \in 1 .. 1 |-> Row(s)]
        BY <3>2, <4>1
      <4> QED  BY <4>2
    <3>4. Row(s) \in OutboxRow /\ Row(s).scan = s /\ Row(s).attempts = 0
      BY <1>1, <3>1 DEF Row, OutboxRow
    <3>5. MaxPublishes \in Nat /\ 0 < MaxPublishes
      BY DeliveryAssumption
    <3>6. outbox \in Seq(OutboxRow) /\ \A i \in DOMAIN outbox : outbox[i] = Row(s)
      BY <3>3, <3>4
    <3> QED  BY <1>3, <3>1, <3>4, <3>5, <3>6 DEF OutboxTypes
  <2> QED  BY <2>1, <2>2
<1>6. PassTypes
  BY DEF Init, PassTypes, NoPass
<1>7. MessageTypes
  BY DEF Init, MessageTypes
<1>8. WorkerTypes
  <2>1. worker = [w \in Worker |-> [at |-> "loop", hand |-> <<>>]]
    BY DEF Init, AtLoop
  <2>2. <<>> \in Seq(Nat) /\ DOMAIN <<>> = {}
    OBVIOUS
  <2>3. [at |-> "loop", hand |-> <<>>] \in [at : Busy \cup {"loop", "down"}, hand : Seq(Nat)]
    BY <2>2
  <2>4. worker \in [Worker -> [at : Busy \cup {"loop", "down"}, hand : Seq(Nat)]]
    BY <2>1, <2>3
  <2>5. \A w \in Worker : worker[w].at \notin Busy /\ DOMAIN worker[w].hand = {}
    BY <2>1, <2>2 DEF Busy
  <2>6. lease \in [Handler -> Worker \cup {Nobody, Orphan}] /\ turned = {}
    BY DEF Init
  <2> QED  BY <2>4, <2>5, <2>6 DEF WorkerTypes
<1> QED  BY <1>2, <1>4, <1>5, <1>6, <1>7, <1>8 DEF TypesInv


LEMMA ReadGrantTypes ==
  ASSUME TypesInv, NEW h \in Handler, ReadGrant(h)
  PROVE  TypesInv' /\ Committed' = Committed
<1>1. IntakeTypes /\ bytes \subseteq Handler
  BY DEF TypesInv, StoreTypes
<1>2. handler' \in [Handler -> HandlerState]
  <2>1. CASE Committed = {}
    BY <1>1, <2>1, GoesType DEF ReadGrant, Inside
  <2>2. CASE Committed # {}
    BY <1>1, <2>2, ReplaysType DEF ReadGrant
  <2> QED  BY <2>1, <2>2
<1>3. staged' \in BOOLEAN
  BY <1>1 DEF ReadGrant, IntakeTypes
<1>4. UNCHANGED <<setup, scan, located, outbox, pass, broker, up, bytes, spent>>
  BY DEF ReadGrant, store
<1>5. spent' \in [faults : Nat, doubts : Nat, crashes : Nat, overtakes : Nat]
  BY <1>1, <1>4 DEF IntakeTypes
<1> QED  BY <1>1, <1>2, <1>3, <1>4, <1>5, RequestKeeps

LEMMA LookupTypes ==
  ASSUME TypesInv, NEW h \in Handler, Lookup(h)
  PROVE  TypesInv' /\ Committed' = Committed
<1>1. IntakeTypes /\ bytes \subseteq Handler /\ setup.direct \in BOOLEAN
  BY DeliveryAssumption DEF TypesInv, StoreTypes, IntakeTypes
<1>2. handler' \in [Handler -> HandlerState]
  <2>1. CASE Answers(h, 404, h)
    BY <1>1, <2>1, AnswersType
  <2>2. CASE Answers(h, 429, h)
    BY <1>1, <2>2, AnswersType
  <2>3. CASE Goes(h, "insert")
    BY <1>1, <2>3, GoesType DEF Inside
  <2>4. CASE Committed # {} /\ Replays(h)
    BY <1>1, <2>4, ReplaysType
  <2> QED  BY <2>1, <2>2, <2>3, <2>4 DEF Lookup
<1>3. staged' \in BOOLEAN /\ bytes' \subseteq Handler
  BY <1>1 DEF Lookup, Settles, IntakeTypes
<1>4. UNCHANGED <<setup, scan, located, outbox, pass, broker, up, spent>>
  BY DEF Lookup
<1>5. spent' \in [faults : Nat, doubts : Nat, crashes : Nat, overtakes : Nat]
  BY <1>1, <1>4 DEF IntakeTypes
<1> QED  BY <1>2, <1>3, <1>4, <1>5, RequestKeeps

LEMMA AnsweringTypes ==
  ASSUME TypesInv, NEW h \in Handler, NothingToPublish(h) \/ Respond(h) \/ Retry(h)
  PROVE  TypesInv' /\ Committed' = Committed
<1>1. IntakeTypes /\ bytes \subseteq Handler
  BY DEF TypesInv, StoreTypes
<1>2. handler' \in [Handler -> HandlerState]
  <2>1. CASE NothingToPublish(h)
    BY <1>1, <2>1, GoesType DEF NothingToPublish, Inside
  <2>2. CASE Respond(h)
    BY <1>1, <2>2, AnswersType DEF Respond
  <2>3. CASE Retry(h)
    <3>1. Entry \in Inside
      BY DEF Entry, Inside
    <3> QED  BY <1>1, <2>3, <3>1, GoesType DEF Retry
  <2> QED  BY <2>1, <2>2, <2>3
<1>3. staged' \in BOOLEAN
  BY <1>1 DEF NothingToPublish, Respond, Retry, Settles, IntakeTypes
<1>4. UNCHANGED <<setup, scan, located, outbox, pass, broker, up, bytes, spent>>
  BY DEF NothingToPublish, Respond, Retry, store
<1>5. spent' \in [faults : Nat, doubts : Nat, crashes : Nat, overtakes : Nat]
  BY <1>1, <1>4 DEF IntakeTypes
<1> QED  BY <1>1, <1>2, <1>3, <1>4, <1>5, RequestKeeps

LEMMA HandlerFailsTypes ==
  ASSUME TypesInv, NEW h \in Handler, HandlerFails(h)
  PROVE  TypesInv' /\ Committed' = Committed
<1>1. IntakeTypes /\ bytes \subseteq Handler
  BY DEF TypesInv, StoreTypes
<1>2. handler' \in [Handler -> HandlerState]
  BY <1>1, AnswersType DEF HandlerFails
<1>3. staged' \in BOOLEAN /\ bytes' \subseteq Handler
  BY <1>1 DEF HandlerFails, IntakeTypes, store
<1>4. UNCHANGED <<setup, scan, located, outbox, pass, broker, up>>
  BY DEF HandlerFails, store
<1>5. spent' \in [faults : Nat, doubts : Nat, crashes : Nat, overtakes : Nat]
  BY <1>1, SpendType DEF HandlerFails
<1> QED  BY <1>2, <1>3, <1>4, <1>5, RequestKeeps

LEMMA InsertTypes ==
  ASSUME TypesInv, NEW h \in Handler, Insert(h)
  PROVE  TypesInv' /\ Committed' = Committed
<1>1. IntakeTypes /\ bytes \subseteq Handler
  BY DEF TypesInv, StoreTypes
<1>2. handler' \in [Handler -> HandlerState]
  BY <1>1, GoesType, AnswersType DEF Insert, Inside
<1>3. UNCHANGED <<setup, scan, located, outbox, pass, broker, up, bytes, staged, spent>>
  BY DEF Insert, store
<1>4. staged' \in BOOLEAN /\ spent' \in [faults : Nat, doubts : Nat, crashes : Nat, overtakes : Nat]
  BY <1>1, <1>3 DEF IntakeTypes
<1> QED  BY <1>1, <1>2, <1>3, <1>4, RequestKeeps

LEMMA RecheckTypes ==
  ASSUME TypesInv, NEW h \in Handler, Recheck(h)
  PROVE  TypesInv' /\ Committed' = Committed
<1>1. IntakeTypes /\ bytes \subseteq Handler
  BY DEF TypesInv, StoreTypes
<1>2. handler' \in [Handler -> HandlerState]
  BY <1>1, AnswersType, ReplaysType DEF Recheck
<1>3. UNCHANGED <<setup, scan, located, outbox, pass, broker, up, bytes, spent>>
  BY DEF Recheck, store
<1>4. staged' \in BOOLEAN /\ spent' \in [faults : Nat, doubts : Nat, crashes : Nat, overtakes : Nat]
  BY <1>1, <1>3 DEF IntakeTypes, Recheck, Settles
<1> QED  BY <1>1, <1>2, <1>3, <1>4, RequestKeeps

\* The one transaction that makes a scan makes the only one, and its row.
LEMMA InsertsTypes ==
  ASSUME TypesInv, NEW h \in Handler, Committed = {}, Inserts(h), bytes' \subseteq Handler,
         UNCHANGED <<pass, broker>>, IntakeTypes'
  PROVE  /\ TypesInv' /\ Committed' = {h} /\ Unfinished' = {h}
         /\ Len(outbox) + 1 \in DOMAIN outbox' /\ outbox'[Len(outbox) + 1] = Row(h)
<1>1. scan \in [Handler -> {"NONE", "QUEUED", "COMPLETED", "FAILED"}] /\ located = {}
  BY DEF TypesInv, StoreTypes
<1>2. scan' = [scan EXCEPT ![h] = "QUEUED"]
  BY DEF Inserts
<1>3. Committed' = {h} /\ Unfinished' = {h}
  BY <1>1, <1>2 DEF Committed, Unfinished
<1>4. StoreTypes'
  BY <1>1, <1>2, <1>3 DEF StoreTypes, Inserts
<1>5. outbox \in Seq(OutboxRow) /\ outbox' = Append(outbox, Row(h))
  BY DEF TypesInv, OutboxTypes, Inserts
<1>6. Row(h) \in OutboxRow /\ Row(h).scan = h /\ Row(h).attempts = 0
  BY DEF Row, OutboxRow
<1>7. MaxPublishes \in Nat /\ 0 < MaxPublishes
  BY DeliveryAssumption
<1>8. outbox' \in Seq(OutboxRow) /\ DOMAIN outbox' = DOMAIN outbox \cup {Len(outbox) + 1}
        /\ outbox'[Len(outbox) + 1] = Row(h) /\ \A i \in DOMAIN outbox : outbox'[i] = outbox[i]
  BY <1>5, <1>6
<1>9. \A i \in DOMAIN outbox : outbox[i].scan \in {}
  BY DEF TypesInv, OutboxTypes
<1>10. OutboxTypes'
  BY <1>3, <1>6, <1>7, <1>8, <1>9 DEF OutboxTypes
<1>11. PassTypes'
  BY <1>8, PassKept DEF TypesInv
<1>12. MessageTypes'
  BY MessageKept DEF TypesInv, broker
<1>13. WorkerTypes'
  BY WorkerKept DEF TypesInv, broker
<1> QED  BY <1>3, <1>4, <1>8, <1>10, <1>11, <1>12, <1>13 DEF TypesInv

LEMMA CommitTypes ==
  ASSUME TypesInv, NEW h \in Handler, Commit(h), Committed = {}
  PROVE  TypesInv'
<1>1. IntakeTypes /\ bytes \subseteq Handler
  BY DEF TypesInv, StoreTypes
<1>2. Inserts(h) /\ Goes(h, "publish") /\ UNCHANGED <<setup, staged, bytes, pass, broker, up, spent>>
  BY DEF Commit
<1>3. handler' \in [Handler -> HandlerState]
  BY <1>1, <1>2, GoesType DEF Inside
<1>4. IntakeTypes'
  BY <1>1, <1>2, <1>3 DEF IntakeTypes
<1> QED  BY <1>1, <1>2, <1>4, InsertsTypes

\* A commit that raises, with effect or without.
LEMMA CommitFailsTypes ==
  ASSUME TypesInv, NEW h \in Handler, CommitFails(h), Committed = {}
  PROVE  TypesInv'
<1>1. IntakeTypes /\ bytes' \subseteq Handler
  BY DEF TypesInv, StoreTypes, CommitFails
<1>2. handler' \in [Handler -> HandlerState]
  BY <1>1, GoesType DEF CommitFails, Inside
<1>3. spent' \in [faults : Nat, doubts : Nat, crashes : Nat, overtakes : Nat]
  BY <1>1, SpendType DEF CommitFails
<1>4. UNCHANGED <<setup, staged, pass, broker, up>> /\ (Inserts(h) \/ UNCHANGED <<scan, located, outbox>>)
  BY DEF CommitFails
<1>5. IntakeTypes' /\ staged' \in BOOLEAN
  BY <1>1, <1>2, <1>3, <1>4 DEF IntakeTypes
<1>6. CASE Inserts(h)
  BY <1>1, <1>4, <1>5, <1>6, InsertsTypes
<1>7. CASE UNCHANGED <<scan, located, outbox>>
  BY <1>1, <1>2, <1>3, <1>4, <1>5, <1>7, RequestKeeps
<1> QED  BY <1>4, <1>6, <1>7

\* What a pass is about to do.
LEMMA DueType ==
  ASSUME TypesInv
  PROVE  /\ Due \subseteq 1 .. Len(outbox) /\ Len(outbox) \in Nat /\ Due \subseteq DOMAIN outbox
         /\ \A i \in Due : outbox[i].state = "PENDING"
         /\ \A i \in DOMAIN outbox : outbox[i] \in OutboxRow
<1>1. outbox \in Seq(OutboxRow)
  BY DEF TypesInv, OutboxTypes
<1> QED  BY <1>1 DEF Due, Pending

LEMMA PublishTypes ==
  ASSUME TypesInv, NEW d \in Dispatcher, Publish(d)
  PROVE  TypesInv' /\ Extends
<1>1. Due \subseteq 1 .. Len(outbox) /\ Len(outbox) \in Nat /\ Due \subseteq DOMAIN outbox
        /\ \A i \in Due : outbox[i].state = "PENDING"
  BY DueType
<1>2. PICK lost \in SUBSET Due :
        /\ IF lost = {} THEN UNCHANGED spent ELSE Spend("faults")
        /\ pass' = [pass EXCEPT ![d] = [on |-> TRUE, tried |-> [i \in Due |-> outbox[i].attempts],
                                         sent |-> Due \ lost]]
        /\ \E q \in InOrder(Due \ lost) :
             msg' = msg \o [i \in DOMAIN q |-> Message(outbox[q[i]].scan, 0)]
  BY DEF Publish
<1>3. PICK q \in InOrder(Due \ lost) : msg' = msg \o [i \in DOMAIN q |-> Message(outbox[q[i]].scan, 0)]
  BY <1>2
<1> DEFINE new == [i \in DOMAIN q |-> Message(outbox[q[i]].scan, 0)]
           n == Cardinality(Due \ lost)
<1>4. n \in Nat /\ q \in [1 .. n -> Due \ lost]
  <2>1. Due \ lost \in SUBSET (1 .. Len(outbox))
    BY <1>1
  <2> QED  BY <1>1, <2>1, InOrderIsAll
<1>5. \A i \in DOMAIN outbox : outbox[i].scan \in Committed /\ outbox[i].scan \in Handler
  BY DEF TypesInv, OutboxTypes, Committed
<1>6. \A k \in 1 .. n : new[k] \in Entries /\ new[k].scan \in Committed
  BY <1>1, <1>4, <1>5 DEF Message, Entries, Place
<1>7. new \in Seq(Entries) /\ DOMAIN new = 1 .. n
  <2>1. DOMAIN new = 1 .. n /\ new = [k \in 1 .. n |-> new[k]]
    BY <1>4
  <2> HIDE DEF new, n
  <2>2. new \in [1 .. n -> Entries]
    BY <1>6, <2>1
  <2> QED  BY <1>4, <2>1, <2>2
<1>8. msg' = msg \o new
  BY <1>3
<1> HIDE DEF new, n
<1>9. Extends
  BY <1>6, <1>7, <1>8, Appended DEF TypesInv
<1>10. IntakeTypes'
  <2>1. IntakeTypes
    BY DEF TypesInv
  <2>2. spent' \in [faults : Nat, doubts : Nat, crashes : Nat, overtakes : Nat]
    BY <1>2, <2>1, SpendType DEF IntakeTypes
  <2>3. handler' \in [Handler -> HandlerState]
    <3>1. CASE d = Thread
      BY <2>1, <3>1 DEF Publish, IntakeTypes
    <3>2. CASE d # Thread
      <4>1. d \in Handler
        BY <3>2 DEF Dispatcher
      <4>2. Goes(d, "published")
        BY <3>2 DEF Publish
      <4> QED  BY <2>1, <4>1, <4>2, GoesType DEF Inside
    <3> QED  BY <3>1, <3>2
  <2> QED  BY <2>1, <2>2, <2>3 DEF Publish, IntakeTypes
<1>11. StoreTypes' /\ Committed' = Committed
  BY StoreKept DEF TypesInv, Publish, store, StoreTypes
<1>12. OutboxTypes'
  BY <1>11, OutboxKept DEF TypesInv, Publish
<1>13. PassTypes'
  <2>1. UNCHANGED outbox
    BY DEF Publish
  <2>2. \A i \in Due : outbox[i].attempts \in 0 .. MaxPublishes - 1
    <3>1. MaxPublishes \in Nat
      BY DeliveryAssumption
    <3>2. \A i \in DOMAIN outbox : outbox[i].attempts \in Nat
      BY DueType DEF OutboxRow
    <3>3. \A i \in Due : outbox[i].attempts < MaxPublishes
      BY <1>1 DEF TypesInv, OutboxTypes
    <3> QED  BY <1>1, <3>1, <3>2, <3>3
  <2> QED  BY <1>1, <1>2, <2>1, <2>2 DEF TypesInv, PassTypes
<1>14. MessageTypes' /\ WorkerTypes'
  <2>1. MessageTypes' /\ DOMAIN msg \subseteq DOMAIN msg'
    BY <1>9, <1>11, ExtendsType
  <2>2. WorkerTypes'
    BY <1>11, <2>1, WorkerKept DEF TypesInv, Publish
  <2> QED  BY <2>1, <2>2
<1> QED  BY <1>9, <1>10, <1>11, <1>12, <1>13, <1>14 DEF TypesInv

\* What the commit of a pass writes is a row of the same scan; only what was sent is
\* published by it, and what was not stays to be seen.
LEMMA DispatchedRow ==
  ASSUME TypesInv, NEW d \in Dispatcher, pass[d].on, NEW i \in DOMAIN outbox
  PROVE  /\ Dispatched(pass[d], i) \in OutboxRow
         /\ Dispatched(pass[d], i).scan = outbox[i].scan
         /\ Dispatched(pass[d], i).attempts <= MaxPublishes
         /\ Dispatched(pass[d], i).state = "PENDING" => Dispatched(pass[d], i).attempts < MaxPublishes
         /\ i \notin pass[d].sent /\ outbox[i].state \in {"PENDING", "FAILED"} =>
              Dispatched(pass[d], i).state \in {"PENDING", "FAILED"}
<1> DEFINE row == outbox[i]
           p == pass[d]
<1>1. row \in OutboxRow /\ row.attempts <= MaxPublishes
        /\ (row.state = "PENDING" => row.attempts < MaxPublishes)
  BY DueType DEF TypesInv, OutboxTypes
<1>2. MaxPublishes \in Nat
  BY DeliveryAssumption
<1>3. CASE i \notin DOMAIN p.tried
  BY <1>1, <1>3 DEF Dispatched
<1>4. CASE i \in DOMAIN p.tried /\ i \in p.sent
  <2>1. Dispatched(p, i) = [row EXCEPT !.state = "PUBLISHED"]
    BY <1>4 DEF Dispatched
  <2> HIDE DEF row, p
  <2>2. [row EXCEPT !.state = "PUBLISHED"] \in OutboxRow
          /\ [row EXCEPT !.state = "PUBLISHED"].scan = row.scan
          /\ [row EXCEPT !.state = "PUBLISHED"].attempts = row.attempts
          /\ [row EXCEPT !.state = "PUBLISHED"].state = "PUBLISHED"
    BY <1>1 DEF OutboxRow
  <2> QED  BY <1>1, <1>4, <2>1, <2>2 DEF row, p
<1>5. CASE i \in DOMAIN p.tried /\ i \notin p.sent
  <2> DEFINE n == p.tried[i] + 1
             st == IF n >= MaxPublishes THEN "FAILED" ELSE row.state
             new == [row EXCEPT !.attempts = n, !.state = st]
  <2>1. n \in 1 .. MaxPublishes
    BY <1>2, <1>5 DEF TypesInv, PassTypes
  <2>2. Dispatched(p, i) = new
    BY <1>5 DEF Dispatched
  <2> HIDE DEF row, p, n
  <2>3. n \in Nat /\ st \in {"PENDING", "PUBLISHED", "FAILED"}
    BY <1>1, <1>2, <2>1 DEF OutboxRow
  <2>4. new \in OutboxRow /\ new.scan = row.scan /\ new.attempts = n /\ new.state = st
    <3> HIDE DEF st
    <3> QED  BY <1>1, <2>3 DEF OutboxRow
  <2> HIDE DEF new
  <2>5. n \in Nat /\ n <= MaxPublishes /\ (~(n >= MaxPublishes) => n < MaxPublishes)
    BY <1>2, <2>1
  <2>6. new.scan = row.scan /\ new.attempts <= MaxPublishes
    BY <2>4, <2>5
  <2>7. new.state = "PENDING" => new.attempts < MaxPublishes
    BY <2>4, <2>5
  <2>8. row.state \in {"PENDING", "FAILED"} => new.state \in {"PENDING", "FAILED"}
    BY <2>4
  <2> QED  BY <2>2, <2>4, <2>6, <2>7, <2>8 DEF row, p
<1> QED  BY <1>3, <1>4, <1>5

LEMMA PublishCommitTypes ==
  ASSUME TypesInv, NEW d \in Dispatcher, PublishCommit(d)
  PROVE  TypesInv'
<1>1. pass[d].on /\ outbox' = [i \in DOMAIN outbox |-> Dispatched(pass[d], i)]
        /\ pass' = [pass EXCEPT ![d] = NoPass] /\ UNCHANGED <<intake, store, broker, up, spent>>
  BY DEF PublishCommit
<1>2. IntakeTypes'
  BY <1>1 DEF TypesInv, IntakeTypes, intake
<1>3. StoreTypes' /\ Committed' = Committed
  BY <1>1, StoreKept DEF TypesInv, store, StoreTypes
<1>4. outbox \in Seq(OutboxRow)
  BY DEF TypesInv, OutboxTypes
<1>5. outbox' \in Seq(OutboxRow) /\ DOMAIN outbox' = DOMAIN outbox
  <2>1. DOMAIN outbox = 1 .. Len(outbox) /\ Len(outbox) \in Nat
    BY <1>4
  <2>2. outbox' \in [1 .. Len(outbox) -> OutboxRow]
    BY <1>1, <2>1, DispatchedRow
  <2> QED  BY <2>1, <2>2
<1>6. OutboxTypes'
  <2> SUFFICES ASSUME NEW i \in DOMAIN outbox
               PROVE  /\ outbox'[i].scan \in Committed /\ outbox'[i].attempts <= MaxPublishes
                      /\ outbox'[i].state = "PENDING" => outbox'[i].attempts < MaxPublishes
    BY <1>3, <1>5 DEF OutboxTypes
  <2>1. outbox'[i] = Dispatched(pass[d], i) /\ outbox[i].scan \in Committed
    BY <1>1 DEF TypesInv, OutboxTypes
  <2> QED  BY <1>1, <2>1, DispatchedRow
<1>7. PassTypes'
  BY <1>1, <1>5 DEF TypesInv, PassTypes, NoPass
<1>8. MessageTypes' /\ WorkerTypes'
  BY <1>1, <1>3, MessageKept, WorkerKept DEF TypesInv, broker
<1> QED  BY <1>2, <1>3, <1>6, <1>7, <1>8 DEF TypesInv

LEMMA PublishRollbackTypes ==
  ASSUME TypesInv, NEW d \in Dispatcher, PublishRollback(d)
  PROVE  TypesInv'
<1>1. pass' = [pass EXCEPT ![d] = NoPass] /\ UNCHANGED <<intake, store, outbox, broker, up>>
  BY DEF PublishRollback
<1>2. spent' \in [faults : Nat, doubts : Nat, crashes : Nat, overtakes : Nat]
  BY SpendType DEF PublishRollback, TypesInv
<1>3. IntakeTypes'
  BY <1>1, <1>2 DEF TypesInv, IntakeTypes, intake
<1>4. StoreTypes' /\ Committed' = Committed
  BY <1>1, StoreKept DEF TypesInv, store, StoreTypes
<1>5. OutboxTypes'
  BY <1>1, <1>4, OutboxKept DEF TypesInv
<1>6. PassTypes'
  BY <1>1 DEF TypesInv, PassTypes, NoPass
<1>7. MessageTypes' /\ WorkerTypes'
  BY <1>1, <1>4, MessageKept, WorkerKept DEF TypesInv, broker
<1> QED  BY <1>3, <1>4, <1>5, <1>6, <1>7 DEF TypesInv

\* What a worker does to the scan besides its messages: at most it ends it.
LEMMA WorkerKeeps ==
  ASSUME TypesInv, UNCHANGED <<intake, bytes, located, outbox, pass, up>>,
         spent' \in [faults : Nat, doubts : Nat, crashes : Nat, overtakes : Nat],
         scan' \in [Handler -> {"NONE", "QUEUED", "COMPLETED", "FAILED"}], Committed' = Committed,
         Extends, WorkerTypes'
  PROVE  TypesInv'
<1>1. IntakeTypes'
  BY DEF TypesInv, IntakeTypes, intake
<1>2. StoreTypes'
  BY DEF TypesInv, StoreTypes
<1>3. OutboxTypes' /\ PassTypes'
  BY OutboxKept, PassKept DEF TypesInv
<1>4. MessageTypes'
  BY ExtendsType
<1> QED  BY <1>1, <1>2, <1>3, <1>4 DEF TypesInv

\* A step of a worker that moves messages and itself only.
QuietFrame == UNCHANGED <<intake, store, outbox, pass, up>>

LEMMA QuietKeeps ==
  ASSUME TypesInv, QuietFrame,
         spent' \in [faults : Nat, doubts : Nat, crashes : Nat, overtakes : Nat],
         Extends, WorkerTypes'
  PROVE  TypesInv' /\ Committed' = Committed
<1>1. UNCHANGED <<intake, bytes, located, outbox, pass, up, scan>>
  BY DEF QuietFrame, store
<1>2. Committed' = Committed
  BY <1>1 DEF Committed
<1>3. scan' \in [Handler -> {"NONE", "QUEUED", "COMPLETED", "FAILED"}]
  BY <1>1 DEF TypesInv, StoreTypes
<1> QED  BY <1>1, <1>2, <1>3, WorkerKeeps

LEMMA QuietCommitted == QuietFrame => Committed' = Committed
  BY DEF QuietFrame, store, Committed

LEMMA SpentKept ==
  ASSUME TypesInv, UNCHANGED spent
  PROVE  spent' \in [faults : Nat, doubts : Nat, crashes : Nat, overtakes : Nat]
  BY DEF TypesInv, IntakeTypes

LEMMA TimedOutType ==
  ASSUME TypesInv, NEW place \in {"pending", "leased"}, NEW all, TimedOut(place, all)
  PROVE  /\ all \subseteq DOMAIN msg /\ \A i \in all : msg[i].place = place
         /\ spent' \in [faults : Nat, doubts : Nat, crashes : Nat, overtakes : Nat]
<1> PICK early \in SUBSET {i \in At(place) : Holding(i) # {}} :
      /\ all = {i \in At(place) : Holding(i) = {}} \cup early
      /\ IF early = {} THEN UNCHANGED spent ELSE Cardinality(early) = 1 /\ Spend("overtakes")
  BY DEF TimedOut
<1>1. all \subseteq At(place)
  OBVIOUS
<1>2. spent' \in [faults : Nat, doubts : Nat, crashes : Nat, overtakes : Nat]
  BY SpendType, SpentKept DEF TypesInv
<1> QED  BY <1>1, <1>2 DEF At

LEMMA TakeTypes ==
  ASSUME TypesInv, NEW w \in Worker, Take(w)
  PROVE  /\ TypesInv' /\ DOMAIN msg' = DOMAIN msg
         /\ \A i \in DOMAIN msg :
              msg'[i] = msg[i] \/ (msg'[i].place = "pending" /\ msg'[i].scan = msg[i].scan
                                     /\ msg[i].place \in {"waiting", "pending"})
         /\ worker' = [worker EXCEPT ![w] = worker'[w]] /\ worker'[w].at \in {"loop", "handle"}
<1>1. MessageTypes /\ WorkerTypes /\ msg \in Seq(Entries)
  BY DEF TypesInv, MessageTypes
<1>2. PICK stale \in SUBSET DOMAIN msg :
        /\ TimedOut("pending", stale)
        /\ stale \cup First(At("waiting")) # {}
        /\ msg' = [i \in DOMAIN msg |->
                     IF i \in stale \cup First(At("waiting"))
                       THEN [msg[i] EXCEPT !.place = "pending", !.attempt = @ + 1] ELSE msg[i]]
        /\ \E q \in InOrder(stale \cup First(At("waiting"))) : Moves(w, "handle", q)
  BY DEF Take
<1> DEFINE got == stale \cup First(At("waiting"))
<1>3. got \in SUBSET DOMAIN msg /\ \A i \in got : msg[i].place \in {"waiting", "pending"}
  BY <1>2, TimedOutType DEF First, At
<1>4. spent' \in [faults : Nat, doubts : Nat, crashes : Nat, overtakes : Nat]
  BY <1>2, TimedOutType
<1>5. DOMAIN msg = 1 .. Len(msg) /\ Len(msg) \in Nat
  BY <1>1
<1>6. PICK q \in InOrder(got) : Moves(w, "handle", q)
  BY <1>2
<1>7. \A i \in DOMAIN msg :
        /\ msg'[i] \in Entries /\ msg'[i].scan = msg[i].scan
        /\ msg'[i] = msg[i] \/ (i \in got /\ msg'[i].place = "pending")
  <2> TAKE i \in DOMAIN msg
  <2>1. msg[i] \in Entries
    BY <1>1
  <2>2. CASE i \notin got
    BY <1>2, <2>1, <2>2
  <2>3. CASE i \in got
    <3>1. msg'[i] = [msg[i] EXCEPT !.place = "pending", !.attempt = @ + 1]
      BY <1>2, <2>3
    <3> HIDE DEF got
    <3> QED  BY <2>1, <2>3, <3>1, TakenType
  <2> QED  BY <2>2, <2>3
<1>8. DOMAIN msg' = DOMAIN msg /\ msg' \in Seq(Entries)
  <2>1. msg' \in [1 .. Len(msg) -> Entries]
    BY <1>2, <1>5, <1>7
  <2> QED  BY <1>5, <2>1
<1>9. Extends
  BY <1>1, <1>7, <1>8 DEF Extends, MessageTypes
<1>10. QuietFrame /\ UNCHANGED <<lease, turned>>
  BY DEF Take, QuietFrame
<1>11. q \in Seq(Nat) /\ q # <<>> /\ \A k \in DOMAIN q : q[k] \in DOMAIN msg
  <2>1. got \in SUBSET (1 .. Len(msg)) /\ got # {}
    BY <1>2, <1>3, <1>5
  <2> HIDE DEF got
  <2>2. q \in Seq(Nat) /\ q # <<>> /\ q \in [1 .. Cardinality(got) -> got]
    BY <1>5, <2>1, InOrderIsAll
  <2> QED  BY <1>3, <2>2
<1>12. lease' \in [Handler -> Worker \cup {Nobody, Orphan}] /\ turned' \subseteq Committed'
  BY <1>1, <1>10, QuietCommitted DEF WorkerTypes
<1>13. WorkerTypes'
  BY <1>1, <1>6, <1>8, <1>11, <1>12, MovesType DEF Busy
<1>14. worker' = [worker EXCEPT ![w] = worker'[w]] /\ worker'[w].at \in {"loop", "handle"}
  BY <1>1, <1>6 DEF Moves, WorkerTypes
<1> QED  BY <1>3, <1>4, <1>7, <1>8, <1>9, <1>10, <1>13, <1>14, QuietKeeps

LEMMA ClaimTypes ==
  ASSUME TypesInv, NEW w \in Worker, Claim(w)
  PROVE  /\ TypesInv'
         /\ \E i \in DOMAIN msg :
              /\ msg' = [msg EXCEPT ![i] = msg'[i]] /\ msg'[i].place = "taken" /\ msg'[i].scan = msg[i].scan
              /\ worker' = [worker EXCEPT ![w] = [at |-> "claimed", hand |-> <<i>>]]
<1>1. MessageTypes /\ WorkerTypes /\ msg \in Seq(Entries)
  BY DEF TypesInv, MessageTypes
<1>2. PICK i \in DOMAIN msg : msg' = [msg EXCEPT ![i].place = "taken"] /\ Moves(w, "claimed", <<i>>)
  BY DEF Claim, First, At
<1>3. i \in Nat /\ msg[i] \in Entries /\ "taken" \in Place
  BY <1>1 DEF Place
<1>4. [msg[i] EXCEPT !.place = "taken"] \in Entries
        /\ [msg[i] EXCEPT !.place = "taken"].scan = msg[i].scan
        /\ [msg[i] EXCEPT !.place = "taken"].place = "taken"
  BY <1>3, PlaceType
<1>5. msg' = [msg EXCEPT ![i] = [msg[i] EXCEPT !.place = "taken"]]
  BY <1>2
<1>6. Extends
  BY <1>1, <1>4, <1>5, Rewritten
<1>7. msg'[i] = [msg[i] EXCEPT !.place = "taken"] /\ DOMAIN msg' = DOMAIN msg
  BY <1>1, <1>5
<1>8. QuietFrame /\ UNCHANGED <<lease, turned, spent>>
  BY DEF Claim, QuietFrame
<1>9. lease' \in [Handler -> Worker \cup {Nobody, Orphan}] /\ turned' \subseteq Committed'
  BY <1>1, <1>8, QuietCommitted DEF WorkerTypes
<1>10. <<i>> \in Seq(Nat) /\ <<i>> # <<>> /\ \A k \in DOMAIN <<i>> : <<i>>[k] \in DOMAIN msg'
  BY <1>3, <1>7
<1>11. WorkerTypes'
  BY <1>1, <1>2, <1>7, <1>9, <1>10, MovesType DEF Busy
<1>12. worker' = [worker EXCEPT ![w] = [at |-> "claimed", hand |-> <<i>>]]
  BY <1>2, <1>10 DEF Moves
<1> QED  BY <1>4, <1>5, <1>6, <1>7, <1>8, <1>11, <1>12, QuietKeeps, SpentKept

LEMMA ClaimLeaseTypes ==
  ASSUME TypesInv, NEW w \in Worker, ClaimLease(w)
  PROVE  /\ TypesInv'
         /\ \E i \in DOMAIN msg :
              msg' = [msg EXCEPT ![i] = msg'[i]] /\ msg'[i].place = "leased" /\ msg'[i].scan = msg[i].scan
                /\ Head(worker[w].hand) = i
         /\ worker' = [worker EXCEPT ![w] = worker'[w]] /\ worker'[w].at \in {"loop", "handle"}
<1>1. MessageTypes /\ WorkerTypes /\ msg \in Seq(Entries) /\ worker[w].at \in Busy
  BY DEF TypesInv, MessageTypes, ClaimLease, Busy
<1> DEFINE i == Head(worker[w].hand)
<1>2. i \in DOMAIN msg
  BY <1>1, HandOf
<1>3. msg' = [msg EXCEPT ![i].place = "leased"] /\ StaysAt(w, "handle")
        /\ QuietFrame /\ UNCHANGED <<lease, turned, spent>>
  BY DEF ClaimLease, QuietFrame
<1> HIDE DEF i
<1>4. msg[i] \in Entries /\ "leased" \in Place
  BY <1>1, <1>2 DEF Place
<1>5. [msg[i] EXCEPT !.place = "leased"] \in Entries
        /\ [msg[i] EXCEPT !.place = "leased"].scan = msg[i].scan
        /\ [msg[i] EXCEPT !.place = "leased"].place = "leased"
  BY <1>4, PlaceType
<1>6. msg' = [msg EXCEPT ![i] = [msg[i] EXCEPT !.place = "leased"]]
  BY <1>3
<1>7. Extends
  BY <1>1, <1>2, <1>5, <1>6, Rewritten
<1>8. msg'[i] = [msg[i] EXCEPT !.place = "leased"] /\ DOMAIN msg' = DOMAIN msg
  BY <1>1, <1>2, <1>6
<1>9. lease' \in [Handler -> Worker \cup {Nobody, Orphan}] /\ turned' \subseteq Committed'
  BY <1>1, <1>3, QuietCommitted DEF WorkerTypes
<1>10. WorkerTypes' /\ worker' = [worker EXCEPT ![w] = [at |-> "handle", hand |-> worker[w].hand]]
  BY <1>1, <1>3, <1>8, <1>9, StaysType DEF Busy
<1>11. worker' = [worker EXCEPT ![w] = worker'[w]] /\ worker'[w].at = "handle"
  BY <1>1, <1>10 DEF WorkerTypes
<1> QED  BY <1>2, <1>3, <1>5, <1>6, <1>7, <1>8, <1>10, <1>11, QuietKeeps, SpentKept DEF i

LEMMA RecoverStaleTypes ==
  ASSUME TypesInv, NEW w \in Worker, RecoverStale(w)
  PROVE  TypesInv' /\ UNCHANGED worker /\ \E i \in DOMAIN msg : msg' = Replaced(i)
<1>1. MessageTypes /\ WorkerTypes
  BY DEF TypesInv
<1>2. PICK all \in SUBSET DOMAIN msg : TimedOut("leased", all) /\ \E i \in all : msg' = Replaced(i)
  BY DEF RecoverStale
<1>3. PICK i \in DOMAIN msg : msg' = Replaced(i)
  BY <1>2
<1>4. Extends
  BY <1>1, <1>3, ReplacedExtends
<1>5. spent' \in [faults : Nat, doubts : Nat, crashes : Nat, overtakes : Nat]
  BY <1>2, TimedOutType
<1>6. QuietFrame /\ UNCHANGED <<worker, lease, turned>>
  BY DEF RecoverStale, QuietFrame
<1>7. Committed' = Committed
  BY <1>6, QuietCommitted
<1>8. WorkerTypes'
  BY <1>1, <1>4, <1>6, <1>7, ExtendsType, WorkerKept
<1> QED  BY <1>3, <1>4, <1>5, <1>6, <1>8, QuietKeeps

\* Both acknowledgements take at most the message at hand out of the transport.
LEMMA AcknowledgesTypes ==
  ASSUME TypesInv, NEW w \in Worker, worker[w].at \in Busy, Acknowledges(w), QuietFrame,
         lease' \in [Handler -> Worker \cup {Nobody, Orphan}], turned' \subseteq Committed,
         spent' \in [faults : Nat, doubts : Nat, crashes : Nat, overtakes : Nat]
  PROVE  /\ TypesInv' /\ Extends
         /\ \A j \in DOMAIN msg : msg[j].scan # Work(w) => msg'[j] = msg[j]
         /\ \A j \in DOMAIN msg : j # Head(worker[w].hand) => msg'[j] = msg[j]
         /\ worker' = [worker EXCEPT ![w] = worker'[w]] /\ worker'[w].at \in {"loop", "handle"}
<1> DEFINE i == Head(worker[w].hand)
<1>1. MessageTypes /\ WorkerTypes
  BY DEF TypesInv
<1>2. i \in DOMAIN msg /\ Work(w) = msg[i].scan
  BY <1>1, HandOf DEF Work
<1>3. (msg' = IF Here(i) THEN Gone(i) ELSE msg) /\ Drops(w)
  BY DEF Acknowledges
<1> HIDE DEF i
<1>4. Extends /\ \A j \in DOMAIN msg : j # i => msg'[j] = msg[j]
  <2>1. CASE msg' = Gone(i)
    BY <1>1, <1>2, <2>1, GoneExtends
  <2>2. CASE msg' = msg
    BY <1>1, <2>2, Same
  <2> QED  BY <1>3, <2>1, <2>2
<1>5. Committed' = Committed
  BY QuietCommitted
<1>6. DOMAIN msg \subseteq DOMAIN msg'
  BY <1>4, <1>5, ExtendsType
<1>7. WorkerTypes' /\ worker' = [worker EXCEPT ![w] = worker'[w]] /\ worker'[w].at \in {"loop", "handle"}
  BY <1>1, <1>3, <1>5, <1>6, DropsType
<1> QED  BY <1>2, <1>4, <1>7, QuietKeeps DEF i

LEMMA DeadLetterTypes ==
  ASSUME TypesInv, NEW w \in Worker, DeadLetter(w)
  PROVE  /\ TypesInv'
         /\ \E i \in DOMAIN msg :
              msg' = [msg EXCEPT ![i] = msg'[i]] /\ msg'[i].place = "dead" /\ msg'[i].scan = msg[i].scan
         /\ worker' = [worker EXCEPT ![w] = worker'[w]] /\ worker'[w].at \in {"loop", "handle"}
<1>1. MessageTypes /\ WorkerTypes /\ msg \in Seq(Entries) /\ worker[w].at \in Busy
  BY DEF TypesInv, MessageTypes, DeadLetter, Busy
<1> DEFINE i == Head(worker[w].hand)
<1>2. i \in DOMAIN msg
  BY <1>1, HandOf
<1>3. msg' = [msg EXCEPT ![i].place = "dead"] /\ Drops(w)
        /\ QuietFrame /\ UNCHANGED <<lease, turned, spent>>
  BY DEF DeadLetter, QuietFrame
<1> HIDE DEF i
<1>4. msg[i] \in Entries /\ "dead" \in Place
  BY <1>1, <1>2 DEF Place
<1>5. [msg[i] EXCEPT !.place = "dead"] \in Entries
        /\ [msg[i] EXCEPT !.place = "dead"].scan = msg[i].scan
        /\ [msg[i] EXCEPT !.place = "dead"].place = "dead"
  BY <1>4, PlaceType
<1>6. msg' = [msg EXCEPT ![i] = [msg[i] EXCEPT !.place = "dead"]]
  BY <1>3
<1>7. Extends
  BY <1>1, <1>2, <1>5, <1>6, Rewritten
<1>8. msg'[i] = [msg[i] EXCEPT !.place = "dead"] /\ DOMAIN msg' = DOMAIN msg
  BY <1>1, <1>2, <1>6
<1>9. lease' \in [Handler -> Worker \cup {Nobody, Orphan}] /\ turned' \subseteq Committed'
  BY <1>1, <1>3, QuietCommitted DEF WorkerTypes
<1>10. WorkerTypes' /\ worker' = [worker EXCEPT ![w] = worker'[w]] /\ worker'[w].at \in {"loop", "handle"}
  BY <1>1, <1>3, <1>8, <1>9, DropsType
<1> QED  BY <1>2, <1>3, <1>5, <1>6, <1>7, <1>8, <1>10, QuietKeeps, SpentKept

\* A worker that begins, decides or leaves a run moves neither messages nor rows.
LEMMA RunTypes ==
  ASSUME TypesInv, NEW w \in Worker, Enter(w) \/ RunDecides(w) \/ RunRaises(w) \/ BreaksOff(w)
  PROVE  /\ TypesInv' /\ UNCHANGED <<scan, outbox, pass, msg, turned, up>>
         /\ worker[w].at \in {"handle", "run", "close"}
         /\ worker' = [worker EXCEPT ![w] = worker'[w]] /\ worker'[w].hand = worker[w].hand
         /\ worker'[w].at = IF Enter(w) THEN "run" ELSE IF RunDecides(w) THEN "close" ELSE "raise"
<1> DEFINE at == IF Enter(w) THEN "run" ELSE IF RunDecides(w) THEN "close" ELSE "raise"
<1>1. MessageTypes /\ WorkerTypes
  BY DEF TypesInv
<1>2. worker[w].at \in {"handle", "run", "close"}
  BY DEF Enter, RunDecides, RunRaises, BreaksOff, Starts
<1>3. QuietFrame /\ UNCHANGED <<msg, turned>> /\ StaysAt(w, at)
  BY DEF Enter, RunDecides, RunRaises, BreaksOff, QuietFrame
<1>4. spent' \in [faults : Nat, doubts : Nat, crashes : Nat, overtakes : Nat]
  BY SpendType, SpentKept DEF TypesInv, Enter, RunDecides, RunRaises, BreaksOff
<1>5. lease' \in [Handler -> Worker \cup {Nobody, Orphan}]
  BY <1>1 DEF WorkerTypes, Enter, RunDecides, RunRaises, BreaksOff, Leaves
<1>6. turned' \subseteq Committed'
  BY <1>1, <1>3, QuietCommitted DEF WorkerTypes
<1>7. Extends
  BY <1>1, <1>3, Same
<1>8. worker[w].at \in Busy /\ at \in Busy
  BY <1>2 DEF Busy
<1> HIDE DEF at
<1>9. WorkerTypes' /\ worker' = [worker EXCEPT ![w] = [at |-> at, hand |-> worker[w].hand]]
  BY <1>1, <1>3, <1>5, <1>6, <1>8, StaysType
<1>10. /\ worker' = [worker EXCEPT ![w] = worker'[w]]
       /\ worker'[w].at = at /\ worker'[w].hand = worker[w].hand
  BY <1>1, <1>9 DEF WorkerTypes
<1>11. TypesInv'
  BY <1>3, <1>4, <1>7, <1>9, QuietKeeps
<1> QED  BY <1>2, <1>3, <1>10, <1>11 DEF QuietFrame, store, at

LEMMA DismissTypes ==
  ASSUME TypesInv, NEW w \in Worker, Dismiss(w)
  PROVE  /\ TypesInv' /\ Extends
         /\ \A j \in DOMAIN msg : msg[j].scan # Work(w) => msg'[j] = msg[j]
         /\ \A j \in DOMAIN msg : j # Head(worker[w].hand) => msg'[j] = msg[j]
         /\ turned \subseteq turned'
         /\ \/ scan[Work(w)] \in Ended \/ Work(w) \in turned' \/ Closed(Work(w))
            \/ HeldWithAnother(Work(w), Head(worker[w].hand))
         /\ UNCHANGED <<scan, outbox, pass, stage, up>>
         /\ worker' = [worker EXCEPT ![w] = worker'[w]] /\ worker'[w].at \in {"loop", "handle"}
<1>1. worker[w].at \in Busy /\ Acknowledges(w) /\ QuietFrame /\ UNCHANGED <<lease, stage, spent>>
  BY DEF Dismiss, Starts, Busy, QuietFrame
<1>2. Work(w) \in Committed
  BY <1>1, HandOf DEF TypesInv
<1>3. /\ turned \subseteq turned' /\ turned' \subseteq Committed
      /\ \/ scan[Work(w)] \in Ended \/ Work(w) \in turned' \/ lease[Work(w)] = Nobody
         \/ HeldWithAnother(Work(w), Head(worker[w].hand))
      /\ scan[Work(w)] \in Ended \/ ~Claimable(Work(w))
  BY <1>2 DEF Dismiss, TypesInv, WorkerTypes
<1>4. lease' \in [Handler -> Worker \cup {Nobody, Orphan}]
  BY <1>1 DEF TypesInv, WorkerTypes
<1>5. /\ TypesInv' /\ Extends
      /\ \A j \in DOMAIN msg : msg[j].scan # Work(w) => msg'[j] = msg[j]
      /\ \A j \in DOMAIN msg : j # Head(worker[w].hand) => msg'[j] = msg[j]
      /\ worker' = [worker EXCEPT ![w] = worker'[w]] /\ worker'[w].at \in {"loop", "handle"}
  BY <1>1, <1>3, <1>4, AcknowledgesTypes, SpentKept
<1>6. \/ scan[Work(w)] \in Ended \/ Work(w) \in turned' \/ Closed(Work(w))
      \/ HeldWithAnother(Work(w), Head(worker[w].hand))
  BY <1>3 DEF Claimable, Closed
<1> QED  BY <1>1, <1>3, <1>5, <1>6 DEF QuietFrame, store

LEMMA AcknowledgeTypes ==
  ASSUME TypesInv, NEW w \in Worker, Acknowledge(w)
  PROVE  /\ TypesInv' /\ Extends
         /\ \A j \in DOMAIN msg : msg[j].scan # Work(w) => msg'[j] = msg[j]
         /\ UNCHANGED <<scan, outbox, pass, turned, up>>
         /\ worker' = [worker EXCEPT ![w] = worker'[w]] /\ worker'[w].at \in {"loop", "handle"}
<1>1. worker[w].at \in Busy /\ Acknowledges(w) /\ QuietFrame /\ UNCHANGED <<lease, turned, spent>>
  BY DEF Acknowledge, Busy, QuietFrame
<1>2. lease' \in [Handler -> Worker \cup {Nobody, Orphan}] /\ turned' \subseteq Committed
  BY <1>1 DEF TypesInv, WorkerTypes
<1> QED  BY <1>1, <1>2, AcknowledgesTypes, SpentKept DEF QuietFrame, store

LEMMA FailTypes ==
  ASSUME TypesInv, NEW w \in Worker, Fail(w)
  PROVE  /\ TypesInv'
         /\ UNCHANGED msg \/ \E i \in DOMAIN msg : msg' = Replaced(i)
         /\ UNCHANGED <<scan, outbox, pass, turned, up>>
         /\ worker' = [worker EXCEPT ![w] = worker'[w]] /\ worker'[w].at \in {"loop", "handle"}
<1> DEFINE i == Head(worker[w].hand)
<1>1. worker[w].at \in Busy /\ Drops(w) /\ QuietFrame /\ UNCHANGED <<lease, turned, spent>>
        /\ (msg' = IF setup.transport = "list" /\ Here(i) THEN Replaced(i) ELSE msg)
  BY DEF Fail, Busy, QuietFrame
<1>2. MessageTypes /\ WorkerTypes
  BY DEF TypesInv
<1>3. i \in DOMAIN msg
  BY <1>1, <1>2, HandOf
<1> HIDE DEF i
<1>4. UNCHANGED msg \/ msg' = Replaced(i)
  BY <1>1
<1>5. Extends
  BY <1>2, <1>3, <1>4, Same, ReplacedExtends
<1>6. Committed' = Committed /\ DOMAIN msg \subseteq DOMAIN msg'
  BY <1>1, <1>5, QuietCommitted, ExtendsType
<1>7. lease' \in [Handler -> Worker \cup {Nobody, Orphan}] /\ turned' \subseteq Committed'
  BY <1>1, <1>2, <1>6 DEF WorkerTypes
<1>8. WorkerTypes' /\ worker' = [worker EXCEPT ![w] = worker'[w]] /\ worker'[w].at \in {"loop", "handle"}
  BY <1>1, <1>2, <1>6, <1>7, DropsType
<1> QED  BY <1>1, <1>3, <1>4, <1>5, <1>8, QuietKeeps, SpentKept DEF QuietFrame, store

LEMMA RunEndsTypes ==
  ASSUME TypesInv, NEW w \in Worker, RunEnds(w)
  PROVE  /\ TypesInv' /\ Committed' = Committed /\ Unfinished' = Unfinished \ {Work(w)}
         /\ \A s \in Handler : scan[s] \in Ended => scan'[s] \in Ended
         /\ scan'[Work(w)] \in Ended
         /\ UNCHANGED <<outbox, pass, msg, turned, up>>
         /\ worker' = [worker EXCEPT ![w] = [at |-> "ack", hand |-> worker[w].hand]]
<1>1. MessageTypes /\ WorkerTypes /\ worker[w].at \in Busy
  BY DEF TypesInv, RunEnds, Busy
<1>2. Work(w) \in Committed /\ Work(w) \in Handler
  BY <1>1, HandOf
<1>3. PICK end \in Ended : scan' = [scan EXCEPT ![Work(w)] = end]
  BY DEF RunEnds, Ended
<1>4. scan \in [Handler -> {"NONE", "QUEUED", "COMPLETED", "FAILED"}]
  BY DEF TypesInv, StoreTypes
<1>5. scan' \in [Handler -> {"NONE", "QUEUED", "COMPLETED", "FAILED"}]
        /\ \A s \in Handler : scan'[s] = IF s = Work(w) THEN end ELSE scan[s]
  BY <1>2, <1>3, <1>4 DEF Ended
<1>6. Committed' = Committed /\ Unfinished' = Unfinished \ {Work(w)}
  BY <1>2, <1>5 DEF Committed, Unfinished, Ended
<1>7. UNCHANGED <<intake, bytes, located, outbox, pass, msg, turned, up, spent>> /\ StaysAt(w, "ack")
  BY DEF RunEnds
<1>8. lease' \in [Handler -> Worker \cup {Nobody, Orphan}] /\ turned' \subseteq Committed'
  BY <1>1, <1>6, <1>7 DEF WorkerTypes, RunEnds
<1>9. WorkerTypes' /\ worker' = [worker EXCEPT ![w] = [at |-> "ack", hand |-> worker[w].hand]]
  BY <1>1, <1>7, <1>8, StaysType DEF Busy
<1>10. Extends
  BY <1>1, <1>7, Same
<1>11. TypesInv'
  BY <1>5, <1>6, <1>7, <1>9, <1>10, WorkerKeeps, SpentKept
<1> QED  BY <1>2, <1>5, <1>6, <1>7, <1>9, <1>11

(* Types: processes and media. *)

LEMMA WorkerDiesTypes ==
  ASSUME TypesInv, NEW w \in Worker, WorkerDies(w)
  PROVE  /\ TypesInv' /\ UNCHANGED <<scan, outbox, pass, msg, turned, up>>
         /\ worker' = [worker EXCEPT ![w] = [at |-> "down", hand |-> <<>>]] /\ worker'[w].at = "down"
<1>1. MessageTypes /\ WorkerTypes
  BY DEF TypesInv
<1>2. worker' = [worker EXCEPT ![w] = [at |-> "down", hand |-> <<>>]]
        /\ lease' = [s \in Handler |-> IF lease[s] = w THEN Orphan ELSE lease[s]]
        /\ QuietFrame /\ UNCHANGED <<msg, turned>>
  BY DEF WorkerDies, QuietFrame
<1>3. spent' \in [faults : Nat, doubts : Nat, crashes : Nat, overtakes : Nat]
  BY SpendType DEF TypesInv, WorkerDies
<1>4. [at |-> "down", hand |-> <<>>] \in [at : Busy \cup {"loop", "down"}, hand : Seq(Nat)]
        /\ DOMAIN <<>> = {} /\ "down" \notin Busy
  BY DEF Busy
<1>5. worker' \in [Worker -> [at : Busy \cup {"loop", "down"}, hand : Seq(Nat)]]
  BY <1>1, <1>2, <1>4 DEF WorkerTypes
<1>6. \A v \in Worker : worker'[v] = IF v = w THEN [at |-> "down", hand |-> <<>>] ELSE worker[v]
  BY <1>1, <1>2 DEF WorkerTypes
<1>7. lease' \in [Handler -> Worker \cup {Nobody, Orphan}] /\ turned' \subseteq Committed'
  BY <1>1, <1>2, QuietCommitted DEF WorkerTypes
<1>8. WorkerTypes'
  BY <1>1, <1>2, <1>4, <1>5, <1>6, <1>7 DEF WorkerTypes
<1>9. Extends
  BY <1>1, <1>2, Same
<1>10. TypesInv'
  BY <1>2, <1>3, <1>8, <1>9, QuietKeeps
<1> QED  BY <1>2, <1>6, <1>10 DEF QuietFrame, store

\* A process that starts looks for scans that are not finished.
LEMMA StartsTypes ==
  ASSUME TypesInv, Recovers, UNCHANGED <<intake, store, pass, msg, lease, turned, spent>>,
         up' \in BOOLEAN, WorkerTypes'
  PROVE  /\ TypesInv' /\ Unfinished' = Unfinished
         /\ \A s \in Unfinished : RowCarries(s)'
<1>1. Unfinished \subseteq Handler /\ (\A s, t \in Unfinished : s = t) /\ outbox \in Seq(OutboxRow)
  BY DEF TypesInv, StoreTypes, OutboxTypes, Unfinished, Committed
<1>2. /\ outbox' \in Seq(OutboxRow)
      /\ DOMAIN outbox \subseteq DOMAIN outbox'
      /\ \A i \in DOMAIN outbox : outbox'[i] = outbox[i]
      /\ \A i \in DOMAIN outbox' \ DOMAIN outbox : \E s \in Unfinished : outbox'[i] = Row(s)
      /\ \A s \in Unfinished : \E i \in DOMAIN outbox' \ DOMAIN outbox : outbox'[i] = Row(s)
  BY <1>1, RecoversRows
<1>3. IntakeTypes'
  BY DEF TypesInv, IntakeTypes, intake
<1>4. StoreTypes' /\ Committed' = Committed /\ Unfinished' = Unfinished
  BY StoreKept DEF TypesInv, store, StoreTypes, Unfinished
<1>5. MaxPublishes \in Nat /\ 0 < MaxPublishes
  BY DeliveryAssumption
<1>6. OutboxTypes'
  <2> SUFFICES ASSUME NEW i \in DOMAIN outbox'
               PROVE  /\ outbox'[i].scan \in Committed /\ outbox'[i].attempts <= MaxPublishes
                      /\ outbox'[i].state = "PENDING" => outbox'[i].attempts < MaxPublishes
    BY <1>2, <1>4 DEF OutboxTypes
  <2>1. CASE i \in DOMAIN outbox
    BY <1>2, <2>1 DEF TypesInv, OutboxTypes
  <2>2. CASE i \notin DOMAIN outbox
    <3>1. PICK s \in Unfinished : outbox'[i] = Row(s)
      BY <1>2, <2>2
    <3> QED  BY <1>5, <3>1 DEF Row, Unfinished, Committed
  <2> QED  BY <2>1, <2>2
<1>7. PassTypes'
  BY <1>2, PassKept DEF TypesInv
<1>8. MessageTypes'
  BY <1>4, MessageKept DEF TypesInv
<1>9. \A s \in Unfinished : RowCarries(s)'
  <2> TAKE s \in Unfinished
  <2>1. PICK i \in DOMAIN outbox' \ DOMAIN outbox : outbox'[i] = Row(s)
    BY <1>2
  <2>2. \A d \in Dispatcher : i \notin pass'[d].sent
    BY <2>1 DEF TypesInv, PassTypes
  <2>3. outbox'[i].scan = s /\ outbox'[i].state = "PENDING"
    BY <2>1 DEF Row
  <2> QED  BY <2>1, <2>2, <2>3 DEF RowCarries
<1> QED  BY <1>3, <1>4, <1>6, <1>7, <1>8, <1>9 DEF TypesInv

LEMMA WorkerStartsTypes ==
  ASSUME TypesInv, NEW w \in Worker, WorkerStarts(w)
  PROVE  /\ TypesInv' /\ Unfinished' = Unfinished /\ \A s \in Unfinished : RowCarries(s)'
         /\ \A v \in Worker : worker'[v].at = "ack" => worker'[v] = worker[v]
<1>1. WorkerTypes /\ worker' = [worker EXCEPT ![w] = [at |-> "loop", hand |-> <<>>]]
  BY DEF TypesInv, WorkerStarts, AtLoop
<1>2. [at |-> "loop", hand |-> <<>>] \in [at : Busy \cup {"loop", "down"}, hand : Seq(Nat)]
        /\ DOMAIN <<>> = {} /\ "loop" \notin Busy
  BY DEF Busy
<1>3. worker' \in [Worker -> [at : Busy \cup {"loop", "down"}, hand : Seq(Nat)]]
  BY <1>1, <1>2 DEF WorkerTypes
<1>4. \A v \in Worker : worker'[v] = IF v = w THEN [at |-> "loop", hand |-> <<>>] ELSE worker[v]
  BY <1>1 DEF WorkerTypes
<1>5. UNCHANGED <<intake, store, pass, msg, lease, turned, up, spent>> /\ Recovers
  BY DEF WorkerStarts
<1>6. Committed' = Committed
  BY <1>5 DEF store, Committed
<1>7. WorkerTypes'
  BY <1>1, <1>2, <1>3, <1>4, <1>5, <1>6 DEF WorkerTypes
<1>8. up' \in BOOLEAN
  BY <1>5 DEF TypesInv, IntakeTypes
<1> QED  BY <1>4, <1>5, <1>7, <1>8, StartsTypes

LEMMA ApiStartsTypes ==
  ASSUME TypesInv, ApiStarts
  PROVE  /\ TypesInv' /\ Unfinished' = Unfinished /\ \A s \in Unfinished : RowCarries(s)'
         /\ UNCHANGED <<worker, msg>>
<1>1. UNCHANGED <<intake, store, pass, msg, worker, lease, turned, spent>> /\ Recovers /\ up' \in BOOLEAN
  BY DEF ApiStarts, broker
<1>2. Committed' = Committed
  BY <1>1 DEF store, Committed
<1>3. WorkerTypes'
  BY <1>1, <1>2, WorkerKept DEF TypesInv
<1> QED  BY <1>1, <1>3, StartsTypes

LEMMA ApiDiesTypes ==
  ASSUME TypesInv, ApiDies
  PROVE  TypesInv' /\ Committed' = Committed
<1>1. UNCHANGED <<setup, staged, store, outbox, broker>> /\ up' = FALSE
        /\ pass' = [d \in Dispatcher |-> NoPass]
        /\ handler' = [h \in Handler |-> IF handler[h].at = "done" THEN handler[h]
                                         ELSE [handler[h] EXCEPT !.at = "done", !.answer = 500]]
  BY DEF ApiDies
<1>2. handler \in [Handler -> HandlerState]
  BY DEF TypesInv, IntakeTypes
<1>3. handler' \in [Handler -> HandlerState]
  <2>1. \A h \in Handler : handler[h] \in HandlerState
    BY <1>2
  <2>2. \A r \in HandlerState : [r EXCEPT !.at = "done", !.answer = 500] \in HandlerState
    <3> DEFINE A == Inside \cup {"done"}
               C == {0, 202, 404, 409, 429, 500}
    <3>1. "done" \in A /\ 500 \in C
      OBVIOUS
    <3> HIDE DEF A, C
    <3>2. \A r \in [at : A, digest : 1 .. 2, answer : C, scan : Handler] :
            [r EXCEPT !.at = "done", !.answer = 500] \in [at : A, digest : 1 .. 2, answer : C, scan : Handler]
      BY <3>1
    <3> QED  BY <3>2 DEF HandlerState, A, C
  <2> QED  BY <1>1, <2>1, <2>2
<1>4. spent' \in [faults : Nat, doubts : Nat, crashes : Nat, overtakes : Nat]
  BY SpendType DEF ApiDies, TypesInv
<1>5. IntakeTypes'
  BY <1>1, <1>3, <1>4 DEF TypesInv, IntakeTypes
<1>6. StoreTypes' /\ Committed' = Committed
  BY <1>1, StoreKept DEF TypesInv, store, StoreTypes
<1>7. PassTypes'
  BY <1>1 DEF PassTypes, NoPass
<1>8. OutboxTypes' /\ MessageTypes' /\ WorkerTypes'
  BY <1>1, <1>6, OutboxKept, MessageKept, WorkerKept DEF TypesInv, broker
<1> QED  BY <1>5, <1>6, <1>7, <1>8 DEF TypesInv

LEMMA LeaseExpiresTypes ==
  ASSUME TypesInv, NEW s \in Handler, LeaseExpires(s)
  PROVE  TypesInv' /\ UNCHANGED <<scan, outbox, pass, msg, worker, turned, up>>
<1>1. QuietFrame /\ UNCHANGED <<msg, worker, turned, spent>>
  BY DEF LeaseExpires, QuietFrame
<1>2. lease' \in [Handler -> Worker \cup {Nobody, Orphan}]
  BY DEF TypesInv, WorkerTypes, LeaseExpires
<1>3. WorkerTypes'
  BY <1>1, <1>2, QuietCommitted DEF TypesInv, WorkerTypes
<1>4. Extends
  BY <1>1, Same DEF TypesInv
<1> QED  BY <1>1, <1>3, <1>4, QuietKeeps, SpentKept DEF QuietFrame, store

LEMMA ReapTypes ==
  ASSUME TypesInv, NEW s \in Handler, Reap(s)
  PROVE  TypesInv' /\ UNCHANGED <<scan, outbox, pass, msg, worker, lease, turned, up>>
<1>1. QuietFrame /\ UNCHANGED <<msg, worker, lease, turned, spent>>
  BY DEF Reap, QuietFrame
<1>2. WorkerTypes'
  BY <1>1, QuietCommitted DEF TypesInv, WorkerTypes
<1>3. Extends
  BY <1>1, Same DEF TypesInv
<1> QED  BY <1>1, <1>2, <1>3, QuietKeeps, SpentKept DEF QuietFrame, store

LEMMA PurgeTypes ==
  ASSUME TypesInv, NEW s \in Handler, Purge(s)
  PROVE  TypesInv'
<1>1. UNCHANGED <<intake, scan, outbox, pass, broker, up>> /\ bytes' \subseteq bytes /\ located' \subseteq located
  BY DEF Purge, Purges
<1>2. spent' \in [faults : Nat, doubts : Nat, crashes : Nat, overtakes : Nat]
  BY SpendType, SpentKept DEF Purge, Purges, TypesInv
<1>3. IntakeTypes'
  BY <1>1, <1>2 DEF TypesInv, IntakeTypes, intake
<1>4. bytes' \subseteq Handler
  BY <1>1 DEF TypesInv, StoreTypes
<1>5. StoreTypes' /\ Committed' = Committed
  BY <1>1, <1>4, StoreKept DEF TypesInv
<1> QED  BY <1>1, <1>3, <1>5, CarriersKept DEF TypesInv

LEMMA StutterTypes ==
  ASSUME TypesInv, UNCHANGED vars
  PROVE  TypesInv'
<1>1. UNCHANGED <<setup, scan, located, bytes, outbox, pass, broker, up, staged, handler, spent>>
  BY DEF vars, broker
<1>2. bytes' \subseteq Handler /\ staged' \in BOOLEAN /\ handler' \in [Handler -> HandlerState]
        /\ spent' \in [faults : Nat, doubts : Nat, crashes : Nat, overtakes : Nat]
  BY <1>1 DEF TypesInv, StoreTypes, IntakeTypes
<1> QED  BY <1>1, <1>2, RequestKeeps

LEMMA NextTypes == TypesInv /\ LockInv /\ [Next]_vars => TypesInv'
<1> SUFFICES ASSUME TypesInv, LockInv, [Next]_vars PROVE TypesInv'
  OBVIOUS
<1>1. ASSUME NEW h \in Handler, Request(h) PROVE TypesInv'
  <2>1. CASE Commit(h) \/ CommitFails(h)
    <3>1. Committed = {}
      BY <2>1 DEF Commit, CommitFails, LockInv
    <3> QED  BY <2>1, <3>1, CommitTypes, CommitFailsTypes
  <2> QED  BY <1>1, <2>1, ReadGrantTypes, LookupTypes, InsertTypes, RecheckTypes, AnsweringTypes,
              HandlerFailsTypes
           DEF Request
<1>2. ASSUME NEW s \in Handler, LeaseExpires(s) \/ Reap(s) \/ Purge(s) PROVE TypesInv'
  BY <1>2, LeaseExpiresTypes, ReapTypes, PurgeTypes
<1>3. ASSUME NEW d \in Dispatcher, Publish(d) \/ PublishCommit(d) \/ PublishRollback(d) PROVE TypesInv'
  BY <1>3, PublishTypes, PublishCommitTypes, PublishRollbackTypes
<1>4. ASSUME NEW w \in Worker, WorkerStep(w) PROVE TypesInv'
  BY <1>4, TakeTypes, ClaimTypes, ClaimLeaseTypes, RecoverStaleTypes, DeadLetterTypes, DismissTypes,
     RunTypes, RunEndsTypes, AcknowledgeTypes, FailTypes
  DEF WorkerStep
<1>5. ASSUME NEW w \in Worker, WorkerDies(w) \/ WorkerStarts(w) PROVE TypesInv'
  BY <1>5, WorkerDiesTypes, WorkerStartsTypes
<1>6. ASSUME ApiDies \/ ApiStarts PROVE TypesInv'
  BY <1>6, ApiDiesTypes, ApiStartsTypes
<1> QED  BY <1>1, <1>2, <1>3, <1>4, <1>5, <1>6, StutterTypes DEF Next

--------------------------------------------------------------------------------
(* What everything but a request, a purge and the death of the API leaves alone. *)

Engine ==
  \/ \E d \in Dispatcher : Publish(d) \/ PublishCommit(d) \/ PublishRollback(d)
  \/ \E w \in Worker : WorkerStep(w) \/ WorkerDies(w) \/ WorkerStarts(w)
  \/ \E s \in Handler : LeaseExpires(s) \/ Reap(s)
  \/ ApiStarts
  \/ UNCHANGED vars

LEMMA NextKinds ==
  ASSUME [Next]_vars
  PROVE  \/ Engine \/ ApiDies
         \/ \E h \in Handler : Request(h) \/ Purge(h)
  BY DEF Next, Engine

LEMMA EngineFrame ==
  ASSUME TypesInv, Engine
  PROVE  /\ UNCHANGED <<setup, staged, bytes, located>>
         /\ Committed' = Committed /\ Unfinished' \subseteq Unfinished
         /\ \/ UNCHANGED handler
            \/ \E h \in Handler : handler[h].at = "publish" /\ Goes(h, "published")
<1>1. ASSUME NEW d \in Dispatcher, Publish(d) \/ PublishCommit(d) \/ PublishRollback(d)
      PROVE  /\ UNCHANGED <<setup, staged, bytes, located, scan>>
             /\ \/ UNCHANGED handler
                \/ \E h \in Handler : handler[h].at = "publish" /\ Goes(h, "published")
  <2>1. CASE Publish(d) /\ d # Thread
    <3>1. d \in Handler
      BY <2>1 DEF Dispatcher
    <3> QED  BY <2>1, <3>1 DEF Publish, store
  <2>2. CASE ~(Publish(d) /\ d # Thread)
    BY <1>1, <2>2 DEF Publish, PublishCommit, PublishRollback, intake, store
  <2> QED  BY <2>1, <2>2
<1>2. ASSUME NEW w \in Worker, WorkerStep(w), ~RunEnds(w)
      PROVE  UNCHANGED <<setup, staged, bytes, located, scan, handler>>
  BY <1>2 DEF WorkerStep, Take, Claim, ClaimLease, RecoverStale, DeadLetter, Enter, Dismiss, RunDecides,
              RunRaises, BreaksOff, Acknowledge, Fail, intake, store
<1>3. ASSUME NEW w \in Worker, RunEnds(w)
      PROVE  /\ UNCHANGED <<setup, staged, bytes, located, handler>>
             /\ Committed' = Committed /\ Unfinished' \subseteq Unfinished
  BY <1>3, RunEndsTypes DEF RunEnds, intake
<1>4. ASSUME \/ \E w \in Worker : WorkerDies(w) \/ WorkerStarts(w)
             \/ \E s \in Handler : LeaseExpires(s) \/ Reap(s)
             \/ ApiStarts \/ UNCHANGED vars
      PROVE  UNCHANGED <<setup, staged, bytes, located, scan, handler>>
  BY <1>4 DEF WorkerDies, WorkerStarts, LeaseExpires, Reap, ApiStarts, intake, store, vars
<1>5. UNCHANGED scan => Committed' = Committed /\ Unfinished' \subseteq Unfinished
  BY DEF Committed, Unfinished
<1> QED  BY <1>1, <1>2, <1>3, <1>4, <1>5 DEF Engine

(* What a step does to one request. *)

LEMMA GoesForm ==
  ASSUME TypesInv, NEW h \in Handler, NEW at, Goes(h, at)
  PROVE  /\ handler' = [handler EXCEPT ![h] = handler'[h]]
         /\ handler'[h].digest = handler[h].digest /\ handler'[h].at = at
         /\ \A g \in Handler : g # h => handler'[g] = handler[g]
<1>1. handler \in [Handler -> HandlerState] /\ handler[h] \in HandlerState
  BY DEF TypesInv, IntakeTypes
<1> QED  BY <1>1 DEF Goes, HandlerState

LEMMA AnswersForm ==
  ASSUME TypesInv, NEW h \in Handler, NEW code, NEW s, Answers(h, code, s)
  PROVE  /\ handler' = [handler EXCEPT ![h] = handler'[h]]
         /\ handler'[h] = [at |-> "done", digest |-> handler[h].digest, answer |-> code, scan |-> s]
         /\ handler'[h].at = "done" /\ handler'[h].answer = code
         /\ \A g \in Handler : g # h => handler'[g] = handler[g]
<1>1. handler \in [Handler -> HandlerState]
  BY DEF TypesInv, IntakeTypes
<1>2. /\ handler' = [handler EXCEPT ![h] = handler'[h]]
      /\ handler'[h] = [at |-> "done", digest |-> handler[h].digest, answer |-> code, scan |-> s]
      /\ \A g \in Handler : g # h => handler'[g] = handler[g]
  BY <1>1 DEF Answers
<1> QED  BY <1>2

LEMMA ReplaysForm ==
  ASSUME TypesInv, NEW h \in Handler, Committed # {}, Replays(h)
  PROVE  handler'[h].at = "done" /\ \A g \in Handler : g # h => handler'[g] = handler[g]
<1>1. handler \in [Handler -> HandlerState]
  BY DEF TypesInv, IntakeTypes
<1> QED  BY <1>1 DEF Replays, Answers

LEMMA DoneForm ==
  ASSUME TypesInv, NEW h \in Handler, Answers(h, 202, h) \/ Answers(h, 404, h) \/ Answers(h, 500, h)
  PROVE  handler'[h].at = "done" /\ \A g \in Handler : g # h => handler'[g] = handler[g]
<1>1. handler \in [Handler -> HandlerState]
  BY DEF TypesInv, IntakeTypes
<1> QED  BY <1>1 DEF Answers

LEMMA RefusesForm ==
  ASSUME TypesInv, NEW h \in Handler, Answers(h, 429, h)
  PROVE  /\ handler'[h].at = "done" /\ handler'[h].answer = 429
         /\ \A g \in Handler : g # h => handler'[g] = handler[g]
<1>1. handler \in [Handler -> HandlerState]
  BY DEF TypesInv, IntakeTypes
<1> QED  BY <1>1 DEF Answers

\* The requests that were in the API process when it died.
LEMMA DeathForm ==
  ASSUME TypesInv, ApiDies, NEW h \in Handler
  PROVE  /\ handler'[h].digest = handler[h].digest /\ handler'[h].at = "done"
         /\ handler[h].at = "done" => handler'[h] = handler[h]
         /\ handler[h].at # "done" => handler'[h].answer = 500
<1>1. handler' = [g \in Handler |-> IF handler[g].at = "done" THEN handler[g]
                                    ELSE [handler[g] EXCEPT !.at = "done", !.answer = 500]]
  BY DEF ApiDies
<1>2. handler[h] \in HandlerState
  BY DEF TypesInv, IntakeTypes
<1>3. CASE handler[h].at = "done"
  BY <1>1, <1>3
<1>4. CASE handler[h].at # "done"
  <2>1. handler'[h] = [handler[h] EXCEPT !.at = "done", !.answer = 500]
    BY <1>1, <1>4
  <2> QED  BY <1>2, <1>4, <2>1 DEF HandlerState
<1> QED  BY <1>3, <1>4

--------------------------------------------------------------------------------
(* The unique key. *)

LEMMA InitLock == Init => LockInv
  BY DEF Init, Entry, LockInv

LEMMA LockKept ==
  ASSUME LockInv, Committed' = Committed,
         \A g \in Handler : handler'[g].at = "commit" => handler[g].at = "commit"
  PROVE  LockInv'
  BY DEF LockInv

\* A step of one request that does not bring it to its commit.
LEMMA LockAside ==
  ASSUME TypesInv, LockInv, Committed' = Committed, NEW h \in Handler, handler'[h].at # "commit",
         \A g \in Handler : g # h => handler'[g] = handler[g]
  PROVE  LockInv'
  BY LockKept

LEMMA RequestKeepsLock ==
  ASSUME TypesInv, LockInv, NEW h \in Handler, Request(h)
  PROVE  LockInv'
<1>1. CASE Insert(h)
  <2>1. Committed' = Committed
    BY <1>1, InsertTypes
  <2>2. CASE Committed = {}
    <3>1. Goes(h, "commit") /\ \A g \in Handler : handler[g].at # "commit"
      BY <1>1, <2>2 DEF Insert
    <3>2. \A g \in Handler : g # h => handler'[g] = handler[g]
      BY <3>1, GoesForm
    <3> QED  BY <2>1, <2>2, <3>1, <3>2 DEF LockInv
  <2>3. CASE Committed # {}
    <3>1. Answers(h, 500, h)
      BY <1>1, <2>3 DEF Insert
    <3>2. handler'[h].at = "done" /\ \A g \in Handler : g # h => handler'[g] = handler[g]
      BY <3>1, DoneForm
    <3> QED  BY <2>1, <3>2, LockAside
  <2> QED  BY <2>2, <2>3
<1>2. CASE Commit(h) \/ CommitFails(h)
  <2>1. handler[h].at = "commit" /\ (Goes(h, "publish") \/ Goes(h, "recheck"))
    BY <1>2 DEF Commit, CommitFails
  <2>2. handler'[h].at # "commit" /\ \A g \in Handler : g # h => handler'[g] = handler[g]
    BY <2>1, GoesForm
  <2>3. \A g \in Handler : handler'[g].at # "commit"
    BY <2>1, <2>2 DEF LockInv
  <2> QED  BY <2>3 DEF LockInv
<1>3. CASE ~Insert(h) /\ ~Commit(h) /\ ~CommitFails(h)
  <2>1. Committed' = Committed
    BY <1>3, ReadGrantTypes, LookupTypes, RecheckTypes, AnsweringTypes, HandlerFailsTypes DEF Request
  <2>2. CASE \E at \in {"grant", "lookup", "insert", "published"} : Goes(h, at)
    <3>1. PICK at \in {"grant", "lookup", "insert", "published"} : Goes(h, at)
      BY <2>2
    <3>2. handler'[h].at = at /\ \A g \in Handler : g # h => handler'[g] = handler[g]
      BY <3>1, GoesForm
    <3> QED  BY <2>1, <3>2, LockAside
  <2>3. CASE \E code \in {202, 404, 429, 500} : Answers(h, code, h)
    <3>1. handler'[h].at = "done" /\ \A g \in Handler : g # h => handler'[g] = handler[g]
      BY <2>3, DoneForm, RefusesForm
    <3> QED  BY <2>1, <3>1, LockAside
  <2>4. CASE Committed # {} /\ Replays(h)
    <3>1. handler'[h].at = "done" /\ \A g \in Handler : g # h => handler'[g] = handler[g]
      BY <2>4, ReplaysForm
    <3> QED  BY <2>1, <3>1, LockAside
  <2> QED  BY <1>3, <2>2, <2>3, <2>4
           DEF Request, ReadGrant, Lookup, Recheck, NothingToPublish, Respond, HandlerFails, Retry, Entry
<1> QED  BY <1>1, <1>2, <1>3

LEMMA NextLock == TypesInv /\ LockInv /\ [Next]_vars => LockInv'
<1> SUFFICES ASSUME TypesInv, LockInv, [Next]_vars PROVE LockInv'
  OBVIOUS
<1>1. CASE Engine
  <2>1. CASE UNCHANGED handler
    BY <1>1, <2>1, EngineFrame, LockKept
  <2>2. CASE \E h \in Handler : handler[h].at = "publish" /\ Goes(h, "published")
    <3>1. PICK h \in Handler : handler[h].at = "publish" /\ Goes(h, "published")
      BY <2>2
    <3>2. handler'[h].at = "published" /\ \A g \in Handler : g # h => handler'[g] = handler[g]
      BY <3>1, GoesForm
    <3> QED  BY <1>1, <3>2, EngineFrame, LockAside
  <2> QED  BY <1>1, <2>1, <2>2, EngineFrame
<1>2. CASE ApiDies
  BY <1>2, DeathForm DEF LockInv
<1>3. ASSUME NEW h \in Handler, Purge(h) PROVE LockInv'
  <2>1. Committed' = Committed /\ UNCHANGED handler
    BY <1>3 DEF Purge, Purges, intake, Committed
  <2> QED  BY <2>1, LockKept
<1> QED  BY <1>1, <1>2, <1>3, RequestKeepsLock, NextKinds

\* The types of the deliveries, that what carries a scan names it, and that one request
\* at a time is about to bind the key (uq_scan_idempotency, _create_scan_bytes).
THEOREM DeliveryInvariant == Spec => [](TypesInv /\ LockInv)
<1>1. Init => TypesInv /\ LockInv
  BY InitTypes, InitLock
<1>2. (TypesInv /\ LockInv) /\ [Next]_vars => (TypesInv /\ LockInv)'
  BY NextTypes, NextLock
<1> QED  BY <1>1, <1>2, PTL DEF Spec

--------------------------------------------------------------------------------
(* The stage. *)

\* Of what is counted, nothing is taken back.
LEMMA SpendsOrNot ==
  ASSUME [Next]_vars
  PROVE  UNCHANGED spent \/ \E kind \in {"faults", "doubts", "crashes", "overtakes"} : Spend(kind)
<1>1. ASSUME NEW h \in Handler, Request(h) \/ LeaseExpires(h) \/ Reap(h) \/ Purge(h)
      PROVE  UNCHANGED spent \/ Spend("faults") \/ Spend("doubts") \/ Spend("crashes")
  BY <1>1 DEF Request, ReadGrant, Lookup, Insert, Commit, CommitFails, Recheck, NothingToPublish, Respond,
              HandlerFails, Retry, LeaseExpires, Reap, Purge, Purges
<1>2. ASSUME NEW d \in Dispatcher, Publish(d) \/ PublishCommit(d) \/ PublishRollback(d)
      PROVE  UNCHANGED spent \/ Spend("faults")
  BY <1>2 DEF Publish, PublishCommit, PublishRollback
<1>3. ASSUME NEW w \in Worker, WorkerStep(w)
      PROVE  UNCHANGED spent \/ Spend("faults") \/ Spend("overtakes")
  BY <1>3 DEF WorkerStep, Take, Claim, ClaimLease, RecoverStale, DeadLetter, Enter, Dismiss, RunDecides,
              RunEnds, RunRaises, BreaksOff, Acknowledge, Fail, TimedOut
<1>4. ASSUME \/ \E w \in Worker : WorkerDies(w) \/ WorkerStarts(w)
             \/ ApiDies \/ ApiStarts \/ UNCHANGED vars
      PROVE  UNCHANGED spent \/ Spend("crashes")
  BY <1>4 DEF WorkerDies, WorkerStarts, ApiDies, ApiStarts, vars
<1> QED  BY <1>1, <1>2, <1>3, <1>4 DEF Next

LEMMA TroubleStays ==
  ASSUME TypesInv, [Next]_vars, spent.crashes + spent.faults > 0
  PROVE  spent'.crashes + spent'.faults > 0
<1>1. spent \in [faults : Nat, doubts : Nat, crashes : Nat, overtakes : Nat]
  BY DEF TypesInv, IntakeTypes
<1>2. ASSUME NEW kind \in {"faults", "doubts", "crashes", "overtakes"}, Spend(kind)
      PROVE  spent'.crashes + spent'.faults > 0
  BY <1>1, <1>2 DEF Spend
<1> QED  BY <1>2, SpendsOrNot

LEMMA Troubles ==
  ASSUME TypesInv, Spend("crashes") \/ Spend("faults")
  PROVE  spent'.crashes + spent'.faults > 0
<1>1. spent \in [faults : Nat, doubts : Nat, crashes : Nat, overtakes : Nat]
  BY DEF TypesInv, IntakeTypes
<1> QED  BY <1>1 DEF Spend

\* What has ended stays so.
LEMMA EndedStays ==
  ASSUME TypesInv, LockInv, [Next]_vars, NEW s \in Handler, scan[s] \in Ended
  PROVE  scan'[s] \in Ended
<1>1. CASE Engine
  <2>1. s \in Committed /\ s \notin Unfinished
    BY DEF Committed, Unfinished, Ended
  <2>2. s \in Committed' /\ s \notin Unfinished'
    BY <1>1, <2>1, EngineFrame
  <2>3. scan'[s] \in {"NONE", "QUEUED", "COMPLETED", "FAILED"}
    BY NextTypes DEF TypesInv, StoreTypes
  <2> QED  BY <2>2, <2>3 DEF Committed, Unfinished, Ended
<1>2. ASSUME NEW h \in Handler, Commit(h) \/ CommitFails(h) PROVE scan'[s] \in Ended
  <2>1. Committed = {}
    BY <1>2 DEF Commit, CommitFails, LockInv
  <2> QED  BY <2>1 DEF Committed, Ended
<1>3. ASSUME NEW h \in Handler, Request(h) \/ Purge(h), ~Commit(h), ~CommitFails(h) PROVE UNCHANGED scan
  BY <1>3 DEF Request, ReadGrant, Lookup, Insert, Recheck, NothingToPublish, Respond, HandlerFails, Retry,
              Purge, Purges, store
<1>4. ApiDies => UNCHANGED scan
  BY DEF ApiDies, store
<1> QED  BY <1>1, <1>2, <1>3, <1>4, NextKinds

\* The steps that change a stage.
LEMMA StageFrame ==
  ASSUME [Next]_vars
  PROVE  \/ UNCHANGED stage
         \/ \E w \in Worker : Enter(w) \/ RunDecides(w) \/ RunRaises(w)
         \/ \E s \in Handler : Reap(s)
<1>1. ASSUME NEW h \in Handler, Request(h) \/ LeaseExpires(h) \/ Purge(h) PROVE UNCHANGED stage
  BY <1>1 DEF Request, ReadGrant, Lookup, Insert, Commit, CommitFails, Recheck, NothingToPublish, Respond,
              HandlerFails, Retry, LeaseExpires, Purge, Purges, broker
<1>2. ASSUME NEW d \in Dispatcher, Publish(d) \/ PublishCommit(d) \/ PublishRollback(d) PROVE UNCHANGED stage
  BY <1>2 DEF Publish, PublishCommit, PublishRollback, broker
<1>3. ASSUME NEW w \in Worker, WorkerStep(w), ~Enter(w), ~RunDecides(w), ~RunRaises(w) PROVE UNCHANGED stage
  BY <1>3 DEF WorkerStep, Take, Claim, ClaimLease, RecoverStale, DeadLetter, Dismiss, RunEnds, BreaksOff,
              Acknowledge, Fail
<1>4. ASSUME \/ \E w \in Worker : WorkerDies(w) \/ WorkerStarts(w)
             \/ ApiDies \/ ApiStarts \/ UNCHANGED vars
      PROVE  UNCHANGED stage
  BY <1>4 DEF WorkerDies, WorkerStarts, ApiDies, ApiStarts, vars, broker
<1> QED  BY <1>1, <1>2, <1>3, <1>4 DEF Next

\* Messages stay messages of their scan, and only their own steps take the workers in
\* a run, or about to end one, out of it or into it.
Steady ==
  /\ \A i \in DOMAIN msg : msg'[i].scan = msg[i].scan
  /\ \A v \in Worker :
       worker[v].at \in {"run", "close"} \/ worker'[v].at \in {"run", "close"} => worker'[v] = worker[v]

LEMMA MovesAside ==
  ASSUME TypesInv, NEW w \in Worker,
         Take(w) \/ Claim(w) \/ ClaimLease(w) \/ RecoverStale(w) \/ DeadLetter(w) \/ Dismiss(w)
           \/ Acknowledge(w) \/ Fail(w)
  PROVE  UNCHANGED <<scan, handler, lease, stage>> /\ Steady
<1>1. UNCHANGED <<scan, handler, lease, stage>>
  BY DEF Take, Claim, ClaimLease, RecoverStale, DeadLetter, Dismiss, Acknowledge, Fail, store, intake
<1>2. MessageTypes /\ worker \in [Worker -> [at : Busy \cup {"loop", "down"}, hand : Seq(Nat)]]
        /\ msg \in Seq(Entries)
  BY DEF TypesInv, WorkerTypes, MessageTypes
<1>3. worker[w].at \notin {"run", "close"}
  BY DEF Take, Claim, ClaimLease, RecoverStale, DeadLetter, Dismiss, Starts, Acknowledge, Fail
<1>4. \A i \in DOMAIN msg : msg'[i].scan = msg[i].scan
  <2>1. CASE Take(w)
    BY <2>1, TakeTypes
  <2>2. CASE Claim(w) \/ ClaimLease(w) \/ DeadLetter(w)
    <3>1. PICK i \in DOMAIN msg : msg' = [msg EXCEPT ![i] = msg'[i]] /\ msg'[i].scan = msg[i].scan
      BY <2>2, ClaimTypes, ClaimLeaseTypes, DeadLetterTypes
    <3> QED  BY <1>2, <3>1
  <2>3. CASE RecoverStale(w) \/ Dismiss(w) \/ Acknowledge(w) \/ Fail(w)
    <3>1. Extends
      BY <1>2, <2>3, RecoverStaleTypes, DismissTypes, AcknowledgeTypes, FailTypes, ReplacedExtends, Same
    <3> QED  BY <3>1 DEF Extends
  <2> QED  BY <2>1, <2>2, <2>3
<1>5. worker' = [worker EXCEPT ![w] = worker'[w]] /\ worker'[w].at \notin {"run", "close"}
  <2>1. CASE Claim(w)
    <3>1. PICK i : worker' = [worker EXCEPT ![w] = [at |-> "claimed", hand |-> <<i>>]]
      BY <2>1, ClaimTypes
    <3> DEFINE new == [at |-> "claimed", hand |-> <<i>>]
    <3>2. worker' = [worker EXCEPT ![w] = new] /\ new.at = "claimed"
      BY <3>1
    <3> HIDE DEF new
    <3>3. worker'[w] = new
      BY <1>2, <3>2
    <3> QED  BY <3>2, <3>3
  <2>2. CASE RecoverStale(w)
    <3>1. UNCHANGED worker
      BY <2>2, RecoverStaleTypes
    <3> QED  BY <1>2, <1>3, <3>1
  <2>3. CASE Take(w) \/ ClaimLease(w) \/ DeadLetter(w) \/ Dismiss(w) \/ Acknowledge(w) \/ Fail(w)
    BY <2>3, TakeTypes, ClaimLeaseTypes, DeadLetterTypes, DismissTypes, AcknowledgeTypes, FailTypes
  <2> QED  BY <2>1, <2>2, <2>3
<1>6. \A v \in Worker : v # w => worker'[v] = worker[v]
  BY <1>2, <1>5
<1> QED  BY <1>1, <1>3, <1>4, <1>5, <1>6 DEF Steady

\* Nor does a step of anything else, but for the death of a worker.
LEMMA OthersAside ==
  ASSUME TypesInv, [Next]_vars, ~\E w \in Worker : WorkerStep(w) \/ WorkerDies(w)
  PROVE  Steady
<1>1. CASE UNCHANGED <<msg, worker>>
  BY <1>1 DEF Steady
<1>2. ASSUME NEW d \in Dispatcher, Publish(d) PROVE Steady
  <2>1. Extends /\ UNCHANGED worker
    BY <1>2, PublishTypes DEF Publish
  <2> QED  BY <2>1 DEF Steady, Extends
<1>3. ASSUME NEW w \in Worker, WorkerStarts(w) PROVE Steady
  <2>1. UNCHANGED msg /\ worker' = [worker EXCEPT ![w] = AtLoop] /\ worker[w].at = "down"
    BY <1>3 DEF WorkerStarts
  <2>2. worker'[w].at = "loop" /\ \A v \in Worker : v # w => worker'[v] = worker[v]
    BY <2>1 DEF TypesInv, WorkerTypes, AtLoop
  <2> QED  BY <2>1, <2>2 DEF Steady
<1>4. ASSUME NEW h \in Handler, Request(h) \/ LeaseExpires(h) \/ Reap(h) \/ Purge(h)
      PROVE  UNCHANGED <<msg, worker>>
  BY <1>4 DEF Request, ReadGrant, Lookup, Insert, Commit, CommitFails, Recheck, NothingToPublish, Respond,
              HandlerFails, Retry, LeaseExpires, Reap, Purge, Purges, broker
<1>5. ASSUME (\E d \in Dispatcher : PublishCommit(d) \/ PublishRollback(d)) \/ ApiDies \/ ApiStarts \/ UNCHANGED vars
      PROVE  UNCHANGED <<msg, worker>>
  BY <1>5 DEF PublishCommit, PublishRollback, ApiDies, ApiStarts, vars, broker
<1> QED  BY <1>1, <1>2, <1>3, <1>4, <1>5 DEF Next

\* Who has it to end a scan goes on to, unless something goes wrong.
LEMMA ClosingStays ==
  ASSUME TypesInv, [Next]_vars, NEW s \in Handler, Closing(s)
  PROVE  scan'[s] \in Ended \/ spent'.crashes + spent'.faults > 0 \/ Closing(s)'
<1>1. PICK w \in Worker : worker[w].at = "close" /\ Work(w) = s
  BY DEF Closing
<1>2. worker[w].at \in Busy /\ Head(worker[w].hand) \in DOMAIN msg
  BY <1>1, HandOf DEF TypesInv, Busy
<1>3. ASSUME \A i \in DOMAIN msg : msg'[i].scan = msg[i].scan, worker'[w] = worker[w] PROVE Closing(s)'
  BY <1>1, <1>2, <1>3 DEF Closing, Work
<1>4. CASE Steady
  BY <1>1, <1>3, <1>4 DEF Steady
<1>5. ASSUME NEW v \in Worker, Enter(v) \/ RunDecides(v) \/ RunRaises(v) \/ BreaksOff(v)
      PROVE  spent'.crashes + spent'.faults > 0 \/ Closing(s)'
  <2>1. CASE v = w
    <3>1. Spend("faults")
      BY <1>1, <1>5, <2>1 DEF Enter, Starts, RunDecides, RunRaises, BreaksOff
    <3> QED  BY <3>1, Troubles
  <2>2. CASE v # w
    <3>1. worker' = [worker EXCEPT ![v] = worker'[v]] /\ UNCHANGED msg
      BY <1>5, RunTypes
    <3>2. worker'[w] = worker[w]
      BY <2>2, <3>1 DEF TypesInv, WorkerTypes
    <3> QED  BY <1>3, <3>1, <3>2
  <2> QED  BY <2>1, <2>2
<1>6. ASSUME NEW v \in Worker, RunEnds(v) PROVE scan'[s] \in Ended \/ Closing(s)'
  <2>1. CASE v = w
    BY <1>1, <1>6, <2>1, RunEndsTypes
  <2>2. CASE v # w
    <3>1. worker' = [worker EXCEPT ![v] = [at |-> "ack", hand |-> worker[v].hand]] /\ UNCHANGED msg
      BY <1>6, RunEndsTypes
    <3>2. worker'[w] = worker[w]
      BY <2>2, <3>1 DEF TypesInv, WorkerTypes
    <3> QED  BY <1>3, <3>1, <3>2
  <2> QED  BY <2>1, <2>2
<1>7. ASSUME NEW v \in Worker, WorkerDies(v) PROVE spent'.crashes + spent'.faults > 0
  BY <1>7, Troubles DEF WorkerDies
<1> QED  BY <1>4, <1>5, <1>6, <1>7, MovesAside, OthersAside DEF WorkerStep

LEMMA InitStage == Init => StageInv
  BY DEF Init, StageInv

LEMMA NextStage == TypesInv /\ LockInv /\ StageInv /\ [Next]_vars => StageInv'
<1> SUFFICES ASSUME TypesInv, LockInv, StageInv, [Next]_vars PROVE StageInv'
  OBVIOUS
<1> DEFINE Excused(s) == scan[s] \in Ended \/ spent.crashes + spent.faults > 0 \/ Closing(s)
<1>1. ASSUME NEW s \in Handler, Excused(s) PROVE Excused(s)'
  BY <1>1, EndedStays, TroubleStays, ClosingStays
<1>2. /\ stage \in [Handler -> [state : {"OPEN", "DECIDED", "EXHAUSTED"}, runs : Nat]]
      /\ \A s \in Handler : stage[s].state = "EXHAUSTED" => stage[s].runs >= MaxRuns
      /\ \A s \in Handler : stage[s].state = "DECIDED" => Excused(s)
  BY DEF StageInv
<1>3. ASSUME NEW s \in Handler, NEW new \in [state : {"OPEN", "DECIDED", "EXHAUSTED"}, runs : Nat],
             stage' = [stage EXCEPT ![s] = new], new.state = "EXHAUSTED" => new.runs >= MaxRuns,
             new.state = "DECIDED" => Excused(s)'
      PROVE  StageInv'
  <2> HIDE DEF Excused
  <2>1. stage' \in [Handler -> [state : {"OPEN", "DECIDED", "EXHAUSTED"}, runs : Nat]]
          /\ \A t \in Handler : stage'[t] = IF t = s THEN new ELSE stage[t]
    BY <1>2, <1>3
  <2>2. \A t \in Handler : stage'[t].state = "EXHAUSTED" => stage'[t].runs >= MaxRuns
    BY <1>2, <1>3, <2>1
  <2>3. \A t \in Handler : stage'[t].state = "DECIDED" => Excused(t)'
    BY <1>1, <1>2, <1>3, <2>1
  <2> QED  BY <2>1, <2>2, <2>3 DEF StageInv, Excused
<1>4. CASE UNCHANGED stage
  <2> HIDE DEF Excused
  <2>1. \A t \in Handler : stage'[t].state = "DECIDED" => Excused(t)'
    BY <1>1, <1>2, <1>4
  <2> QED  BY <1>2, <1>4, <2>1 DEF StageInv, Excused
<1>5. ASSUME NEW w \in Worker, Enter(w) \/ RunDecides(w) \/ RunRaises(w) PROVE StageInv'
  <2>1. worker[w].at \in Busy
    BY <1>5 DEF Enter, Starts, RunDecides, RunRaises, Busy
  <2>2. PICK s \in Handler : s = Work(w)
    BY <2>1, HandOf DEF TypesInv
  <2>3. stage[s] \in [state : {"OPEN", "DECIDED", "EXHAUSTED"}, runs : Nat] /\ MaxRuns \in Nat
    BY <1>2, DeliveryAssumption
  <2>4. CASE Enter(w)
    <3>1. stage' = [stage EXCEPT ![s] = [stage[s] EXCEPT !.runs = @ + 1]] /\ stage[s].state = "OPEN"
      BY <2>2, <2>4 DEF Enter, Claimable
    <3>2. [stage[s] EXCEPT !.runs = @ + 1] \in [state : {"OPEN", "DECIDED", "EXHAUSTED"}, runs : Nat]
            /\ [stage[s] EXCEPT !.runs = @ + 1].state = "OPEN"
      BY <2>3, <3>1
    <3> HIDE DEF Excused
    <3> QED  BY <1>3, <3>1, <3>2
  <2>5. ASSUME NEW state \in {"OPEN", "DECIDED", "EXHAUSTED"}, Leaves(s, state),
               state = "EXHAUSTED" => stage[s].runs >= MaxRuns, state = "DECIDED" => Excused(s)'
        PROVE  StageInv'
    <3> DEFINE new == [stage[s] EXCEPT !.state = state]
    <3>1. stage' = [stage EXCEPT ![s] = new]
      BY <2>5 DEF Leaves
    <3>2. new \in [state : {"OPEN", "DECIDED", "EXHAUSTED"}, runs : Nat]
            /\ new.state = state /\ new.runs = stage[s].runs
      BY <2>3
    <3> HIDE DEF new, Excused
    <3>3. new.state = "EXHAUSTED" => new.runs >= MaxRuns
      BY <2>5, <3>2
    <3>4. new.state = "DECIDED" => Excused(s)'
      BY <2>5, <3>2
    <3> QED  BY <1>3, <3>1, <3>2, <3>3, <3>4
  <2>6. CASE RunDecides(w)
    <3>1. worker'[w].at = "close" /\ worker'[w].hand = worker[w].hand /\ UNCHANGED msg
      BY <2>6, RunTypes DEF RunDecides, Enter, Starts
    <3>2. Closing(s)'
      BY <2>2, <3>1 DEF Closing, Work
    <3> QED  BY <2>2, <2>5, <2>6, <3>2 DEF RunDecides
  <2>7. CASE RunRaises(w)
    <3>1. CASE stage[s].runs < MaxRuns
      BY <1>4, <2>2, <2>5, <2>7, <3>1 DEF RunRaises
    <3>2. CASE ~(stage[s].runs < MaxRuns)
      <4>1. stage[s].runs >= MaxRuns
        BY <2>3, <3>2
      <4> QED  BY <1>4, <2>2, <2>5, <2>7, <3>2, <4>1 DEF RunRaises
    <3> QED  BY <3>1, <3>2
  <2> QED  BY <1>5, <2>4, <2>6, <2>7
<1>6. ASSUME NEW s \in Handler, Reap(s) PROVE StageInv'
  <2>1. stage' = [stage EXCEPT ![s] = [stage[s] EXCEPT !.state = "EXHAUSTED"]] /\ stage[s].runs >= MaxRuns
    BY <1>6 DEF Reap
  <2>2. [stage[s] EXCEPT !.state = "EXHAUSTED"] \in [state : {"OPEN", "DECIDED", "EXHAUSTED"}, runs : Nat]
          /\ [stage[s] EXCEPT !.state = "EXHAUSTED"].state = "EXHAUSTED"
          /\ [stage[s] EXCEPT !.state = "EXHAUSTED"].runs = stage[s].runs
    BY <1>2
  <2> HIDE DEF Excused
  <2> QED  BY <1>3, <2>1, <2>2
<1> QED  BY <1>4, <1>5, <1>6, StageFrame

\* Type correctness.
THEOREM DeliveryTypeCorrect == Spec => []DeliveryTypeOK
<1>1. TypesInv /\ StageInv => DeliveryTypeOK
  <2> SUFFICES ASSUME TypesInv, StageInv PROVE DeliveryTypeOK
    OBVIOUS
  <2>1. setup \in Setups /\ staged \in BOOLEAN /\ up \in BOOLEAN
    BY DEF TypesInv, IntakeTypes
  <2>2. ASSUME NEW h \in Handler
        PROVE  /\ handler[h].at \in {"grant", "lookup", "insert", "commit", "recheck", "publish", "published", "done"}
               /\ handler[h].answer \in {0, 202, 404, 409, 429, 500}
               /\ scan[h] \in {"NONE", "QUEUED"} \cup Ended
               /\ lease[h] \in Worker \cup {Nobody, Orphan}
               /\ stage[h].state \in {"OPEN", "DECIDED", "EXHAUSTED"} /\ stage[h].runs \in Nat
    <3>1. handler[h] \in HandlerState
      BY DEF TypesInv, IntakeTypes
    <3>2. stage[h] \in [state : {"OPEN", "DECIDED", "EXHAUSTED"}, runs : Nat]
      BY DEF StageInv
    <3> QED  BY <3>1, <3>2 DEF TypesInv, StoreTypes, WorkerTypes, Ended, HandlerState, Inside
  <2>3. bytes \subseteq Handler /\ located \subseteq Committed /\ turned \subseteq Committed
    BY DEF TypesInv, StoreTypes, WorkerTypes
  <2>4. ASSUME NEW i \in DOMAIN outbox
        PROVE  /\ outbox[i].attempts \in 0 .. MaxPublishes
               /\ outbox[i].state \in {"PUBLISHED", "FAILED"} \cup
                                       {st \in {"PENDING"} : outbox[i].attempts < MaxPublishes}
    <3>1. outbox[i] \in OutboxRow /\ outbox[i].attempts <= MaxPublishes
            /\ (outbox[i].state = "PENDING" => outbox[i].attempts < MaxPublishes)
      BY DueType DEF TypesInv, OutboxTypes
    <3>2. MaxPublishes \in Nat
      BY DeliveryAssumption
    <3>3. outbox[i].attempts \in Nat /\ outbox[i].state \in {"PENDING", "PUBLISHED", "FAILED"}
      BY <3>1 DEF OutboxRow
    <3> QED  BY <3>1, <3>2, <3>3
  <2>5. \A i \in DOMAIN msg : msg[i].place \in {"waiting", "taken", "leased", "pending", "dead", "gone"}
    <3>1. \A i \in DOMAIN msg : msg[i] \in Entries
      BY DEF TypesInv, MessageTypes
    <3> QED  BY <3>1 DEF Entries, Place
  <2>6. \A w \in Worker : worker[w].at \in {"loop", "claimed", "handle", "run", "close", "ack", "raise", "down"}
    BY DEF TypesInv, WorkerTypes, Busy
  <2> QED  BY <2>1, <2>2, <2>3, <2>4, <2>5, <2>6 DEF DeliveryTypeOK
<1>2. Init => StageInv
  BY InitStage
<1>3. TypesInv /\ LockInv /\ StageInv /\ [Next]_vars => StageInv'
  BY NextStage
<1> QED  BY <1>1, <1>2, <1>3, DeliveryInvariant, PTL DEF Spec

--------------------------------------------------------------------------------
(* The holder: who runs holds an open stage, so no scan ends twice. *)

LEMMA InitHold == Init => HoldInv
  BY DEF Init, HoldInv, AtLoop

\* Who goes on running or closing keeps its message, its stage and its scan.
LEMMA HoldKept ==
  ASSUME TypesInv, HoldInv, \A i \in DOMAIN msg : msg'[i].scan = msg[i].scan,
         \A v \in Worker : worker'[v].at \in {"run", "close"} => worker'[v] = worker[v],
         \A v \in Worker : worker'[v].at = "run" => lease'[Work(v)] = lease[Work(v)],
         \A v \in Worker :
           worker'[v].at \in {"run", "close"} =>
             stage'[Work(v)].state = stage[Work(v)].state /\ scan'[Work(v)] = "QUEUED"
  PROVE  HoldInv'
<1>1. ASSUME NEW v \in Worker, worker'[v].at \in {"run", "close"} PROVE Work(v)' = Work(v)
  <2>1. worker'[v] = worker[v]
    BY <1>1
  <2>2. Head(worker[v].hand) \in DOMAIN msg
    BY <1>1, <2>1, HandOf DEF TypesInv, Busy
  <2> QED  BY <2>1, <2>2 DEF Work
<1>2. ASSUME NEW v \in Worker, worker'[v].at = "run"
      PROVE  lease'[Work(v)'] = v /\ scan'[Work(v)'] = "QUEUED" /\ stage'[Work(v)'].state = "OPEN"
  BY <1>1, <1>2 DEF HoldInv
<1>3. ASSUME NEW v \in Worker, worker'[v].at = "close"
      PROVE  /\ scan'[Work(v)'] = "QUEUED" /\ stage'[Work(v)'].state = "DECIDED"
             /\ \A u \in Worker : worker'[u].at = "close" /\ Work(u)' = Work(v)' => u = v
  <2>1. worker[v].at = "close" /\ Work(v)' = Work(v)
    BY <1>1, <1>3
  <2>2. ASSUME NEW u \in Worker, worker'[u].at = "close", Work(u)' = Work(v)' PROVE u = v
    <3>1. worker[u].at = "close" /\ Work(u)' = Work(u)
      BY <1>1, <2>2
    <3>2. Work(u) = Work(v)
      BY <2>1, <2>2, <3>1
    <3>3. worker[v].at = "close"
      BY <2>1
    <3> QED  BY <3>1, <3>2, <3>3 DEF HoldInv
  <2> QED  BY <1>3, <2>1, <2>2 DEF HoldInv
<1> QED  BY <1>2, <1>3 DEF HoldInv

\* No two workers at a stage, one of them running.
LEMMA Apart ==
  ASSUME TypesInv, HoldInv, NEW v \in Worker, NEW w \in Worker, v # w,
         worker[v].at \in {"run", "close"},
         \/ worker[w].at \in {"run", "close"}
         \/ Claimable(Work(w)) /\ worker[v].at # "down"
  PROVE  Work(v) # Work(w)
<1>1. Nobody \notin Worker
  BY DeliveryAssumption
<1> QED  BY <1>1 DEF HoldInv, Claimable

\* A worker enters an open stage nobody holds, and decides, leaves or ends only its own.
LEMMA EnterKeepsHold ==
  ASSUME TypesInv, StageInv, HoldInv, NEW w \in Worker, Enter(w) \/ RunDecides(w)
  PROVE  HoldInv'
<1> DEFINE s == Work(w)
<1>1. worker[w].at \in Busy /\ worker[w].at # "close"
  BY DEF Enter, Starts, RunDecides, Busy
<1>2. s \in Handler /\ lease \in [Handler -> Worker \cup {Nobody, Orphan}]
        /\ worker \in [Worker -> [at : Busy \cup {"loop", "down"}, hand : Seq(Nat)]]
        /\ stage \in [Handler -> [state : {"OPEN", "DECIDED", "EXHAUSTED"}, runs : Nat]]
  BY <1>1, HandOf DEF TypesInv, WorkerTypes, StageInv
<1>3. /\ UNCHANGED <<scan, msg>> /\ worker' = [worker EXCEPT ![w] = worker'[w]]
      /\ worker'[w].hand = worker[w].hand
      /\ worker'[w].at = IF Enter(w) THEN "run" ELSE "close"
  BY RunTypes
<1>4. \A v \in Worker : v # w => worker'[v] = worker[v]
  BY <1>2, <1>3
<1>5. \A v \in Worker : Work(v)' = Work(v)
  BY <1>3, <1>4 DEF Work
<1>6. scan[s] = "QUEUED"
        /\ IF Enter(w) THEN lease'[s] = w /\ stage'[s].state = "OPEN" ELSE stage'[s].state = "DECIDED"
  BY <1>2 DEF Enter, Claimable, RunDecides, Leaves, HoldInv, Starts
<1>7. \A t \in Handler : t # s => lease'[t] = lease[t] /\ stage'[t] = stage[t]
  BY <1>2 DEF Enter, RunDecides, Leaves
<1>8. ASSUME NEW v \in Worker, v # w, worker[v].at \in {"run", "close"} PROVE Work(v) # s /\ Work(v) \in Handler
  <2>1. worker[w].at = "run" \/ Claimable(s)
    BY DEF Enter, RunDecides
  <2>2. worker[v].at \in Busy
    BY <1>8 DEF Busy
  <2> QED  BY <1>8, <2>1, <2>2, Apart, HandOf DEF TypesInv
<1> HIDE DEF s
<1>9. ASSUME NEW v \in Worker, worker'[v].at = "run"
      PROVE  lease'[Work(v)'] = v /\ scan'[Work(v)'] = "QUEUED" /\ stage'[Work(v)'].state = "OPEN"
  <2>1. CASE v = w
    <3>1. Enter(w) /\ Work(v) = s
      BY <1>3, <1>9, <2>1 DEF s
    <3> QED  BY <1>3, <1>5, <1>6, <2>1, <3>1
  <2>2. CASE v # w
    <3>1. worker[v].at = "run" /\ Work(v) # s /\ Work(v) \in Handler
      BY <1>4, <1>8, <1>9, <2>2
    <3> QED  BY <1>3, <1>5, <1>7, <3>1 DEF HoldInv
  <2> QED  BY <2>1, <2>2
<1>10. ASSUME NEW v \in Worker, worker'[v].at = "close"
       PROVE  /\ scan'[Work(v)'] = "QUEUED" /\ stage'[Work(v)'].state = "DECIDED"
              /\ \A u \in Worker : worker'[u].at = "close" /\ Work(u)' = Work(v)' => u = v
  <2>1. ASSUME NEW u \in Worker, u # w, worker'[u].at = "close"
        PROVE  worker[u].at = "close" /\ Work(u) # s /\ Work(u) \in Handler
    BY <1>4, <1>8, <2>1
  <2>2. CASE v = w
    <3>1. ~Enter(w) /\ Work(v) = s
      BY <1>3, <1>10, <2>2 DEF s
    <3> QED  BY <1>3, <1>5, <1>6, <2>1, <2>2, <3>1
  <2>3. CASE v # w
    <3>1. worker[v].at = "close" /\ Work(v) # s /\ Work(v) \in Handler
      BY <1>10, <2>1, <2>3
    <3>2. ASSUME NEW u \in Worker, worker'[u].at = "close", Work(u)' = Work(v)' PROVE u = v
      <4>1. u # w
        BY <1>5, <3>1, <3>2 DEF s
      <4> QED  BY <1>5, <2>1, <3>1, <3>2, <4>1 DEF HoldInv
    <3> QED  BY <1>3, <1>5, <1>7, <3>1, <3>2 DEF HoldInv
  <2> QED  BY <2>2, <2>3
<1> QED  BY <1>9, <1>10 DEF HoldInv

LEMMA LeaveKeepsHold ==
  ASSUME TypesInv, StageInv, HoldInv, NEW w \in Worker, RunEnds(w) \/ RunRaises(w) \/ BreaksOff(w)
  PROVE  HoldInv'
<1> DEFINE s == Work(w)
<1>1. worker[w].at \in Busy
  BY DEF RunEnds, RunRaises, BreaksOff, Starts, Busy
<1>2. s \in Handler /\ lease \in [Handler -> Worker \cup {Nobody, Orphan}]
        /\ worker \in [Worker -> [at : Busy \cup {"loop", "down"}, hand : Seq(Nat)]]
        /\ stage \in [Handler -> [state : {"OPEN", "DECIDED", "EXHAUSTED"}, runs : Nat]]
        /\ scan \in [Handler -> {"NONE", "QUEUED", "COMPLETED", "FAILED"}]
  BY <1>1, HandOf DEF TypesInv, WorkerTypes, StageInv, StoreTypes
<1>3. UNCHANGED msg /\ worker' = [worker EXCEPT ![w] = worker'[w]] /\ worker'[w].at \notin {"run", "close"}
  <2>1. CASE RunEnds(w)
    <3>1. UNCHANGED msg /\ worker' = [worker EXCEPT ![w] = [at |-> "ack", hand |-> worker[w].hand]]
      BY <2>1, RunEndsTypes
    <3> DEFINE new == [at |-> "ack", hand |-> worker[w].hand]
    <3>2. worker' = [worker EXCEPT ![w] = new] /\ new.at = "ack"
      BY <3>1
    <3> HIDE DEF new
    <3>3. worker'[w] = new
      BY <1>2, <3>2
    <3> QED  BY <3>1, <3>2, <3>3
  <2>2. CASE RunRaises(w) \/ BreaksOff(w)
    <3>1. spent' # spent
      <4>1. spent \in [faults : Nat, doubts : Nat, crashes : Nat, overtakes : Nat]
        BY DEF TypesInv, IntakeTypes
      <4>2. spent' = [spent EXCEPT !["faults"] = spent["faults"] + 1]
        BY <2>2 DEF RunRaises, BreaksOff, Spend
      <4>3. spent'.faults = spent.faults + 1
        BY <4>1, <4>2
      <4> QED  BY <4>1, <4>3
    <3>2. ~RunDecides(w) /\ ~Enter(w)
      BY <3>1 DEF RunDecides, Enter
    <3>3. UNCHANGED msg /\ worker' = [worker EXCEPT ![w] = worker'[w]] /\ worker'[w].at = "raise"
      BY <2>2, <3>2, RunTypes
    <3> QED  BY <3>3
  <2> QED  BY <2>1, <2>2
<1>4. ASSUME NEW v \in Worker, worker'[v].at \in {"run", "close"}
      PROVE  v # w /\ worker'[v] = worker[v] /\ worker[v].at \in {"run", "close"} /\ Work(v) \in Handler
  <2>1. v # w /\ worker'[v] = worker[v]
    BY <1>2, <1>3, <1>4
  <2> QED  BY <1>4, <2>1, HandOf DEF TypesInv, Busy
<1>5. ASSUME NEW v \in Worker, worker'[v].at \in {"run", "close"}
      PROVE  lease'[Work(v)] = lease[Work(v)] /\ stage'[Work(v)].state = stage[Work(v)].state
               /\ scan'[Work(v)] = "QUEUED"
  <2>1. scan[Work(v)] = "QUEUED"
    BY <1>4, <1>5 DEF HoldInv
  <2>2. CASE worker[w].at \in {"run", "close"}
    <3>1. Work(v) # s /\ Work(v) \in Handler
      BY <1>4, <1>5, <2>2, Apart
    <3>2. \A t \in Handler : t # s => lease'[t] = lease[t] /\ stage'[t] = stage[t] /\ scan'[t] = scan[t]
      BY <1>2 DEF RunEnds, RunRaises, BreaksOff, Leaves, store
    <3> HIDE DEF s
    <3> QED  BY <2>1, <3>1, <3>2
  <2>3. CASE worker[w].at \notin {"run", "close"}
    BY <2>1, <2>3 DEF RunEnds, RunRaises, BreaksOff, store
  <2> QED  BY <2>2, <2>3
<1> QED  BY <1>3, <1>4, <1>5, HoldKept

\* Everything else leaves the stages of those workers, their leases and their scans alone.
LEMMA AsideKeepsHold ==
  ASSUME TypesInv, HoldInv, Steady, UNCHANGED stage,
         \A s \in Handler : scan[s] = "QUEUED" => scan'[s] = "QUEUED",
         \A s \in Handler : lease[s] \in Worker => lease'[s] = lease[s]
  PROVE  HoldInv'
<1>1. ASSUME NEW v \in Worker, worker'[v].at \in {"run", "close"}
      PROVE  worker'[v] = worker[v] /\ Work(v) \in Handler
  <2>1. worker'[v] = worker[v]
    BY <1>1 DEF Steady
  <2> QED  BY <1>1, <2>1, HandOf DEF TypesInv, Busy
<1>2. \A i \in DOMAIN msg : msg'[i].scan = msg[i].scan
  BY DEF Steady
<1>3. ASSUME NEW v \in Worker, worker'[v].at = "run" PROVE lease'[Work(v)] = lease[Work(v)]
  BY <1>1, <1>3 DEF HoldInv
<1>4. ASSUME NEW v \in Worker, worker'[v].at \in {"run", "close"} PROVE scan'[Work(v)] = "QUEUED"
  BY <1>1, <1>4 DEF HoldInv
<1> QED  BY <1>1, <1>2, <1>3, <1>4, HoldKept

LEMMA OtherKeepsHold ==
  ASSUME TypesInv, HoldInv, [Next]_vars, ~\E w \in Worker : WorkerStep(w)
  PROVE  HoldInv'
<1>1. ASSUME NEW h \in Handler, Request(h) \/ Purge(h) PROVE HoldInv'
  <2>1. UNCHANGED broker /\ (UNCHANGED scan \/ Inserts(h))
    BY <1>1 DEF Request, ReadGrant, Lookup, Insert, Commit, CommitFails, Recheck, NothingToPublish, Respond,
                HandlerFails, Retry, Purge, Purges, store
  <2>2. \A s \in Handler : scan[s] = "QUEUED" => scan'[s] = "QUEUED"
    BY <2>1 DEF Inserts, TypesInv, StoreTypes
  <2> QED  BY <2>1, <2>2, AsideKeepsHold DEF broker, Steady
<1>2. ASSUME NEW d \in Dispatcher, Publish(d) PROVE HoldInv'
  <2>1. Extends /\ UNCHANGED <<scan, worker, lease, stage>>
    BY <1>2, PublishTypes DEF Publish, store
  <2> QED  BY <2>1, AsideKeepsHold DEF Extends, Steady
<1>3. ASSUME (\E d \in Dispatcher : PublishCommit(d) \/ PublishRollback(d)) \/ ApiDies \/ ApiStarts \/ UNCHANGED vars
      PROVE  HoldInv'
  <2>1. UNCHANGED <<scan, msg, worker, lease, stage>>
    BY <1>3 DEF PublishCommit, PublishRollback, ApiDies, ApiStarts, vars, store, broker
  <2> QED  BY <2>1, AsideKeepsHold DEF Steady
<1>4. ASSUME NEW w \in Worker, WorkerDies(w) PROVE HoldInv'
  <2>1. UNCHANGED <<scan, msg, stage>> /\ lease' = [s \in Handler |-> IF lease[s] = w THEN Orphan ELSE lease[s]]
          /\ worker' = [worker EXCEPT ![w] = [at |-> "down", hand |-> <<>>]]
    BY <1>4 DEF WorkerDies, store
  <2>2. ASSUME NEW v \in Worker, worker'[v].at \in {"run", "close"}
        PROVE  v # w /\ worker'[v] = worker[v] /\ Work(v) \in Handler
    <3>1. v # w /\ worker'[v] = worker[v]
      BY <2>1, <2>2 DEF TypesInv, WorkerTypes
    <3> QED  BY <2>2, <3>1, HandOf DEF TypesInv, Busy
  <2>3. ASSUME NEW v \in Worker, worker'[v].at = "run" PROVE lease'[Work(v)] = lease[Work(v)]
    BY <2>1, <2>2, <2>3 DEF HoldInv
  <2>4. ASSUME NEW v \in Worker, worker'[v].at \in {"run", "close"} PROVE scan'[Work(v)] = "QUEUED"
    BY <2>1, <2>2, <2>4 DEF HoldInv
  <2> QED  BY <2>1, <2>2, <2>3, <2>4, HoldKept
<1>5. ASSUME NEW w \in Worker, WorkerStarts(w) PROVE HoldInv'
  <2>1. UNCHANGED <<scan, msg, lease, stage>> /\ worker' = [worker EXCEPT ![w] = AtLoop]
          /\ worker[w].at = "down"
    BY <1>5 DEF WorkerStarts, store
  <2>2. worker'[w].at = "loop" /\ \A v \in Worker : v # w => worker'[v] = worker[v]
    BY <2>1 DEF TypesInv, WorkerTypes, AtLoop
  <2> QED  BY <2>1, <2>2, AsideKeepsHold DEF Steady
<1>6. ASSUME NEW s \in Handler, LeaseExpires(s) PROVE HoldInv'
  <2>1. UNCHANGED <<scan, msg, worker, stage>> /\ lease[s] = Orphan /\ lease' = [lease EXCEPT ![s] = Nobody]
    BY <1>6 DEF LeaseExpires, store
  <2>2. Orphan \notin Worker
    BY DeliveryAssumption
  <2>3. \A t \in Handler : lease[t] \in Worker => lease'[t] = lease[t]
    BY <2>1, <2>2 DEF TypesInv, WorkerTypes
  <2> QED  BY <2>1, <2>3, AsideKeepsHold DEF Steady
<1>7. ASSUME NEW s \in Handler, Reap(s) PROVE HoldInv'
  <2>1. UNCHANGED <<scan, msg, worker, lease>> /\ lease[s] = Nobody /\ stage[s].state = "OPEN"
          /\ stage' = [stage EXCEPT ![s].state = "EXHAUSTED"]
    BY <1>7 DEF Reap, Claimable, store
  <2>2. Nobody \notin Worker
    BY DeliveryAssumption
  <2>3. ASSUME NEW v \in Worker, worker'[v].at \in {"run", "close"}
        PROVE  stage'[Work(v)].state = stage[Work(v)].state /\ scan'[Work(v)] = "QUEUED"
    <3>1. Work(v) # s /\ scan[Work(v)] = "QUEUED"
      BY <2>1, <2>2, <2>3 DEF HoldInv
    <3>2. \A t : t # s => stage'[t] = stage[t]
      BY <2>1
    <3> QED  BY <2>1, <3>1, <3>2
  <2> QED  BY <2>1, <2>3, HoldKept
<1> QED  BY <1>1, <1>2, <1>3, <1>4, <1>5, <1>6, <1>7 DEF Next

LEMMA NextHold == TypesInv /\ StageInv /\ HoldInv /\ [Next]_vars => HoldInv'
<1> SUFFICES ASSUME TypesInv, StageInv, HoldInv, [Next]_vars PROVE HoldInv'
  OBVIOUS
<1>1. ASSUME NEW w \in Worker,
             Take(w) \/ Claim(w) \/ ClaimLease(w) \/ RecoverStale(w) \/ DeadLetter(w) \/ Dismiss(w)
               \/ Acknowledge(w) \/ Fail(w)
      PROVE  HoldInv'
  BY <1>1, MovesAside, AsideKeepsHold
<1> QED  BY <1>1, EnterKeepsHold, LeaveKeepsHold, OtherKeepsHold DEF WorkerStep

\* A closed stage is not opened again.
LEMMA ClosedStays ==
  ASSUME TypesInv, StageInv, HoldInv, [Next]_vars, NEW s \in Handler, Closed(s)
  PROVE  Closed(s)'
<1>1. stage \in [Handler -> [state : {"OPEN", "DECIDED", "EXHAUSTED"}, runs : Nat]]
  BY DEF StageInv
<1>2. ASSUME NEW w \in Worker, Enter(w) PROVE Closed(s)'
  <2>1. stage' = [stage EXCEPT ![Work(w)].runs = @ + 1] /\ stage[Work(w)].state = "OPEN"
    BY <1>2 DEF Enter, Claimable
  <2> QED  BY <1>1, <2>1 DEF Closed
<1>3. ASSUME NEW w \in Worker, RunDecides(w) \/ RunRaises(w) PROVE Closed(s)'
  <2>1. s # Work(w)
    BY <1>3 DEF HoldInv, Closed, RunDecides, RunRaises
  <2> QED  BY <1>1, <1>3, <2>1 DEF Closed, RunDecides, RunRaises, Leaves
<1>4. ASSUME NEW t \in Handler, Reap(t) PROVE Closed(s)'
  BY <1>1, <1>4 DEF Reap, Closed
<1> QED  BY <1>2, <1>3, <1>4, StageFrame DEF Closed

--------------------------------------------------------------------------------
(* The key. *)

LEMMA InitKey == Init => KeyInv
<1> SUFFICES ASSUME Init PROVE KeyInv
  OBVIOUS
<1>1. PICK digest \in {f \in [Handler -> 1 .. 2] :
                        \A h \in Handler : f[h] = 1 \/ (h \in setup.requests /\ h # CHOOSE g \in Handler : TRUE)} :
        handler = [h \in Handler |->
                    [at |-> IF h \in setup.requests THEN Entry ELSE "done", digest |-> digest[h],
                     answer |-> IF h \in setup.accepted THEN 202 ELSE 0, scan |-> h]]
  BY DEF Init
<1>2. setup.accepted \subseteq Handler /\ Committed = setup.accepted
  BY DeliveryAssumption DEF Init, Committed
<1> SUFFICES ASSUME NEW h \in Handler
             PROVE  /\ handler[h].at \in {"publish", "published"} => h \in Committed
                    /\ handler[h].at = "done" /\ handler[h].answer \in {202, 409} => Agrees(h)
  BY DEF KeyInv
<1>3. handler[h].at \notin {"publish", "published"}
  BY <1>1 DEF Entry
<1>4. handler[h].answer = (IF h \in setup.accepted THEN 202 ELSE 0) /\ handler[h].scan = h
  BY <1>1
<1> QED  BY <1>2, <1>3, <1>4 DEF Agrees

\* One request moves, and answers what agrees with the scan that is committed.
LEMMA KeyKept ==
  ASSUME TypesInv, KeyInv, Committed \subseteq Committed', NEW h \in Handler,
         handler' = [handler EXCEPT ![h] = handler'[h]], handler'[h].digest = handler[h].digest,
         handler'[h].at \in {"publish", "published"} => h \in Committed',
         handler'[h].at = "done" /\ handler'[h].answer \in {202, 409} =>
           /\ handler'[h].scan \in Committed'
           /\ handler'[h].answer = 202 <=> handler[h].digest = handler[handler'[h].scan].digest
  PROVE  KeyInv'
<1>1. \A g \in Handler : g # h => handler'[g] = handler[g]
  BY DEF TypesInv, IntakeTypes
<1>2. \A g \in Handler : handler'[g].digest = handler[g].digest
  BY <1>1
<1>3. Committed \subseteq Handler /\ Committed' \subseteq Handler
  BY DEF Committed
<1> SUFFICES ASSUME NEW g \in Handler
             PROVE  /\ handler'[g].at \in {"publish", "published"} => g \in Committed'
                    /\ handler'[g].at = "done" /\ handler'[g].answer \in {202, 409} => Agrees(g)'
  BY DEF KeyInv
<1>4. CASE g = h
  BY <1>2, <1>3, <1>4 DEF Agrees
<1>5. CASE g # h
  BY <1>1, <1>2, <1>3, <1>5 DEF KeyInv, Agrees
<1> QED  BY <1>4, <1>5

LEMMA GoesKey ==
  ASSUME TypesInv, KeyInv, Committed \subseteq Committed', NEW h \in Handler,
         NEW at \in Inside, Goes(h, at), at \in {"publish", "published"} => h \in Committed'
  PROVE  KeyInv'
<1>1. at # "done"
  BY DEF Inside
<1> QED  BY <1>1, GoesForm, KeyKept

LEMMA ReplaysKey ==
  ASSUME TypesInv, KeyInv, Committed' = Committed, Committed # {}, NEW h \in Handler, Replays(h)
  PROVE  KeyInv'
<1> PICK s \in Committed :
      Answers(h, IF handler[s].digest = handler[h].digest THEN 202 ELSE 409, s)
  BY ReplaysAnswers
<1> DEFINE code == IF handler[s].digest = handler[h].digest THEN 202 ELSE 409
<1>1. /\ handler' = [handler EXCEPT ![h] = handler'[h]]
      /\ handler'[h] = [at |-> "done", digest |-> handler[h].digest, answer |-> code, scan |-> s]
  BY AnswersForm
<1>2. code = 202 <=> handler[h].digest = handler[s].digest
  OBVIOUS
<1> HIDE DEF code
<1>3. handler'[h].digest = handler[h].digest /\ handler'[h].at = "done" /\ handler'[h].scan = s
        /\ handler'[h].answer = code
  BY <1>1
<1> QED  BY <1>1, <1>2, <1>3, KeyKept

\* An answer that says nothing of a scan, or that names the one just committed.
LEMMA AnswersKey ==
  ASSUME TypesInv, KeyInv, Committed \subseteq Committed', NEW h \in Handler,
         NEW code \in {202, 404, 429, 500}, Answers(h, code, h), code = 202 => h \in Committed'
  PROVE  KeyInv'
<1>1. /\ handler' = [handler EXCEPT ![h] = handler'[h]]
      /\ handler'[h] = [at |-> "done", digest |-> handler[h].digest, answer |-> code, scan |-> h]
  BY AnswersForm
<1>2. handler'[h].digest = handler[h].digest /\ handler'[h].at = "done" /\ handler'[h].scan = h
        /\ handler'[h].answer = code
  BY <1>1
<1> QED  BY <1>1, <1>2, KeyKept

LEMMA NextKey == TypesInv /\ LockInv /\ KeyInv /\ [Next]_vars => KeyInv'
<1> SUFFICES ASSUME TypesInv, LockInv, KeyInv, [Next]_vars PROVE KeyInv'
  OBVIOUS
<1>1. CASE Engine
  <2>1. CASE UNCHANGED handler
    BY <1>1, <2>1, EngineFrame DEF KeyInv, Agrees
  <2>2. CASE \E h \in Handler : handler[h].at = "publish" /\ Goes(h, "published")
    <3>1. PICK h \in Handler : handler[h].at = "publish" /\ Goes(h, "published")
      BY <2>2
    <3>2. Committed' = Committed /\ h \in Committed
      BY <1>1, <3>1, EngineFrame DEF KeyInv
    <3> QED  BY <3>1, <3>2, GoesKey DEF Inside
  <2> QED  BY <1>1, <2>1, <2>2, EngineFrame
<1>2. CASE ApiDies
  <2>1. Committed' = Committed /\ Committed \subseteq Handler
    BY <1>2, ApiDiesTypes DEF Committed
  <2> QED  BY <1>2, <2>1, DeathForm DEF KeyInv, Agrees
<1>3. ASSUME NEW h \in Handler, Purge(h) PROVE KeyInv'
  <2>1. Committed' = Committed /\ UNCHANGED handler
    BY <1>3 DEF Purge, Purges, intake, Committed
  <2> QED  BY <2>1 DEF KeyInv, Agrees
<1>4. ASSUME NEW h \in Handler, ReadGrant(h) \/ Lookup(h) PROVE KeyInv'
  <2>1. Committed' = Committed
    BY <1>4, ReadGrantTypes, LookupTypes
  <2>2. CASE Goes(h, "lookup") \/ Goes(h, "insert")
    BY <2>1, <2>2, GoesKey DEF Inside
  <2>3. CASE Answers(h, 404, h) \/ Answers(h, 429, h)
    BY <2>1, <2>3, AnswersKey
  <2>4. CASE Committed # {} /\ Replays(h)
    BY <2>1, <2>4, ReplaysKey
  <2> QED  BY <1>4, <2>2, <2>3, <2>4 DEF ReadGrant, Lookup
<1>5. ASSUME NEW h \in Handler, Commit(h) \/ CommitFails(h) PROVE KeyInv'
  <2>1. Committed = {}
    BY <1>5 DEF Commit, CommitFails, LockInv
  <2>2. CASE Inserts(h)
    <3>1. Committed' = {h} /\ (Goes(h, "publish") \/ Goes(h, "recheck"))
      BY <1>5, <2>1, <2>2 DEF Committed, Inserts, TypesInv, StoreTypes, Commit, CommitFails
    <3> QED  BY <2>1, <3>1, GoesKey DEF Inside
  <2>3. CASE UNCHANGED scan /\ Goes(h, "recheck")
    <3>1. Committed' = Committed
      BY <2>3 DEF Committed
    <3> QED  BY <2>3, <3>1, GoesKey DEF Inside
  <2> QED  BY <1>5, <2>2, <2>3 DEF Commit, CommitFails
<1>6. ASSUME NEW h \in Handler, Insert(h) \/ Recheck(h) PROVE KeyInv'
  <2>1. Committed' = Committed
    BY <1>6, InsertTypes, RecheckTypes
  <2>2. CASE Goes(h, "commit")
    BY <2>1, <2>2, GoesKey DEF Inside
  <2>3. CASE Answers(h, 500, h)
    BY <2>1, <2>3, AnswersKey
  <2>4. CASE Committed # {} /\ Replays(h)
    BY <2>1, <2>4, ReplaysKey
  <2> QED  BY <1>6, <2>2, <2>3, <2>4 DEF Insert, Recheck
<1>7. ASSUME NEW h \in Handler, NothingToPublish(h) \/ Respond(h) \/ Retry(h) PROVE KeyInv'
  <2>1. Committed' = Committed
    BY <1>7, AnsweringTypes
  <2>2. CASE NothingToPublish(h)
    <3>1. h \in Committed /\ Goes(h, "published")
      BY <2>2 DEF NothingToPublish, KeyInv
    <3> QED  BY <2>1, <3>1, GoesKey DEF Inside
  <2>3. CASE Respond(h)
    <3>1. h \in Committed /\ Answers(h, 202, h)
      BY <2>3 DEF Respond, KeyInv
    <3> QED  BY <2>1, <3>1, AnswersKey
  <2>4. CASE Retry(h)
    <3>1. Entry \in {"grant", "lookup"} /\ Goes(h, Entry)
      BY <2>4 DEF Retry, Entry
    <3> QED  BY <2>1, <3>1, GoesKey DEF Inside
  <2> QED  BY <1>7, <2>2, <2>3, <2>4
<1>8. ASSUME NEW h \in Handler, HandlerFails(h) PROVE KeyInv'
  <2>1. Answers(h, 500, h) /\ Committed' = Committed
    BY <1>8, HandlerFailsTypes DEF HandlerFails
  <2> QED  BY <2>1, AnswersKey
<1> QED  BY <1>1, <1>2, <1>3, <1>4, <1>5, <1>6, <1>7, <1>8, NextKinds DEF Request

LEMMA KeyFollows == TypesInv /\ KeyInv => KeyBindsOneRequest
<1> SUFFICES ASSUME TypesInv, KeyInv PROVE KeyBindsOneRequest
  OBVIOUS
<1>1. \A s, t \in Committed : s = t
  BY DEF TypesInv, StoreTypes
<1>2. Cardinality(Committed) <= 1
  <2>1. CASE Committed = {}
    BY <2>1, FS_EmptySet
  <2>2. CASE Committed # {}
    <3>1. PICK s \in Committed : Committed = {s}
      BY <1>1, <2>2
    <3> QED  BY <3>1, FS_Singleton
  <2> QED  BY <2>1, <2>2
<1> QED  BY <1>2 DEF KeyInv, Agrees, KeyBindsOneRequest

\* Over competing requests, retries, commits in doubt and restarts, one scan has the key;
\* a request that loses it in the flush breaks off, and whoever is answered 202 asked for
\* that scan (_create_scan_bytes, _replay_or_conflict).
THEOREM KeyBinds == Spec => []KeyBindsOneRequest
<1>1. Init => KeyInv
  BY InitKey
<1>2. TypesInv /\ LockInv /\ KeyInv /\ [Next]_vars => KeyInv'
  BY NextKey
<1> QED  BY <1>1, <1>2, KeyFollows, DeliveryInvariant, PTL DEF Spec

--------------------------------------------------------------------------------
(* The media. *)

Refused == \E h \in Handler : handler[h].at = "done" /\ handler[h].answer = 429

LEMMA MediaParts ==
  MediaInv <=>
    /\ \A h \in Handler : handler[h].at \in {"insert", "commit"} => h \in bytes /\ h \notin Committed
    /\ \A s \in Committed : s \in bytes => s \in located
    /\ spent.doubts = 0 => Unfinished \subseteq bytes
    /\ setup.direct /\ ~staged => Committed # {} \/ Refused
  BY DEF MediaInv, MediaLivesAsLongAsWork, Refused

\* Doubts are only ever added.
LEMMA DoubtsGrow ==
  ASSUME TypesInv, [Next]_vars
  PROVE  spent'.doubts = 0 => spent.doubts = 0
<1>1. IntakeTypes /\ spent.doubts \in Nat
  BY DEF TypesInv, IntakeTypes
<1>2. (\E kind \in {"faults", "doubts", "crashes", "overtakes"} : Spend(kind)) \/ UNCHANGED spent
  BY SpendsOrNot
<1>3. spent.doubts <= spent'.doubts
  BY <1>1, <1>2, SpendType
<1>4. spent'.doubts \in Nat
  <2>1. spent' \in [faults : Nat, doubts : Nat, crashes : Nat, overtakes : Nat]
    BY <1>1, <1>2, SpendType DEF IntakeTypes
  <2> QED  BY <2>1
<1> QED  BY <1>1, <1>3, <1>4

LEMMA InitMedia == Init => MediaInv
<1> SUFFICES ASSUME Init PROVE MediaInv
  OBVIOUS
<1>1. \A h \in Handler : handler[h].at \notin {"insert", "commit"}
  BY DEF Init, Entry
<1>2. setup.accepted \subseteq Handler
  BY DeliveryAssumption DEF Init
<1>3. Committed = setup.accepted /\ Unfinished = setup.accepted
  BY <1>2 DEF Init, Committed, Unfinished
<1>4. bytes = setup.accepted /\ located = setup.accepted /\ staged = setup.direct
  BY DEF Init
<1> QED  BY <1>1, <1>3, <1>4, MediaParts

\* One request moves before any commit of its own: it has no scan, or leaves the
\* candidate of its scan alone.
LEMMA MediaKept ==
  ASSUME TypesInv, MediaInv, [Next]_vars, NEW h \in Handler,
         \A g \in Handler : g # h => handler'[g] = handler[g],
         UNCHANGED <<setup, scan, located>>,
         \A g \in Handler : g # h => (g \in bytes' <=> g \in bytes),
         h \in Committed => (h \in bytes' <=> h \in bytes),
         handler'[h].at \in {"insert", "commit"} => h \in bytes' /\ h \notin Committed,
         setup.direct /\ ~staged' => Committed # {} \/ Refused'
  PROVE  MediaInv'
<1>1. Committed' = Committed /\ Unfinished' = Unfinished /\ Committed \subseteq Handler
        /\ Unfinished \subseteq Committed
  BY DEF Committed, Unfinished
<1>2. spent'.doubts = 0 => spent.doubts = 0
  BY DoubtsGrow
<1>3. \A g \in Handler : handler'[g].at \in {"insert", "commit"} => g \in bytes' /\ g \notin Committed'
  BY <1>1, MediaParts
<1>4. \A s \in Committed' : s \in bytes' => s \in located'
  BY <1>1, MediaParts
<1>5. spent'.doubts = 0 => Unfinished' \subseteq bytes'
  BY <1>1, <1>2, MediaParts
<1>6. setup'.direct /\ ~staged' => Committed' # {} \/ Refused'
  BY <1>1
<1> QED  BY <1>3, <1>4, <1>5, <1>6 DEF MediaInv, MediaLivesAsLongAsWork, Refused

\* A refusal stays on record while others move.
LEMMA RefusedStays ==
  ASSUME NEW h \in Handler, \A g \in Handler : g # h => handler'[g] = handler[g],
         handler[h].at # "done" \/ handler[h].answer # 429, Refused
  PROVE  Refused'
  BY DEF Refused

LEMMA MediaRequest ==
  ASSUME TypesInv, MediaInv, [Next]_vars, NEW h \in Handler,
         Request(h), ~Commit(h), ~CommitFails(h), KeyInv
  PROVE  MediaInv'
<1>1. UNCHANGED <<setup, scan, located>>
  BY DEF Request, ReadGrant, Lookup, Insert, Recheck, NothingToPublish, Respond, Retry, HandlerFails, store
<1>2. setup.direct /\ ~staged => Committed # {} \/ Refused
  BY MediaParts
<1>3. handler[h].at \in {"insert", "commit"} => h \in bytes /\ h \notin Committed
  BY MediaParts
<1>4. CASE ReadGrant(h)
  <2>1. CASE Committed = {}
    <3>1. Goes(h, "lookup") /\ handler[h].at = "grant" /\ UNCHANGED <<staged, bytes>>
      BY <1>4, <2>1 DEF ReadGrant, store
    <3>2. handler'[h].at = "lookup" /\ \A g \in Handler : g # h => handler'[g] = handler[g]
      BY <3>1, GoesForm
    <3> QED  BY <1>1, <1>2, <3>1, <3>2, RefusedStays, MediaKept
  <2>2. CASE Committed # {}
    <3>1. Replays(h) /\ UNCHANGED bytes
      BY <1>4, <2>2 DEF ReadGrant, store
    <3>2. handler'[h].at = "done" /\ \A g \in Handler : g # h => handler'[g] = handler[g]
      BY <2>2, <3>1, ReplaysForm
    <3> QED  BY <1>1, <2>2, <3>1, <3>2, MediaKept
  <2> QED  BY <2>1, <2>2
<1>5. CASE Lookup(h)
  <2>0. handler[h].at = "lookup"
    BY <1>5 DEF Lookup
  <2>1. CASE Answers(h, 404, h) /\ UNCHANGED <<staged, bytes>>
    <3>1. handler'[h].at = "done" /\ \A g \in Handler : g # h => handler'[g] = handler[g]
      BY <2>1, DoneForm
    <3> QED  BY <1>1, <1>2, <2>0, <2>1, <3>1, RefusedStays, MediaKept
  <2>2. CASE Answers(h, 429, h) /\ UNCHANGED bytes
    <3>1. handler'[h].at = "done" /\ handler'[h].answer = 429
            /\ \A g \in Handler : g # h => handler'[g] = handler[g]
      BY <2>2, RefusesForm
    <3>2. Refused'
      BY <3>1 DEF Refused
    <3> QED  BY <1>1, <2>2, <3>1, <3>2, MediaKept
  <2>3. CASE Committed = {} /\ Goes(h, "insert") /\ bytes' = bytes \cup {h} /\ UNCHANGED staged
    <3>1. handler'[h].at = "insert" /\ \A g \in Handler : g # h => handler'[g] = handler[g]
      BY <2>3, GoesForm
    <3> QED  BY <1>1, <1>2, <2>0, <2>3, <3>1, RefusedStays, MediaKept
  <2>4. CASE Committed # {} /\ Replays(h) /\ UNCHANGED bytes
    <3>1. handler'[h].at = "done" /\ \A g \in Handler : g # h => handler'[g] = handler[g]
      BY <2>4, ReplaysForm
    <3> QED  BY <1>1, <2>4, <3>1, MediaKept
  <2> QED  BY <1>5, <2>1, <2>2, <2>3, <2>4 DEF Lookup
<1>6. CASE NothingToPublish(h)
  <2>1. Goes(h, "published") /\ handler[h].at = "publish" /\ UNCHANGED <<staged, bytes>>
    BY <1>6 DEF NothingToPublish, store
  <2>2. handler'[h].at = "published" /\ \A g \in Handler : g # h => handler'[g] = handler[g]
    BY <2>1, GoesForm
  <2> QED  BY <1>1, <1>2, <2>1, <2>2, RefusedStays, MediaKept
<1>7. CASE Respond(h)
  <2>1. Answers(h, 202, h) /\ handler[h].at = "published" /\ UNCHANGED bytes
    BY <1>7 DEF Respond, store
  <2>2. handler'[h].at = "done" /\ \A g \in Handler : g # h => handler'[g] = handler[g]
    BY <2>1, DoneForm
  <2>3. h \in Committed
    BY <2>1 DEF KeyInv
  <2> QED  BY <1>1, <2>1, <2>2, <2>3, MediaKept
<1>8. CASE Retry(h)
  <2>1. Goes(h, Entry) /\ handler[h].answer = 500 /\ UNCHANGED <<staged, bytes>>
          /\ Entry \notin {"insert", "commit"}
    BY <1>8 DEF Retry, store, Entry
  <2>2. handler'[h].at = Entry /\ \A g \in Handler : g # h => handler'[g] = handler[g]
    BY <2>1, GoesForm
  <2> QED  BY <1>1, <1>2, <2>1, <2>2, RefusedStays, MediaKept
<1>9. CASE HandlerFails(h)
  <2>1. Answers(h, 500, h) /\ handler[h].at # "done" /\ UNCHANGED <<staged, bytes>>
    BY <1>9 DEF HandlerFails, store
  <2>2. handler'[h].at = "done" /\ \A g \in Handler : g # h => handler'[g] = handler[g]
    BY <2>1, DoneForm
  <2> QED  BY <1>1, <1>2, <2>1, <2>2, RefusedStays, MediaKept
<1>10. CASE Insert(h)
  <2>1. handler[h].at = "insert" /\ UNCHANGED <<staged, bytes>> /\ (Goes(h, "commit") \/ Answers(h, 500, h))
    BY <1>10 DEF Insert, store
  <2>2. handler'[h].at \in {"commit", "done"} /\ \A g \in Handler : g # h => handler'[g] = handler[g]
    BY <2>1, GoesForm, DoneForm
  <2> QED  BY <1>1, <1>2, <1>3, <2>1, <2>2, RefusedStays, MediaKept
<1>11. CASE Recheck(h)
  <2>1. handler[h].at = "recheck" /\ UNCHANGED bytes
    BY <1>11 DEF Recheck, store
  <2>2. CASE Committed = {}
    <3>1. Answers(h, 500, h) /\ UNCHANGED staged
      BY <1>11, <2>2 DEF Recheck
    <3>2. handler'[h].at = "done" /\ \A g \in Handler : g # h => handler'[g] = handler[g]
      BY <3>1, DoneForm
    <3> QED  BY <1>1, <1>2, <2>1, <3>1, <3>2, RefusedStays, MediaKept
  <2>3. CASE Committed # {}
    <3>1. Replays(h)
      BY <1>11, <2>3 DEF Recheck
    <3>2. handler'[h].at = "done" /\ \A g \in Handler : g # h => handler'[g] = handler[g]
      BY <2>3, <3>1, ReplaysForm
    <3> QED  BY <1>1, <2>1, <2>3, <3>2, MediaKept
  <2> QED  BY <2>2, <2>3
<1> QED  BY <1>4, <1>5, <1>6, <1>7, <1>8, <1>9, <1>10, <1>11 DEF Request

LEMMA MediaCommit ==
  ASSUME TypesInv, LockInv, MediaInv, [Next]_vars, NEW h \in Handler, Commit(h) \/ CommitFails(h)
  PROVE  MediaInv'
<1>1. handler[h].at = "commit" /\ h \in bytes /\ h \notin Committed /\ Committed = {}
  BY MediaParts DEF Commit, CommitFails, LockInv
<1>2. handler'[h].at \in {"publish", "recheck"} /\ \A g \in Handler : g # h => handler'[g] = handler[g]
  BY GoesForm DEF Commit, CommitFails
<1>3. bytes' \in {bytes, bytes \ {h}} /\ UNCHANGED <<setup, staged>>
  BY DEF Commit, CommitFails
<1>4. \A g \in Handler : g # h => (g \in bytes' <=> g \in bytes)
  BY <1>3
<1>5. CASE Inserts(h)
  <2>1. Committed' = {h} /\ Unfinished' = {h} /\ located' = located \cup {h}
    BY <1>1, <1>5 DEF Committed, Unfinished, Inserts, TypesInv, StoreTypes
  <2>2. spent'.doubts = 0 => h \in bytes'
    <3>1. CASE Commit(h)
      BY <1>1, <3>1 DEF Commit
    <3>2. CASE Spend("doubts")
      <4>1. spent' = [spent EXCEPT !.doubts = @ + 1] /\ spent.doubts \in Nat
              /\ spent \in [faults : Nat, doubts : Nat, crashes : Nat, overtakes : Nat]
        BY <3>2 DEF Spend, TypesInv, IntakeTypes
      <4>2. spent'.doubts = spent.doubts + 1
        BY <4>1
      <4> QED  BY <4>1, <4>2
    <3>3. CASE UNCHANGED scan
      BY <1>1, <2>1, <3>3 DEF Committed
    <3> QED  BY <3>1, <3>2, <3>3 DEF CommitFails
  <2>3. \A g \in Handler : handler'[g].at \in {"insert", "commit"} => g \in bytes' /\ g \notin Committed'
    BY <1>2, <1>4, <2>1, MediaParts
  <2>4. \A s \in Committed' : s \in bytes' => s \in located'
    BY <2>1
  <2>5. spent'.doubts = 0 => Unfinished' \subseteq bytes'
    BY <2>1, <2>2
  <2> QED  BY <2>1, <2>3, <2>4, <2>5 DEF MediaInv, MediaLivesAsLongAsWork
<1>6. CASE UNCHANGED <<scan, located>>
  <2>1. setup.direct /\ ~staged' => Committed # {} \/ Refused'
    BY <1>1, <1>2, <1>3, RefusedStays, MediaParts
  <2> QED  BY <1>1, <1>2, <1>3, <1>4, <1>6, <2>1, MediaKept
<1> QED  BY <1>5, <1>6 DEF Commit, CommitFails

LEMMA NextMedia == TypesInv /\ LockInv /\ KeyInv /\ MediaInv /\ [Next]_vars => MediaInv'
<1> SUFFICES ASSUME TypesInv, LockInv, KeyInv, MediaInv, [Next]_vars PROVE MediaInv'
  OBVIOUS
<1>1. spent'.doubts = 0 => spent.doubts = 0
  BY DoubtsGrow
<1>2. Unfinished \subseteq Committed /\ Committed \subseteq Handler
  BY DEF Unfinished, Committed
<1>3. CASE Engine
  <2>1. UNCHANGED <<setup, staged, bytes, located>> /\ Committed' = Committed /\ Unfinished' \subseteq Unfinished
    BY <1>3, EngineFrame
  <2>2. /\ \A h \in Handler : handler'[h].at \in {"insert", "commit"} => handler'[h] = handler[h]
        /\ Refused => Refused'
    <3>1. CASE UNCHANGED handler
      BY <3>1 DEF Refused
    <3>2. CASE \E h \in Handler : handler[h].at = "publish" /\ Goes(h, "published")
      <4>1. PICK h \in Handler : handler[h].at = "publish" /\ Goes(h, "published")
        BY <3>2
      <4>2. handler'[h].at = "published" /\ \A g \in Handler : g # h => handler'[g] = handler[g]
        BY <4>1, GoesForm
      <4> QED  BY <4>1, <4>2, RefusedStays
    <3> QED  BY <1>3, <3>1, <3>2, EngineFrame
  <2> QED  BY <1>1, <2>1, <2>2, MediaParts DEF MediaInv, MediaLivesAsLongAsWork, Refused
<1>4. CASE ApiDies
  <2>1. UNCHANGED <<setup, staged, bytes, located, scan>>
    BY <1>4 DEF ApiDies, store
  <2>2. \A h \in Handler : handler'[h].at = "done" /\ (handler[h].at = "done" => handler'[h] = handler[h])
    BY <1>4, DeathForm
  <2>3. Refused => Refused'
    BY <2>2 DEF Refused
  <2>4. Committed' = Committed /\ Unfinished' = Unfinished
    BY <2>1 DEF Committed, Unfinished
  <2>5. \A h \in Handler : handler'[h].at \notin {"insert", "commit"}
    BY <2>2
  <2>6. \A s \in Committed' : s \in bytes' => s \in located'
    BY <2>1, <2>4, MediaParts
  <2>7. spent'.doubts = 0 => Unfinished' \subseteq bytes'
    BY <1>1, <2>1, <2>4, MediaParts
  <2>8. setup'.direct /\ ~staged' => Committed' # {} \/ Refused'
    BY <2>1, <2>3, <2>4, MediaParts
  <2> QED  BY <2>5, <2>6, <2>7, <2>8 DEF MediaInv, MediaLivesAsLongAsWork, Refused
<1>5. ASSUME NEW s \in Handler, Purge(s) PROVE MediaInv'
  <2>1. UNCHANGED <<setup, staged, handler, scan>> /\ bytes' = bytes \ {s} /\ scan[s] \in Ended
          /\ (located' = located \ {s} \/ UNCHANGED located)
    BY <1>5 DEF Purge, Purges, intake
  <2>2. Committed' = Committed /\ Unfinished' = Unfinished /\ s \notin Unfinished /\ s \in Committed
    BY <2>1 DEF Committed, Unfinished, Ended
  <2> QED  BY <1>1, <2>1, <2>2, MediaParts DEF MediaInv, MediaLivesAsLongAsWork, Refused
<1>6. ASSUME NEW h \in Handler, Request(h) PROVE MediaInv'
  BY <1>6, MediaRequest, MediaCommit
<1> QED  BY <1>3, <1>4, <1>5, <1>6, NextKinds

\* The candidate of a scan is there while the scan may need it and known while it is there,
\* and an upload is removed only once it is settled (purge_candidate_media,
\* create_scan_from_upload).  Of objects that no scan has this says nothing: a request that
\* breaks off before its commit leaves them.
THEOREM MediaLives == Spec => []MediaLivesAsLongAsWork
<1>1. Init => KeyInv /\ MediaInv
  BY InitKey, InitMedia
<1>2. TypesInv /\ LockInv /\ (KeyInv /\ MediaInv) /\ [Next]_vars => (KeyInv /\ MediaInv)'
  BY NextKey, NextMedia
<1>3. MediaInv => MediaLivesAsLongAsWork
  BY DEF MediaInv
<1> QED  BY <1>1, <1>2, <1>3, DeliveryInvariant, PTL DEF Spec

--------------------------------------------------------------------------------
(* What carries a scan. *)

LEMMA InitCarry == Init => CarryInv
<1> SUFFICES ASSUME Init PROVE CarryInv
  OBVIOUS
<1>1. \A w \in Worker : worker[w].at # "ack"
  BY DEF Init, AtLoop
<1>2. setup.accepted \subseteq Handler /\ (\A s, t \in setup.accepted : s = t)
  BY DeliveryAssumption DEF Init
<1>3. ASSUME NEW s \in Unfinished PROVE RowCarries(s)
  <2>1. setup.accepted = {s}
    BY <1>2, <1>3 DEF Init, Unfinished
  <2>2. Cardinality(setup.accepted) = 1 /\ (CHOOSE t \in setup.accepted : TRUE) = s
    BY <2>1, FS_Singleton
  <2>3. outbox = [i \in 1 .. Cardinality(setup.accepted) |-> Row(CHOOSE t \in setup.accepted : TRUE)]
    BY DEF Init
  <2>4. 1 \in DOMAIN outbox /\ outbox[1] = Row(CHOOSE t \in setup.accepted : TRUE)
    BY <2>2, <2>3
  <2>5. 1 \in DOMAIN outbox /\ outbox[1].scan = s /\ outbox[1].state = "PENDING"
    BY <2>2, <2>4 DEF Row
  <2>6. \A d \in Dispatcher : pass[d].sent = {}
    BY DEF Init, NoPass
  <2> QED  BY <2>5, <2>6 DEF RowCarries
<1> QED  BY <1>1, <1>3 DEF CarryInv

\* A step of one worker: what the messages carry, they carry on, or the scan is turned away
\* or its stage closed.
LEMMA StepCarries ==
  ASSUME TypesInv, CarryInv, \A s \in Handler : Closed(s) => Closed(s)',
         NEW w \in Worker, worker[w].at # "down", Extends,
         worker' = [worker EXCEPT ![w] = worker'[w]],
         worker'[w].at = "ack" => scan'[Work(w)'] \in Ended,
         \A s \in Handler : scan[s] \in Ended => scan'[s] \in Ended,
         UNCHANGED <<outbox, pass, up>>, Unfinished' \subseteq Unfinished, turned \subseteq turned',
         \A s \in Unfinished' : MessageCarries(s) => s \in turned' \/ Closed(s)' \/ MessageCarries(s)'
  PROVE  CarryInv'
<1>1. \A v \in Worker : v # w => worker'[v] = worker[v]
  BY DEF TypesInv, WorkerTypes
<1>2. ASSUME NEW v \in Worker, worker'[v].at = "ack" PROVE scan'[Work(v)'] \in Ended
  <2>1. CASE v = w
    BY <1>2, <2>1
  <2>2. CASE v # w
    <3>1. worker'[v] = worker[v] /\ worker[v].at = "ack"
      BY <1>1, <1>2, <2>2
    <3>2. Head(worker[v].hand) \in DOMAIN msg /\ Work(v) \in Handler
      BY <3>1, HandOf DEF TypesInv, Busy
    <3>3. Work(v)' = Work(v)
      BY <3>1, <3>2 DEF Work, Extends
    <3> QED  BY <3>1, <3>2, <3>3 DEF CarryInv
  <2> QED  BY <2>1, <2>2
<1>3. Down => Down'
  BY <1>1 DEF Down
<1>4. \A s \in Handler : RowCarries(s) => RowCarries(s)'
  BY DEF RowCarries
<1>5. Unfinished \subseteq Handler
  BY DEF Unfinished
<1> QED  BY <1>2, <1>3, <1>4, <1>5 DEF CarryInv

LEMMA TakeCarries ==
  ASSUME TypesInv, CarryInv, \A s \in Handler : Closed(s) => Closed(s)', NEW w \in Worker, Take(w)
  PROVE  CarryInv'
<1>1. /\ TypesInv' /\ DOMAIN msg' = DOMAIN msg
      /\ \A i \in DOMAIN msg :
           msg'[i] = msg[i] \/ (msg'[i].place = "pending" /\ msg'[i].scan = msg[i].scan
                                  /\ msg[i].place \in {"waiting", "pending"})
      /\ worker' = [worker EXCEPT ![w] = worker'[w]] /\ worker'[w].at \in {"loop", "handle"}
  BY TakeTypes
<1>2. worker[w].at = "loop" /\ UNCHANGED <<scan, outbox, pass, up, turned>>
  BY DEF Take, store
<1>3. Committed' = Committed /\ Unfinished' = Unfinished
  BY <1>2 DEF Committed, Unfinished
<1>4. Extends
  BY <1>1, <1>3 DEF Extends, TypesInv, MessageTypes
<1>5. ASSUME NEW s \in Unfinished', MessageCarries(s) PROVE MessageCarries(s)'
  <2>1. PICK i \in DOMAIN msg :
          /\ msg[i].scan = s
          /\ \/ msg[i].place \in {"waiting", "pending", "leased", "dead"}
             \/ msg[i].place = "taken" /\ \E v \in Worker : worker[v] = [at |-> "claimed", hand |-> <<i>>]
    BY <1>5 DEF MessageCarries
  <2>2. \A v \in Worker : worker[v].at = "claimed" => worker'[v] = worker[v]
    BY <1>1, <1>2 DEF TypesInv, WorkerTypes
  <2> QED  BY <1>1, <2>1, <2>2 DEF MessageCarries
<1> QED  BY <1>1, <1>2, <1>3, <1>4, <1>5, StepCarries

LEMMA ClaimCarries ==
  ASSUME TypesInv, CarryInv, \A s \in Handler : Closed(s) => Closed(s)', NEW w \in Worker, Claim(w)
  PROVE  CarryInv'
<1>1. PICK i \in DOMAIN msg :
        /\ msg' = [msg EXCEPT ![i] = msg'[i]] /\ msg'[i].place = "taken" /\ msg'[i].scan = msg[i].scan
        /\ worker' = [worker EXCEPT ![w] = [at |-> "claimed", hand |-> <<i>>]]
  BY ClaimTypes
<1>2. worker[w].at = "loop" /\ UNCHANGED <<scan, outbox, pass, up, turned>> /\ TypesInv'
  BY ClaimTypes DEF Claim, store
<1>3. Committed' = Committed /\ Unfinished' = Unfinished
  BY <1>2 DEF Committed, Unfinished
<1>4. DOMAIN msg' = DOMAIN msg /\ \A j \in DOMAIN msg : j # i => msg'[j] = msg[j]
  <2>1. msg \in Seq(Entries)
    BY DEF TypesInv, MessageTypes
  <2> QED  BY <1>1, <2>1
<1>5. Extends
  BY <1>1, <1>2, <1>3, <1>4 DEF Extends, TypesInv, MessageTypes
<1>6. worker'[w] = [at |-> "claimed", hand |-> <<i>>]
        /\ \A v \in Worker : v # w => worker'[v] = worker[v]
  BY <1>1 DEF TypesInv, WorkerTypes
<1>7. ASSUME NEW s \in Unfinished', MessageCarries(s) PROVE MessageCarries(s)'
  <2>1. PICK j \in DOMAIN msg :
          /\ msg[j].scan = s
          /\ \/ msg[j].place \in {"waiting", "pending", "leased", "dead"}
             \/ msg[j].place = "taken" /\ \E v \in Worker : worker[v] = [at |-> "claimed", hand |-> <<j>>]
    BY <1>7 DEF MessageCarries
  <2>2. \A v \in Worker : worker[v].at = "claimed" => worker'[v] = worker[v]
    BY <1>2, <1>6
  <2>3. CASE j = i
    BY <1>1, <1>4, <1>6, <2>1, <2>3 DEF MessageCarries
  <2>4. CASE j # i
    BY <1>4, <2>1, <2>2, <2>4 DEF MessageCarries
  <2> QED  BY <2>3, <2>4
<1>8. worker' = [worker EXCEPT ![w] = worker'[w]]
  BY <1>1, <1>6
<1>9. worker'[w].at # "ack"
  BY <1>6
<1> QED  BY <1>2, <1>3, <1>5, <1>7, <1>8, <1>9, StepCarries

\* A step that puts one message into another place from which it is carried.
LEMMA PlacedCarries ==
  ASSUME TypesInv, CarryInv, \A s \in Handler : Closed(s) => Closed(s)',
         NEW w \in Worker, worker[w].at # "down", TypesInv',
         UNCHANGED <<scan, outbox, pass, up, turned>>, NEW i \in DOMAIN msg,
         msg' = [msg EXCEPT ![i] = msg'[i]], msg'[i].place \in {"leased", "dead"}, msg'[i].scan = msg[i].scan,
         worker[w].at = "claimed" => Head(worker[w].hand) = i,
         worker' = [worker EXCEPT ![w] = worker'[w]], worker'[w].at # "ack"
  PROVE  CarryInv'
<1>3. Committed' = Committed /\ Unfinished' = Unfinished
  BY DEF Committed, Unfinished
<1>4. DOMAIN msg' = DOMAIN msg /\ \A j \in DOMAIN msg : j # i => msg'[j] = msg[j]
  <2>1. msg \in Seq(Entries)
    BY DEF TypesInv, MessageTypes
  <2> QED  BY <2>1
<1>5. Extends
  BY <1>3, <1>4 DEF Extends, TypesInv, MessageTypes
<1>6. \A v \in Worker : v # w => worker'[v] = worker[v]
  BY DEF TypesInv, WorkerTypes
<1>7. ASSUME NEW s \in Unfinished', MessageCarries(s) PROVE MessageCarries(s)'
  <2>1. PICK j \in DOMAIN msg :
          /\ msg[j].scan = s
          /\ \/ msg[j].place \in {"waiting", "pending", "leased", "dead"}
             \/ msg[j].place = "taken" /\ \E v \in Worker : worker[v] = [at |-> "claimed", hand |-> <<j>>]
    BY <1>7 DEF MessageCarries
  <2>2. CASE j = i
    BY <1>4, <2>1, <2>2 DEF MessageCarries
  <2>3. CASE j # i
    <3>1. ASSUME NEW v \in Worker, worker[v] = [at |-> "claimed", hand |-> <<j>>]
          PROVE  worker'[v] = worker[v]
      <4>1. worker[v].at = "claimed" /\ Head(worker[v].hand) = j
        BY <3>1
      <4> QED  BY <1>6, <2>3, <4>1
    <3> QED  BY <1>4, <2>1, <2>3, <3>1 DEF MessageCarries
  <2> QED  BY <2>2, <2>3
<1> QED  BY <1>3, <1>5, <1>7, StepCarries

LEMMA ClaimLeaseCarries ==
  ASSUME TypesInv, CarryInv, \A s \in Handler : Closed(s) => Closed(s)', NEW w \in Worker, ClaimLease(w)
  PROVE  CarryInv'
<1>1. PICK i \in DOMAIN msg :
        msg' = [msg EXCEPT ![i] = msg'[i]] /\ msg'[i].place = "leased" /\ msg'[i].scan = msg[i].scan
          /\ Head(worker[w].hand) = i
  BY ClaimLeaseTypes
<1>2. worker[w].at = "claimed" /\ UNCHANGED <<scan, outbox, pass, up, turned>>
  BY DEF ClaimLease, store
<1>3. TypesInv' /\ worker' = [worker EXCEPT ![w] = worker'[w]] /\ worker'[w].at # "ack"
  BY ClaimLeaseTypes
<1> QED  BY <1>1, <1>2, <1>3, PlacedCarries

LEMMA DeadLetterCarries ==
  ASSUME TypesInv, CarryInv, \A s \in Handler : Closed(s) => Closed(s)', NEW w \in Worker, DeadLetter(w)
  PROVE  CarryInv'
<1>1. PICK i \in DOMAIN msg :
        msg' = [msg EXCEPT ![i] = msg'[i]] /\ msg'[i].place = "dead" /\ msg'[i].scan = msg[i].scan
  BY DeadLetterTypes
<1>2. worker[w].at = "handle" /\ UNCHANGED <<scan, outbox, pass, up, turned>>
  BY DEF DeadLetter, store
<1>3. TypesInv' /\ worker' = [worker EXCEPT ![w] = worker'[w]] /\ worker'[w].at # "ack"
  BY DeadLetterTypes
<1> QED  BY <1>1, <1>2, <1>3, PlacedCarries

\* What replaces a message carries its scan.
LEMMA ReplacedCarries ==
  ASSUME TypesInv, CarryInv, \A s \in Handler : Closed(s) => Closed(s)',
         NEW w \in Worker, worker[w].at \notin {"down", "claimed"},
         UNCHANGED <<scan, outbox, pass, up, turned>>,
         UNCHANGED msg \/ \E i \in DOMAIN msg : msg' = Replaced(i),
         worker' = [worker EXCEPT ![w] = worker'[w]], worker'[w].at # "ack"
  PROVE  CarryInv'
<1>1. MessageTypes
  BY DEF TypesInv
<1>2. Committed' = Committed /\ Unfinished' = Unfinished
  BY DEF Committed, Unfinished
<1>3. Extends
  BY <1>1, Same, ReplacedExtends
<1>4. \A v \in Worker : worker[v].at = "claimed" => worker'[v] = worker[v]
  BY DEF TypesInv, WorkerTypes
<1>5. ASSUME NEW s \in Unfinished', MessageCarries(s) PROVE MessageCarries(s)'
  <2>1. PICK j \in DOMAIN msg :
          /\ msg[j].scan = s
          /\ \/ msg[j].place \in {"waiting", "pending", "leased", "dead"}
             \/ msg[j].place = "taken" /\ \E v \in Worker : worker[v] = [at |-> "claimed", hand |-> <<j>>]
    BY <1>5 DEF MessageCarries
  <2>2. ASSUME msg'[j] = msg[j] PROVE MessageCarries(s)'
    BY <1>3, <1>4, <2>1, <2>2 DEF MessageCarries, Extends
  <2>3. CASE UNCHANGED msg
    BY <2>2, <2>3
  <2>4. ASSUME NEW i \in DOMAIN msg, msg' = Replaced(i) PROVE MessageCarries(s)'
    <3>1. CASE j = i
      BY <1>1, <2>1, <2>4, <3>1, ReplacedExtends DEF MessageCarries
    <3>2. CASE j # i
      BY <1>1, <2>2, <2>4, <3>2, ReplacedExtends
    <3> QED  BY <3>1, <3>2
  <2> QED  BY <2>3, <2>4
<1> QED  BY <1>2, <1>3, <1>5, StepCarries

\* An acknowledgement takes a message of a scan that has ended, is turned away, has a
\* closed stage, or is carried by the delivery of the worker that holds its stage.
LEMMA AcknowledgedCarries ==
  ASSUME TypesInv, CarryInv, \A s \in Handler : Closed(s) => Closed(s)',
         NEW w \in Worker, worker[w].at \notin {"down", "claimed"}, Extends,
         NEW r \in Handler, \A j \in DOMAIN msg : msg[j].scan # r => msg'[j] = msg[j],
         turned \subseteq turned', scan[r] \in Ended \/ r \in turned' \/ Closed(r) \/ MessageCarries(r)',
         UNCHANGED <<scan, outbox, pass, up>>,
         worker' = [worker EXCEPT ![w] = worker'[w]], worker'[w].at # "ack"
  PROVE  CarryInv'
<1>1. Unfinished' = Unfinished /\ Unfinished \subseteq Handler
  BY DEF Unfinished
<1>2. \A v \in Worker : worker[v].at = "claimed" => worker'[v] = worker[v]
  BY DEF TypesInv, WorkerTypes
<1>3. ASSUME NEW s \in Unfinished', MessageCarries(s), s \notin turned', ~Closed(s)'
      PROVE  MessageCarries(s)'
  <2>1. PICK j \in DOMAIN msg :
          /\ msg[j].scan = s
          /\ \/ msg[j].place \in {"waiting", "pending", "leased", "dead"}
             \/ msg[j].place = "taken" /\ \E v \in Worker : worker[v] = [at |-> "claimed", hand |-> <<j>>]
    BY <1>3 DEF MessageCarries
  <2>2. CASE s = r
    <3>1. scan[s] \notin Ended /\ ~Closed(s)
      BY <1>1, <1>3 DEF Unfinished, Ended
    <3> QED  BY <1>3, <2>2, <3>1
  <2>3. CASE s # r
    <3>1. j \in DOMAIN msg' /\ msg'[j] = msg[j]
      BY <2>1, <2>3 DEF Extends
    <3> QED  BY <1>2, <2>1, <3>1 DEF MessageCarries
  <2> QED  BY <2>2, <2>3
<1>4. \A s \in Unfinished' : MessageCarries(s) => s \in turned' \/ Closed(s)' \/ MessageCarries(s)'
  BY <1>3
<1>5. Unfinished' \subseteq Unfinished /\ \A s \in Handler : scan[s] \in Ended => scan'[s] \in Ended
  BY <1>1
<1>6. worker[w].at # "down" /\ (worker'[w].at = "ack" => scan'[Work(w)'] \in Ended)
  OBVIOUS
<1> QED  BY <1>4, <1>5, <1>6, StepCarries

\* The delivery of the worker that holds the stage stays where it is.
LEMMA HolderCarries ==
  ASSUME TypesInv, NEW w \in Worker, Dismiss(w), NEW s, s = Work(w),
         HeldWithAnother(s, Head(worker[w].hand))
  PROVE  MessageCarries(s)'
<1>1. PICK v \in Worker :
        /\ worker[v].at = "run" /\ Work(v) = s /\ Head(worker[v].hand) # Head(worker[w].hand)
        /\ Here(Head(worker[v].hand))
  BY DEF HeldWithAnother
<1> DEFINE j == Head(worker[v].hand)
<1>2. j \in DOMAIN msg /\ msg[j].scan = s
  BY <1>1, HandOf DEF TypesInv, Busy, Work
<1>3. msg[j].place \in {"leased", "pending"}
  BY <1>1 DEF Here
<1>4. msg'[j] = msg[j] /\ j \in DOMAIN msg'
  BY <1>1, <1>2, DismissTypes DEF Extends
<1> HIDE DEF j
<1> QED  BY <1>2, <1>3, <1>4 DEF MessageCarries

LEMMA WorkerCarries ==
  ASSUME TypesInv, CarryInv, \A s \in Handler : Closed(s) => Closed(s)', NEW w \in Worker, WorkerStep(w)
  PROVE  CarryInv'
<1>1. CASE Take(w) \/ Claim(w) \/ ClaimLease(w) \/ DeadLetter(w)
  BY <1>1, TakeCarries, ClaimCarries, ClaimLeaseCarries, DeadLetterCarries
<1>2. CASE RecoverStale(w)
  <2>1. worker[w].at = "loop" /\ UNCHANGED <<scan, outbox, pass, up, turned, worker>>
          /\ \E i \in DOMAIN msg : msg' = Replaced(i)
    BY <1>2, RecoverStaleTypes DEF RecoverStale, store
  <2>2. worker' = [worker EXCEPT ![w] = worker'[w]] /\ worker'[w].at # "ack"
    BY <2>1 DEF TypesInv, WorkerTypes
  <2> QED  BY <2>1, <2>2, ReplacedCarries
<1>3. CASE Fail(w)
  <2>1. worker[w].at = "raise"
    BY <1>3 DEF Fail
  <2> QED  BY <1>3, <2>1, FailTypes, ReplacedCarries
<1>4. CASE Dismiss(w)
  <2> DEFINE r == Work(w)
  <2>1. worker[w].at = "handle" /\ r \in Handler
    BY <1>4, HandOf DEF Dismiss, Starts, TypesInv, Busy
  <2>2. /\ Extends /\ \A j \in DOMAIN msg : msg[j].scan # r => msg'[j] = msg[j]
        /\ turned \subseteq turned' /\ UNCHANGED <<scan, outbox, pass, up>>
        /\ \/ scan[r] \in Ended \/ r \in turned' \/ Closed(r) \/ HeldWithAnother(r, Head(worker[w].hand))
        /\ worker' = [worker EXCEPT ![w] = worker'[w]] /\ worker'[w].at # "ack"
    BY <1>4, DismissTypes
  <2> PICK s \in Handler : s = r
    BY <2>1
  <2>3. HeldWithAnother(s, Head(worker[w].hand)) => MessageCarries(s)'
    BY <1>4, HolderCarries
  <2> HIDE DEF r
  <2>4. scan[s] \in Ended \/ s \in turned' \/ Closed(s) \/ MessageCarries(s)'
    BY <2>2, <2>3
  <2> QED  BY <2>1, <2>2, <2>4, AcknowledgedCarries
<1>5. CASE Acknowledge(w)
  <2>1. worker[w].at = "ack" /\ scan[Work(w)] \in Ended /\ Work(w) \in Handler
    BY <1>5, HandOf DEF Acknowledge, CarryInv, TypesInv, Busy
  <2>2. /\ Extends /\ \A j \in DOMAIN msg : msg[j].scan # Work(w) => msg'[j] = msg[j]
        /\ UNCHANGED <<scan, outbox, pass, turned, up>>
        /\ worker' = [worker EXCEPT ![w] = worker'[w]] /\ worker'[w].at # "ack"
    BY <1>5, AcknowledgeTypes
  <2> PICK s \in Handler : s = Work(w)
    BY <2>1
  <2> QED  BY <2>1, <2>2, AcknowledgedCarries
<1>6. CASE Enter(w) \/ RunDecides(w) \/ RunRaises(w) \/ BreaksOff(w)
  <2>1. /\ UNCHANGED <<scan, outbox, pass, msg, turned, up>>
        /\ worker[w].at \notin {"down", "claimed"}
        /\ worker' = [worker EXCEPT ![w] = worker'[w]] /\ worker'[w].at # "ack"
    BY <1>6, RunTypes
  <2> QED  BY <2>1, ReplacedCarries
<1>7. CASE RunEnds(w)
  <2>1. /\ Committed' = Committed /\ Unfinished' = Unfinished \ {Work(w)}
        /\ \A s \in Handler : scan[s] \in Ended => scan'[s] \in Ended
        /\ scan'[Work(w)] \in Ended
        /\ UNCHANGED <<outbox, pass, msg, turned, up>>
        /\ worker' = [worker EXCEPT ![w] = [at |-> "ack", hand |-> worker[w].hand]]
        /\ worker[w].at = "close"
    BY <1>7, RunEndsTypes DEF RunEnds
  <2>2. worker'[w] = [at |-> "ack", hand |-> worker[w].hand]
          /\ \A v \in Worker : worker[v].at = "claimed" => worker'[v] = worker[v]
    BY <2>1 DEF TypesInv, WorkerTypes
  <2>3. Work(w)' = Work(w)
    BY <2>1, <2>2 DEF Work
  <2>4. Extends
    BY <2>1, Same DEF TypesInv
  <2>5. \A s \in Unfinished' : MessageCarries(s) => MessageCarries(s)'
    BY <2>1, <2>2 DEF MessageCarries
  <2>6. worker' = [worker EXCEPT ![w] = worker'[w]]
    BY <2>1, <2>2
  <2> QED  BY <2>1, <2>3, <2>4, <2>5, <2>6, StepCarries
<1> QED  BY <1>1, <1>2, <1>3, <1>4, <1>5, <1>6, <1>7 DEF WorkerStep

\* The row of the new scan is due.
LEMMA InsertsCarries ==
  ASSUME TypesInv, CarryInv, NEW h \in Handler, Committed = {}, Inserts(h), TypesInv', UNCHANGED <<pass, broker>>
  PROVE  CarryInv'
<1>1. outbox \in Seq(OutboxRow) /\ outbox' = Append(outbox, Row(h)) /\ Row(h) \in OutboxRow
  BY DEF TypesInv, OutboxTypes, Inserts, Row, OutboxRow
<1> DEFINE n == Len(outbox) + 1
<1>2. n \in DOMAIN outbox' /\ n \notin DOMAIN outbox /\ outbox'[n] = Row(h)
  BY <1>1
<1>3. Unfinished' = {h}
  BY DEF Unfinished, Committed, Inserts, TypesInv, StoreTypes
<1>4. \A d \in Dispatcher : n \notin pass'[d].sent
  BY <1>2 DEF TypesInv, PassTypes
<1> HIDE DEF n
<1>5. RowCarries(h)'
  <2>1. outbox'[n].scan = h /\ outbox'[n].state = "PENDING"
    BY <1>2 DEF Row
  <2> QED  BY <1>2, <1>4, <2>1 DEF RowCarries
<1>6. ASSUME NEW v \in Worker, worker'[v].at = "ack" PROVE scan'[Work(v)'] \in Ended
  <2>1. worker[v].at = "ack"
    BY <1>6 DEF broker
  <2>2. Work(v) \in Committed
    BY <2>1, HandOf DEF TypesInv, Busy
  <2> QED  BY <2>2
<1> QED  BY <1>3, <1>5, <1>6 DEF CarryInv

\* A step that neither touches the transport nor the rows, the scans or the processes.
LEMMA StillCarries ==
  ASSUME CarryInv, \A s \in Handler : Closed(s) => Closed(s)',
         UNCHANGED <<scan, outbox, pass, msg, worker, turned, up>>
  PROVE  CarryInv'
<1>1. Unfinished' = Unfinished /\ Unfinished \subseteq Handler
  BY DEF Unfinished
<1> QED  BY <1>1 DEF CarryInv, Down, RowCarries, MessageCarries, Work

\* What a pass sends becomes a message; what it could not send stays a row.
LEMMA PublishCarries ==
  ASSUME TypesInv, CarryInv, NEW d \in Dispatcher, Publish(d)
  PROVE  CarryInv'
<1>1. Due \subseteq 1 .. Len(outbox) /\ Len(outbox) \in Nat /\ Due \subseteq DOMAIN outbox
  BY DueType
<1>2. PICK lost \in SUBSET Due :
        /\ pass' = [pass EXCEPT ![d] = [on |-> TRUE, tried |-> [i \in Due |-> outbox[i].attempts],
                                         sent |-> Due \ lost]]
        /\ \E q \in InOrder(Due \ lost) :
             msg' = msg \o [i \in DOMAIN q |-> Message(outbox[q[i]].scan, 0)]
  BY DEF Publish
<1>3. PICK q \in InOrder(Due \ lost) : msg' = msg \o [i \in DOMAIN q |-> Message(outbox[q[i]].scan, 0)]
  BY <1>2
<1> DEFINE new == [i \in DOMAIN q |-> Message(outbox[q[i]].scan, 0)]
           n == Cardinality(Due \ lost)
<1>4. n \in Nat /\ q \in [1 .. n -> Due \ lost] /\ \A x \in Due \ lost : \E i \in DOMAIN q : q[i] = x
  <2>1. Due \ lost \in SUBSET (1 .. Len(outbox))
    BY <1>1
  <2> QED  BY <1>1, <2>1, InOrderIsAll
<1>5. \A i \in DOMAIN outbox : outbox[i].scan \in Committed /\ outbox[i].scan \in Handler
  BY DEF TypesInv, OutboxTypes, Committed
<1>6. \A k \in 1 .. n : new[k] \in Entries /\ new[k].scan \in Committed
                          /\ new[k].scan = outbox[q[k]].scan /\ new[k].place = "waiting"
  BY <1>1, <1>4, <1>5 DEF Message, Entries, Place
<1>7. new \in Seq(Entries) /\ DOMAIN new = 1 .. n /\ DOMAIN q = 1 .. n
  <2>1. DOMAIN new = 1 .. n /\ new = [k \in 1 .. n |-> new[k]]
    BY <1>4
  <2> HIDE DEF new, n
  <2>2. new \in [1 .. n -> Entries]
    BY <1>6, <2>1
  <2> QED  BY <1>4, <2>1, <2>2
<1>8. msg' = msg \o new
  BY <1>3
<1> HIDE DEF new, n
<1>9. /\ Extends
      /\ \A i \in DOMAIN msg : msg'[i] = msg[i]
      /\ \A k \in 1 .. n : Len(msg) + k \in DOMAIN msg' /\ msg'[Len(msg) + k] = new[k]
  BY <1>6, <1>7, <1>8, Appended DEF TypesInv
<1>10. UNCHANGED <<scan, outbox, worker, turned, up>> /\ Unfinished' = Unfinished
         /\ \A s \in Handler : Closed(s)' = Closed(s)
  BY DEF Publish, store, Unfinished, Closed
<1>11. ASSUME NEW v \in Worker, worker'[v].at = "ack" PROVE scan'[Work(v)'] \in Ended
  <2>1. worker[v].at = "ack" /\ worker'[v] = worker[v]
    BY <1>10, <1>11
  <2>2. Head(worker[v].hand) \in DOMAIN msg
    BY <2>1, HandOf DEF TypesInv, Busy
  <2>3. Work(v)' = Work(v)
    BY <1>9, <2>1, <2>2 DEF Work
  <2> QED  BY <1>10, <2>1, <2>3 DEF CarryInv
<1>12. \A s \in Handler : MessageCarries(s) => MessageCarries(s)'
  BY <1>9, <1>10 DEF MessageCarries, Extends
<1>13. ASSUME NEW s \in Handler, RowCarries(s) PROVE RowCarries(s)' \/ MessageCarries(s)'
  <2>1. PICK i \in DOMAIN outbox :
          /\ outbox[i].scan = s /\ outbox[i].state \in {"PENDING", "FAILED"}
          /\ \A e \in Dispatcher : i \notin pass[e].sent
    BY <1>13 DEF RowCarries
  <2>2. CASE i \in Due \ lost
    <3>1. PICK k \in 1 .. n : q[k] = i
      BY <1>4, <1>7, <2>2
    <3>2. Len(msg) + k \in DOMAIN msg' /\ msg'[Len(msg) + k] = new[k]
            /\ new[k].scan = s /\ new[k].place = "waiting"
      BY <1>6, <1>9, <2>1, <3>1
    <3> QED  BY <3>2 DEF MessageCarries
  <2>3. CASE i \notin Due \ lost
    <3>1. \A e \in Dispatcher : i \notin pass'[e].sent
      BY <1>2, <2>1, <2>3 DEF TypesInv, PassTypes
    <3> QED  BY <1>10, <2>1, <3>1 DEF RowCarries
  <2> QED  BY <2>2, <2>3
<1>14. Down' = Down
  BY <1>10 DEF Down
<1> QED  BY <1>10, <1>11, <1>12, <1>13, <1>14 DEF CarryInv, Unfinished

LEMMA PublishEndsCarries ==
  ASSUME TypesInv, CarryInv, NEW d \in Dispatcher, PublishCommit(d) \/ PublishRollback(d)
  PROVE  CarryInv'
<1>1. pass' = [pass EXCEPT ![d] = NoPass] /\ UNCHANGED <<scan, msg, worker, turned, up>>
  BY DEF PublishCommit, PublishRollback, store, broker
<1>2. \A e \in Dispatcher : pass'[e].sent \subseteq pass[e].sent
  BY <1>1 DEF TypesInv, PassTypes, NoPass
<1>3. ASSUME NEW s \in Handler, RowCarries(s) PROVE RowCarries(s)'
  <2>1. PICK i \in DOMAIN outbox :
          /\ outbox[i].scan = s /\ outbox[i].state \in {"PENDING", "FAILED"}
          /\ \A e \in Dispatcher : i \notin pass[e].sent
    BY <1>3 DEF RowCarries
  <2>2. i \in DOMAIN outbox' /\ outbox'[i].scan = s /\ outbox'[i].state \in {"PENDING", "FAILED"}
    <3>1. CASE PublishCommit(d)
      <4>1. pass[d].on /\ outbox' = [j \in DOMAIN outbox |-> Dispatched(pass[d], j)]
        BY <3>1 DEF PublishCommit
      <4>2. outbox'[i] = Dispatched(pass[d], i) /\ i \in DOMAIN outbox'
        BY <4>1
      <4> QED  BY <2>1, <4>1, <4>2, DispatchedRow
    <3>2. CASE PublishRollback(d)
      BY <2>1, <3>2 DEF PublishRollback
    <3> QED  BY <3>1, <3>2
  <2> QED  BY <1>2, <2>1, <2>2 DEF RowCarries
<1>4. \A s \in Handler : MessageCarries(s) => MessageCarries(s)'
  BY <1>1 DEF MessageCarries
<1>5. Down' = Down /\ Unfinished' = Unfinished /\ \A s \in Handler : Closed(s)' = Closed(s)
  BY <1>1 DEF Down, Unfinished, Closed, PublishCommit, PublishRollback, broker
<1>6. \A v \in Worker : worker'[v].at = "ack" => scan'[Work(v)'] \in Ended
  BY <1>1 DEF CarryInv, Work
<1> QED  BY <1>1, <1>3, <1>4, <1>5, <1>6 DEF CarryInv, Unfinished

LEMMA ProcessCarries ==
  ASSUME TypesInv, CarryInv,
         (\E w \in Worker : WorkerDies(w) \/ WorkerStarts(w)) \/ ApiDies \/ ApiStarts
  PROVE  CarryInv'
<1>1. UNCHANGED <<scan, msg, turned>>
  BY DEF WorkerDies, WorkerStarts, ApiDies, ApiStarts, store, broker
<1>2. \A v \in Worker : worker'[v].at = "ack" => worker'[v] = worker[v]
  <2>1. ASSUME NEW w \in Worker, WorkerDies(w) PROVE \A v \in Worker : worker'[v].at = "ack" => worker'[v] = worker[v]
    BY <2>1, WorkerDiesTypes DEF TypesInv, WorkerTypes
  <2>2. ASSUME NEW w \in Worker, WorkerStarts(w) PROVE \A v \in Worker : worker'[v].at = "ack" => worker'[v] = worker[v]
    BY <2>2, WorkerStartsTypes
  <2>3. ASSUME ApiDies \/ ApiStarts PROVE UNCHANGED worker
    BY <2>3 DEF ApiDies, ApiStarts, broker
  <2> QED  BY <2>1, <2>2, <2>3
<1>3. \A v \in Worker : worker'[v].at = "ack" => scan'[Work(v)'] \in Ended
  BY <1>1, <1>2 DEF CarryInv, Work
<1>4. Unfinished' = Unfinished /\ \A s \in Handler : Closed(s)' = Closed(s)
  BY <1>1 DEF Unfinished, Closed, WorkerDies, WorkerStarts, ApiDies, ApiStarts, broker
<1>5. Down' \/ \A s \in Unfinished : RowCarries(s)'
  <2>1. ASSUME NEW w \in Worker, WorkerDies(w) PROVE Down'
    BY <2>1, WorkerDiesTypes DEF Down
  <2>2. ASSUME ApiDies PROVE Down'
    BY <2>2 DEF ApiDies, Down
  <2> QED  BY <2>1, <2>2, WorkerStartsTypes, ApiStartsTypes
<1> QED  BY <1>3, <1>4, <1>5 DEF CarryInv

LEMMA RequestCarries ==
  ASSUME TypesInv, LockInv, CarryInv, NEW h \in Handler, Request(h)
  PROVE  CarryInv'
<1>1. CASE (Commit(h) \/ CommitFails(h)) /\ Inserts(h)
  <2>1. Committed = {} /\ UNCHANGED <<pass, broker>>
    BY <1>1 DEF Commit, CommitFails, LockInv
  <2> QED  BY <1>1, <2>1, CommitTypes, CommitFailsTypes, InsertsCarries
<1>2. CASE ~((Commit(h) \/ CommitFails(h)) /\ Inserts(h))
  <2>1. UNCHANGED <<scan, outbox, pass, msg, worker, stage, turned, up>>
    BY <1>2 DEF Request, ReadGrant, Lookup, Insert, Commit, CommitFails, Recheck, NothingToPublish, Respond,
                HandlerFails, Retry, store, broker
  <2> QED  BY <2>1, StillCarries DEF Closed
<1> QED  BY <1>1, <1>2

LEMMA NextCarry ==
  TypesInv /\ LockInv /\ StageInv /\ HoldInv /\ CarryInv /\ [Next]_vars => CarryInv'
<1> SUFFICES ASSUME TypesInv, LockInv, StageInv, HoldInv, CarryInv, [Next]_vars PROVE CarryInv'
  OBVIOUS
<1>0. \A s \in Handler : Closed(s) => Closed(s)'
  BY ClosedStays
<1>1. ASSUME NEW s \in Handler, LeaseExpires(s) \/ Reap(s) \/ Purge(s) PROVE CarryInv'
  <2>1. UNCHANGED <<scan, outbox, pass, msg, worker, turned, up>>
    BY <1>1 DEF LeaseExpires, Reap, Purge, Purges, store, broker
  <2> QED  BY <1>0, <2>1, StillCarries
<1>2. ASSUME UNCHANGED vars PROVE CarryInv'
  BY <1>0, <1>2, StillCarries DEF vars
<1>3. ASSUME NEW d \in Dispatcher, Publish(d) \/ PublishCommit(d) \/ PublishRollback(d) PROVE CarryInv'
  BY <1>3, PublishCarries, PublishEndsCarries
<1>4. ASSUME NEW w \in Worker, WorkerStep(w) PROVE CarryInv'
  BY <1>0, <1>4, WorkerCarries
<1> QED  BY <1>1, <1>2, <1>3, <1>4, RequestCarries, ProcessCarries DEF Next

\* What the row, the message or the stage says is what the reader of the queue sees.
LEMMA CarryFollows == TypesInv /\ StageInv /\ CarryInv => CarriedOrStranded
<1> SUFFICES ASSUME TypesInv, StageInv, CarryInv, NEW s \in Unfinished, s \notin turned, ~Carried(s)
             PROVE  \/ stage[s].state = "EXHAUSTED" /\ stage[s].runs >= MaxRuns
                    \/ stage[s].state = "DECIDED" /\ spent.crashes + spent.faults > 0
  BY DEF CarriedOrStranded
<1>1. ~RowCarries(s)
  BY DEF RowCarries, Carried, Inspectable, Pending
<1>2. ~MessageCarries(s)
  <2> SUFFICES ASSUME MessageCarries(s) PROVE FALSE
    OBVIOUS
  <2>1. PICK i \in DOMAIN msg :
          /\ msg[i].scan = s
          /\ \/ msg[i].place \in {"waiting", "pending", "leased", "dead"}
             \/ msg[i].place = "taken" /\ \E v \in Worker : worker[v] = [at |-> "claimed", hand |-> <<i>>]
    BY DEF MessageCarries
  <2>2. CASE msg[i].place = "dead"
    BY <2>1, <2>2 DEF Carried, Inspectable, At
  <2>3. CASE msg[i].place \in {"waiting", "pending", "leased"}
    BY <2>1, <2>3 DEF Carried, At
  <2>4. ASSUME NEW v \in Worker, worker[v] = [at |-> "claimed", hand |-> <<i>>] PROVE FALSE
    <3>1. worker[v].at = "claimed" /\ Work(v) = s
      BY <2>1, <2>4 DEF Work
    <3> QED  BY <3>1 DEF Carried, AtWork
  <2> QED  BY <2>1, <2>2, <2>3, <2>4
<1>3. Closed(s) /\ s \in Handler /\ scan[s] \notin Ended
  BY <1>1, <1>2 DEF CarryInv, Carried, Unfinished, Ended
<1>4. ~Closing(s)
  BY DEF Carried, AtWork, Closing
<1>5. stage[s].state \in {"DECIDED", "EXHAUSTED"}
  BY <1>3 DEF Closed, StageInv
<1> QED  BY <1>3, <1>4, <1>5 DEF StageInv

\* An accepted scan that has not ended is carried by a row, a message or a worker, or shows
\* that it needs help, or is stranded in one of three ways: turned away while its stage was
\* held, out of its stage's budget, or decided by a worker that died or broke off before
\* it ended the scan (create_scan, run_scan, worker.py).
THEOREM NothingIsLost == Spec => []CarriedOrStranded
<1>1. Init => StageInv /\ HoldInv /\ CarryInv
  BY InitStage, InitHold, InitCarry
<1>2. (TypesInv /\ LockInv) /\ (StageInv /\ HoldInv /\ CarryInv) /\ [Next]_vars =>
        (StageInv /\ HoldInv /\ CarryInv)'
  BY NextStage, NextHold, NextCarry
<1> QED  BY <1>1, <1>2, CarryFollows, DeliveryInvariant, PTL DEF Spec

--------------------------------------------------------------------------------
(* What the clients are promised. *)

Digests == [h \in Handler |-> handler[h].digest]
Replies == [h \in Handler |-> Told(h)]

LEMMA HoldersAre == Acceptance!Holders = Committed /\ Acceptance!Holders' = Committed'
  BY DEF Acceptance!Holders, Committed

\* A request in it has not been answered.
LEMMA WaitsUntilDone ==
  ASSUME NEW h \in Handler, handler[h].at # "done"
  PROVE  Told(h) = Acceptance!Waiting(h)
  BY DEF Told, Acceptance!Waiting

LEMMA WaitsAfter ==
  ASSUME NEW h \in Handler, handler'[h].at # "done"
  PROVE  Told(h)' = Acceptance!Waiting(h)
  BY DEF Told, Acceptance!Waiting

LEMMA ToldAfter ==
  ASSUME NEW h \in Handler, NEW code, NEW s, NEW digest,
         handler'[h] = [at |-> "done", digest |-> digest, answer |-> code, scan |-> s]
  PROVE  Told(h)' = [code |-> code, of |-> IF code \in {202, 409} THEN s ELSE h]
<1>1. handler'[h].at = "done" /\ handler'[h].answer = code /\ handler'[h].scan = s
  OBVIOUS
<1> QED  BY <1>1 DEF Told

LEMMA OneHears ==
  ASSUME TypesInv, NEW h \in Handler, handler'[h].digest = handler[h].digest,
         \A g \in Handler : g # h => handler'[g] = handler[g]
  PROVE  Digests' = Digests /\ Replies' = [Replies EXCEPT ![h] = Told(h)']
<1>1. \A g \in Handler : g # h => Told(g)' = Told(g)
  BY DEF Told
<1>2. \A g \in Handler : handler'[g].digest = handler[g].digest
  OBVIOUS
<1>3. Digests' = Digests
  BY <1>2 DEF Digests
<1>4. Replies' = [g \in Handler |-> Told(g)']
  BY DEF Replies
<1>5. [Replies EXCEPT ![h] = Told(h)'] = [g \in Handler |-> IF g = h THEN Told(h)' ELSE Told(g)]
  BY DEF Replies
<1> QED  BY <1>1, <1>3, <1>4, <1>5

\* Between two places inside a request nothing is heard.
LEMMA GoesQuietly ==
  ASSUME TypesInv, NEW h \in Handler, handler[h].at # "done",
         NEW at \in Inside, Goes(h, at)
  PROVE  UNCHANGED <<Digests, Replies>>
<1>1. handler'[h].at # "done" /\ handler'[h].digest = handler[h].digest
        /\ \A g \in Handler : g # h => handler'[g] = handler[g]
  BY GoesForm DEF Inside
<1>2. Told(h)' = Told(h)
  BY <1>1, WaitsUntilDone, WaitsAfter
<1>3. Replies' = [Replies EXCEPT ![h] = Told(h)] /\ Digests' = Digests
  BY <1>1, <1>2, OneHears
<1>4. Replies[h] = Told(h)
  BY DEF Replies
<1> QED  BY <1>3, <1>4 DEF Replies

\* What one request answers is what its client hears.
LEMMA AnswersHeard ==
  ASSUME TypesInv, NEW h \in Handler, handler[h].at # "done", NEW code, NEW s, Answers(h, code, s)
  PROVE  /\ Digests' = Digests
         /\ Replies[h] = Acceptance!Waiting(h)
         /\ Replies' = [Replies EXCEPT ![h] = [code |-> code, of |-> IF code \in {202, 409} THEN s ELSE h]]
<1>1. /\ handler'[h] = [at |-> "done", digest |-> handler[h].digest, answer |-> code, scan |-> s]
      /\ \A g \in Handler : g # h => handler'[g] = handler[g]
  BY AnswersForm
<1>2. handler'[h].digest = handler[h].digest
  BY <1>1
<1>3. Told(h)' = [code |-> code, of |-> IF code \in {202, 409} THEN s ELSE h]
  BY <1>1, ToldAfter
<1>4. Replies[h] = Acceptance!Waiting(h)
  BY WaitsUntilDone DEF Replies
<1> QED  BY <1>1, <1>2, <1>3, <1>4, OneHears

LEMMA RefusesOne ==
  ASSUME TypesInv, NEW h \in Handler, handler[h].at # "done", NEW code \in {404, 429, 500},
         Answers(h, code, h), UNCHANGED scan
  PROVE  Acceptance!AcceptNext
<1>1. /\ Digests' = Digests /\ Replies[h] = Acceptance!Waiting(h)
      /\ Replies' = [Replies EXCEPT ![h] = [code |-> code, of |-> h]]
  BY AnswersHeard
<1>2. Acceptance!Refusal(h, code) = [code |-> code, of |-> h]
  BY DEF Acceptance!Refusal
<1>3. Replies = [g \in Handler |-> Replies[g]]
  BY DEF Replies
<1>4. Replies' = [g \in Handler |-> IF g \in {h} THEN Acceptance!Refusal(g, code) ELSE Replies[g]]
  BY <1>1, <1>2, <1>3
<1>5. Acceptance!Refuse({h}, code)
  BY <1>1, <1>4 DEF Acceptance!Refuse, Replies, Digests
<1> QED  BY <1>5 DEF Acceptance!AcceptNext

\* The scan that has the key, to whoever asks for the same, and a conflict to the others.
LEMMA AnswersWithScan ==
  ASSUME TypesInv, NEW h \in Handler, handler[h].at # "done", NEW s \in Committed, UNCHANGED scan,
         Answers(h, IF handler[s].digest = handler[h].digest THEN 202 ELSE 409, s)
  PROVE  Acceptance!AcceptNext
<1> DEFINE code == IF handler[s].digest = handler[h].digest THEN 202 ELSE 409
<1>1. code \in {202, 409} /\ s \in Handler
  BY DEF Committed
<1>2. code = IF Digests[s] = Digests[h] THEN 202 ELSE 409
  BY <1>1 DEF Digests
<1> HIDE DEF code
<1>3. /\ Digests' = Digests /\ Replies[h] = Acceptance!Waiting(h)
      /\ Replies' = [Replies EXCEPT ![h] = [code |-> code, of |-> s]]
  BY <1>1, AnswersHeard DEF code
<1>4. Acceptance!Answer(h, s)
  BY <1>2, <1>3 DEF Acceptance!Answer, Acceptance!Hears, Digests, Replies
<1>5. s \in Acceptance!Holders
  BY HoldersAre
<1> QED  BY <1>4, <1>5 DEF Acceptance!AcceptNext

LEMMA ReplaysScan ==
  ASSUME TypesInv, NEW h \in Handler, handler[h].at # "done", Committed # {}, Replays(h), UNCHANGED scan
  PROVE  Acceptance!AcceptNext
<1> PICK s \in Committed :
      Answers(h, IF handler[s].digest = handler[h].digest THEN 202 ELSE 409, s)
  BY ReplaysAnswers
<1> QED  BY AnswersWithScan

LEMMA InitKeepsAcceptance == Init => Acceptance!AcceptInit
<1> SUFFICES ASSUME Init PROVE Acceptance!AcceptInit
  OBVIOUS
<1>1. scan = [h \in Handler |-> IF h \in setup.accepted THEN "QUEUED" ELSE "NONE"]
        /\ setup \in Setups
  BY DEF Init
<1>2. setup.accepted \subseteq Handler \ setup.requests /\ \A s, t \in setup.accepted : s = t
  BY <1>1, DeliveryAssumption
<1>3. Committed = setup.accepted
  BY <1>1, <1>2 DEF Committed
<1>4. PICK digest \in [Handler -> 1 .. 2] :
        handler = [h \in Handler |->
                    [at |-> IF h \in setup.requests THEN Entry ELSE "done", digest |-> digest[h],
                     answer |-> IF h \in setup.accepted THEN 202 ELSE 0, scan |-> h]]
  BY DEF Init
<1>5. ASSUME NEW h \in Handler
      PROVE  Told(h) = Acceptance!Waiting(h) \/ (h \in Committed /\ Told(h) = [code |-> 202, of |-> h])
  <2>1. handler[h].answer = (IF h \in setup.accepted THEN 202 ELSE 0) /\ handler[h].scan = h
    BY <1>4
  <2> QED  BY <1>3, <2>1 DEF Told, Acceptance!Waiting
<1>6. scan \in [Handler -> {"NONE", "QUEUED"}]
  BY <1>1
<1> QED  BY <1>2, <1>3, <1>5, <1>6, HoldersAre DEF Acceptance!AcceptInit

LEMMA RequestKeepsAcceptance ==
  ASSUME TypesInv, LockInv, KeyInv, NEW h \in Handler, Request(h)
  PROVE  [Acceptance!AcceptNext]_<<Digests, scan, Replies>>
<1>1. CASE ReadGrant(h) \/ Lookup(h)
  <2>1. UNCHANGED scan /\ handler[h].at # "done"
    BY <1>1 DEF ReadGrant, Lookup, store
  <2>2. CASE Goes(h, "lookup") \/ Goes(h, "insert")
    BY <2>1, <2>2, GoesQuietly DEF Inside
  <2>3. CASE Answers(h, 404, h) \/ Answers(h, 429, h)
    BY <2>1, <2>3, RefusesOne
  <2>4. CASE Committed # {} /\ Replays(h)
    BY <2>1, <2>4, ReplaysScan
  <2> QED  BY <1>1, <2>2, <2>3, <2>4 DEF ReadGrant, Lookup
<1>2. CASE Commit(h) \/ CommitFails(h)
  <2>1. Acceptance!Holders = {} /\ handler[h].at # "done"
    BY <1>2, HoldersAre DEF Commit, CommitFails, LockInv
  <2>2. Replies[h] = Acceptance!Waiting(h)
    BY <2>1, WaitsUntilDone DEF Replies
  <2>3. UNCHANGED <<Digests, Replies>>
    BY <1>2, <2>1, GoesQuietly DEF Commit, CommitFails, Inside
  <2>4. CASE scan' = [scan EXCEPT ![h] = "QUEUED"]
    <3>1. Acceptance!Bind(h)
      BY <2>1, <2>2, <2>3, <2>4 DEF Acceptance!Bind, Digests, Replies
    <3> QED  BY <3>1 DEF Acceptance!AcceptNext
  <2> QED  BY <1>2, <2>3, <2>4 DEF Commit, CommitFails, Inserts
<1>3. CASE Insert(h) \/ Recheck(h)
  <2>1. UNCHANGED scan /\ handler[h].at # "done"
    BY <1>3 DEF Insert, Recheck, store
  <2>2. CASE Goes(h, "commit")
    BY <2>1, <2>2, GoesQuietly DEF Inside
  <2>3. CASE Answers(h, 500, h)
    BY <2>1, <2>3, RefusesOne
  <2>4. CASE Committed # {} /\ Replays(h)
    BY <2>1, <2>4, ReplaysScan
  <2> QED  BY <1>3, <2>2, <2>3, <2>4 DEF Insert, Recheck
<1>4. CASE NothingToPublish(h)
  <2>1. Goes(h, "published") /\ handler[h].at # "done" /\ UNCHANGED scan
    BY <1>4 DEF NothingToPublish, store
  <2> QED  BY <2>1, GoesQuietly DEF Inside
<1>5. CASE Respond(h)
  <2>1. Answers(h, 202, h) /\ handler[h].at # "done" /\ UNCHANGED scan /\ h \in Committed
    BY <1>5 DEF Respond, store, KeyInv
  <2>2. Answers(h, IF handler[h].digest = handler[h].digest THEN 202 ELSE 409, h)
    BY <2>1
  <2> QED  BY <2>1, <2>2, AnswersWithScan
<1>6. CASE HandlerFails(h)
  <2>1. Answers(h, 500, h) /\ handler[h].at # "done" /\ UNCHANGED scan
    BY <1>6 DEF HandlerFails, store
  <2> QED  BY <2>1, RefusesOne
<1>7. CASE Retry(h)
  <2>1. Goes(h, Entry) /\ Entry # "done" /\ UNCHANGED scan
          /\ handler[h].at = "done" /\ handler[h].answer = 500
    BY <1>7 DEF Retry, Entry, store
  <2>2. handler'[h].at # "done" /\ handler'[h].digest = handler[h].digest
          /\ \A g \in Handler : g # h => handler'[g] = handler[g]
    BY <2>1, GoesForm
  <2>3. Replies[h] = Acceptance!Refusal(h, 500)
    BY <2>1 DEF Replies, Told, Acceptance!Refusal
  <2>4. Digests' = Digests /\ Replies' = [Replies EXCEPT ![h] = Acceptance!Waiting(h)]
    BY <2>2, OneHears, WaitsAfter
  <2>5. Acceptance!Resend(h)
    BY <2>1, <2>3, <2>4 DEF Acceptance!Resend, Digests, Replies
  <2> QED  BY <2>5 DEF Acceptance!AcceptNext
<1> QED  BY <1>1, <1>2, <1>3, <1>4, <1>5, <1>6, <1>7 DEF Request

\* What the clients do not see, and the end of a scan, which they do.
LEMMA EngineKeepsAcceptance ==
  ASSUME TypesInv, HoldInv, Engine
  PROVE  [Acceptance!AcceptNext]_<<Digests, scan, Replies>>
<1>1. UNCHANGED <<Digests, Replies>>
  <2>1. CASE UNCHANGED handler
    BY <2>1 DEF Digests, Replies, Told
  <2>2. ASSUME NEW h \in Handler, handler[h].at = "publish", Goes(h, "published")
        PROVE  UNCHANGED <<Digests, Replies>>
    BY <2>2, GoesQuietly DEF Inside
  <2> QED  BY <2>1, <2>2, EngineFrame
<1>2. ASSUME NEW w \in Worker, RunEnds(w) PROVE Acceptance!AcceptNext
  <2>1. scan[Work(w)] = "QUEUED"
    BY <1>2 DEF RunEnds, HoldInv
  <2>2. PICK end \in {"COMPLETED", "FAILED"} : scan' = [scan EXCEPT ![Work(w)] = end]
    BY <1>2 DEF RunEnds, Ended
  <2>3. Work(w) \in Handler
    BY <1>2, HandOf DEF TypesInv, RunEnds, Busy
  <2>4. Acceptance!End(Work(w), end)
    BY <1>1, <2>1, <2>2 DEF Acceptance!End, Digests, Replies
  <2> QED  BY <2>3, <2>4 DEF Acceptance!AcceptNext
<1>3. ASSUME ~\E w \in Worker : RunEnds(w) PROVE UNCHANGED scan
  <2>1. ASSUME NEW w \in Worker, WorkerStep(w) PROVE UNCHANGED scan
    BY <1>3, <2>1 DEF WorkerStep, Take, Claim, ClaimLease, RecoverStale, DeadLetter, Enter, Dismiss, RunDecides,
                      RunRaises, BreaksOff, Acknowledge, Fail, store
  <2> QED  BY <2>1 DEF Engine, Publish, PublishCommit, PublishRollback, WorkerDies, WorkerStarts, LeaseExpires,
                       Reap, ApiStarts, vars, store
<1> QED  BY <1>1, <1>2, <1>3

LEMMA DeathKeepsAcceptance ==
  ASSUME TypesInv, ApiDies
  PROVE  Acceptance!AcceptNext
<1> DEFINE C == {h \in Handler : handler[h].at # "done"}
<1>1. UNCHANGED scan
  BY DEF ApiDies, store
<1>2. ASSUME NEW h \in Handler
      PROVE  /\ handler'[h].digest = handler[h].digest
             /\ Told(h)' = IF h \in C THEN Acceptance!Refusal(h, 500) ELSE Told(h)
             /\ h \in C => Replies[h] = Acceptance!Waiting(h)
  <2>1. CASE handler[h].at = "done"
    <3>1. handler'[h] = handler[h]
      BY <2>1, DeathForm
    <3> QED  BY <2>1, <3>1 DEF Told
  <2>2. CASE handler[h].at # "done"
    <3>1. handler'[h].at = "done" /\ handler'[h].answer = 500 /\ handler'[h].digest = handler[h].digest
      BY <2>2, DeathForm
    <3> QED  BY <2>2, <3>1, WaitsUntilDone DEF Told, Replies, Acceptance!Refusal
  <2> QED  BY <2>1, <2>2
<1>3. Digests' = Digests
  BY <1>2 DEF Digests
<1> HIDE DEF C
<1>4. C \in SUBSET Handler /\ 500 \in {404, 429, 500}
  BY DEF C
<1>5. \A h \in C : Replies[h] = Acceptance!Waiting(h)
  BY <1>2, <1>4
<1>6. Replies' = [h \in Handler |-> IF h \in C THEN Acceptance!Refusal(h, 500) ELSE Replies[h]]
  BY <1>2 DEF Replies
<1>7. Acceptance!Refuse(C, 500)
  BY <1>1, <1>3, <1>5, <1>6 DEF Acceptance!Refuse, Replies, Digests
<1> QED  BY <1>4, <1>7 DEF Acceptance!AcceptNext

LEMMA StepKeepsAcceptance ==
  TypesInv /\ LockInv /\ KeyInv /\ HoldInv /\ [Next]_vars => [Acceptance!AcceptNext]_Acceptance!acceptVars
<1> SUFFICES ASSUME TypesInv, LockInv, KeyInv, HoldInv, [Next]_vars
             PROVE  [Acceptance!AcceptNext]_<<Digests, scan, Replies>>
  BY DEF Acceptance!acceptVars, Digests, Replies
<1>1. ASSUME NEW h \in Handler, Purge(h) PROVE UNCHANGED <<Digests, scan, Replies>>
  <2>1. UNCHANGED <<handler, scan>>
    BY <1>1 DEF Purge, Purges, intake
  <2> QED  BY <2>1 DEF Digests, Replies, Told
<1> QED  BY <1>1, NextKinds, RequestKeepsAcceptance, EngineKeepsAcceptance, DeathKeepsAcceptance

\* Whatever competes, is retried, lost or restarted, the clients of one key are told of one
\* scan or of a failure, as AcceptedScan promises, and the scan ends once (_create_scan_bytes,
\* _replay_or_conflict, run_scan).
THEOREM DeliveryKeepsAcceptance == Spec => KeepsAcceptance
<1>1. Init => KeyInv /\ StageInv /\ HoldInv /\ Acceptance!AcceptInit
  BY InitKey, InitStage, InitHold, InitKeepsAcceptance
<1>2. (TypesInv /\ LockInv) /\ (KeyInv /\ StageInv /\ HoldInv) /\ [Next]_vars =>
        /\ (KeyInv /\ StageInv /\ HoldInv)'
        /\ [Acceptance!AcceptNext]_Acceptance!acceptVars
  BY NextKey, NextStage, NextHold, StepKeepsAcceptance
<1> QED
  BY <1>1, <1>2, DeliveryInvariant, PTL DEF Spec, KeepsAcceptance, Acceptance!AcceptSpec

================================================================================
