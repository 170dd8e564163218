----------------------------- MODULE WebhooksProofs -----------------------------
(***************************************************************************)
(* What a webhook row says of its attempts is true, for every number of    *)
(* dispatchers, endpoints and events and every budget of attempts: WebhookInv *)
(* is inductive.  It follows each entry of a pass from its selection to the  *)
(* commit, for rows that two passes may hold at once and for quiet ones.     *)
(***************************************************************************)
EXTENDS Webhooks, FiniteSetTheorems, TLAPS

Unfinished == {"PENDING", "RETRYING"}

\* A row that ends was answered, had all its attempts, or lost its endpoint.
Earned(d, r) ==
  /\ r.state = "DELIVERED" => tried[d].answers > 0
  /\ r.state = "DEAD_LETTERED" =>
       tried[d].attempts >= MaxAttempts \/ endpoint[r.endpoint] = "INACTIVE"

\* A row never shows more attempts than were made, and its endpoint was there.
RowOK(d) ==
  /\ delivery[d].attempts <= tried[d].attempts
  /\ endpoint[delivery[d].endpoint] # "NONE"
  /\ Earned(d, delivery[d])

\* An entry of a pass carries an unfinished row that was due.
EntryOK(x) ==
  /\ x.id \in DOMAIN delivery
  /\ x.row.state \in Unfinished /\ x.row.due
  /\ x.row.endpoint = delivery[x.id].endpoint
  /\ x.row.attempts <= tried[x.id].attempts

\* What a pass is going to write is as true as what is written.
DoneOK(x) ==
  /\ x.new.endpoint = x.row.endpoint
  /\ x.new.attempts <= tried[x.id].attempts
  /\ Earned(x.id, x.new)

\* A pass has one entry for a row, either still to post or done.
OneEntryPerRow(p) ==
  /\ \A x, y \in pass[p].todo : x.id = y.id => x = y
  /\ \A x, y \in pass[p].done : x.id = y.id => x = y
  /\ \A x \in pass[p].todo, y \in pass[p].done : x.id # y.id

PassesOK ==
  \A p \in Dispatcher :
    /\ \A x \in pass[p].todo \cup pass[p].done : EntryOK(x)
    /\ \A x \in pass[p].done : DoneOK(x)
    /\ OneEntryPerRow(p)
    /\ \A x \in pass[p].looked : x.state = "INACTIVE" => endpoint[x.endpoint] = "INACTIVE"

\* Within its budget, and with some of it left while it is unfinished.
InBudget(r) == r.attempts <= MaxAttempts /\ (r.state \in Unfinished => r.attempts < MaxAttempts)

\* A quiet row is what the pass that holds it read, and counts every attempt; of an
\* entry that is done the count is in what is about to be written.
QuietRow(d) ==
  /\ InBudget(delivery[d])
  /\ (\A p \in Dispatcher : d \notin Holds(p)) =>
       /\ tried[d].attempts = delivery[d].attempts
       /\ tried[d].answers > 0 => tried[d].answers = 1 /\ delivery[d].state = "DELIVERED"

QuietTodo(x) ==
  /\ x.row = delivery[x.id]
  /\ tried[x.id].attempts = x.row.attempts /\ tried[x.id].answers = 0

QuietDone(x) ==
  /\ x.row = delivery[x.id]
  /\ x.new.attempts \in {x.row.attempts, x.row.attempts + 1}
  /\ InBudget(x.new)
  /\ tried[x.id].attempts = x.new.attempts
  /\ tried[x.id].answers > 0 =>
       tried[x.id].answers = 1 /\ x.new.state = "DELIVERED" /\ x.new.attempts = x.row.attempts + 1

QuietOK ==
  /\ \A d \in DOMAIN delivery \ disturbed : QuietRow(d)
  /\ \A p \in Dispatcher :
       /\ \A x \in pass[p].todo : x.id \notin disturbed => QuietTodo(x)
       /\ \A x \in pass[p].done : x.id \notin disturbed => QuietDone(x)
       /\ \A q \in Dispatcher \ {p} : Holds(p) \cap Holds(q) \subseteq disturbed

WebhookInv ==
  /\ WebhookTypeOK
  /\ \A e \in publisher : endpoint[e] # "NONE"
  /\ \A d \in DOMAIN delivery : RowOK(d)
  /\ PassesOK /\ QuietOK

--------------------------------------------------------------------------------
LEMMA InitInv == Init => WebhookInv
BY WebhookAssumption DEF Init, WebhookInv, WebhookTypeOK, PassesOK, QuietOK, NoPass, Holds, Held,
   OneEntryPerRow, Pass

\* An endpoint that was created is never without a row again, and once it is
\* deactivated it stays so: what a row or an entry says of it stands.
LEMMA EndpointMoves ==
  ASSUME WebhookInv, UNCHANGED <<delivery, publisher, pass, tried, disturbed, events>>,
         endpoint' \in [Endpoint -> {"NONE", "ACTIVE", "INACTIVE"}], troubles' \in Nat,
         \A e \in Endpoint : endpoint[e] # "NONE" => endpoint'[e] # "NONE",
         \A e \in Endpoint : endpoint[e] = "INACTIVE" => endpoint'[e] = "INACTIVE"
  PROVE  WebhookInv'
<1> USE DEF WebhookInv, WebhookTypeOK
<1>1. WebhookTypeOK'
  BY DEF Holds, Held
<1>2. (\A e \in publisher : endpoint[e] # "NONE")'
  OBVIOUS
<1>3. \A d \in DOMAIN delivery : delivery[d] \in Delivery
  OBVIOUS
<1>4. (\A d \in DOMAIN delivery : RowOK(d))'
  BY <1>3 DEF RowOK, Earned, Delivery
<1>5. ASSUME NEW p \in Dispatcher, NEW x \in pass[p].done
      PROVE  x.new \in Delivery
  BY <1>5 DEF Pass
<1>6. ASSUME NEW p \in Dispatcher, NEW x \in pass[p].looked
      PROVE  x.endpoint \in Endpoint
  BY <1>6 DEF Pass
<1>7. PassesOK'
  <2> SUFFICES ASSUME NEW p \in Dispatcher
               PROVE  (/\ \A x \in pass[p].todo \cup pass[p].done : EntryOK(x)
                       /\ \A x \in pass[p].done : DoneOK(x)
                       /\ OneEntryPerRow(p)
                       /\ \A x \in pass[p].looked :
                            x.state = "INACTIVE" => endpoint[x.endpoint] = "INACTIVE")'
    BY DEF PassesOK
  <2>1. (\A x \in pass[p].todo \cup pass[p].done : EntryOK(x))'
    BY DEF PassesOK, EntryOK
  <2>2. (\A x \in pass[p].done : DoneOK(x))'
    BY <1>5 DEF PassesOK, DoneOK, Earned, Delivery
  <2>3. OneEntryPerRow(p)'
    BY DEF PassesOK, OneEntryPerRow
  <2>4. (\A x \in pass[p].looked : x.state = "INACTIVE" => endpoint[x.endpoint] = "INACTIVE")'
    BY <1>6 DEF PassesOK
  <2> QED
    BY <2>1, <2>2, <2>3, <2>4
<1>8. QuietOK'
  BY DEF QuietOK, QuietRow, QuietTodo, QuietDone, Holds, Held
<1> QED
  BY <1>1, <1>2, <1>4, <1>7, <1>8

LEMMA CreateEndpointInv ==
  ASSUME WebhookInv, NEW e \in Endpoint, CreateEndpoint(e)
  PROVE  WebhookInv'
BY EndpointMoves DEF CreateEndpoint, WebhookInv, WebhookTypeOK

LEMMA DeactivateEndpointInv ==
  ASSUME WebhookInv, NEW e \in Endpoint, DeactivateEndpoint(e)
  PROVE  WebhookInv'
BY EndpointMoves DEF DeactivateEndpoint, WebhookInv, WebhookTypeOK

LEMMA QueueReadInv ==
  ASSUME WebhookInv, QueueRead
  PROVE  WebhookInv'
<1> USE DEF WebhookInv, QueueRead, rows, Subscribers
<1>1. WebhookTypeOK'
  BY DEF WebhookTypeOK, Holds, Held
<1>2. (\A d \in DOMAIN delivery : RowOK(d))'
  BY DEF RowOK, Earned
<1>3. PassesOK'
  BY DEF PassesOK, EntryOK, DoneOK, Earned, OneEntryPerRow
<1>4. QuietOK'
  BY DEF QuietOK, QuietRow, QuietTodo, QuietDone, Holds, Held
<1> QED
  BY <1>1, <1>2, <1>3, <1>4

\* Every row has its count of attempts.
LEMMA RowsAreCounted ==
  ASSUME WebhookTypeOK
  PROVE  /\ DOMAIN tried = DOMAIN delivery /\ DOMAIN delivery = 1..Len(delivery)
         /\ DOMAIN delivery \subseteq Nat
         /\ \A d \in DOMAIN delivery : delivery[d] \in Delivery
         /\ \A d \in DOMAIN delivery : tried[d] \in Tries
<1>1. /\ delivery \in Seq(Delivery) /\ tried \in Seq(Tries)
      /\ Len(tried) = Len(delivery)
  BY DEF WebhookTypeOK
<1>2. DOMAIN tried = 1..Len(tried) /\ DOMAIN delivery = 1..Len(delivery) /\ Len(delivery) \in Nat
  BY <1>1
<1>3. \A d \in DOMAIN delivery : delivery[d] \in Delivery
  BY <1>1
<1>4. \A d \in DOMAIN tried : tried[d] \in Tries
  BY <1>1
<1> QED
  BY <1>1, <1>2, <1>3, <1>4

\* The rows of an event follow those that are there.
LEMMA Listed ==
  ASSUME NEW S, NEW n \in Nat, NEW b \in [1..n -> S]
  PROVE  b \in Seq(S) /\ Len(b) = n
OBVIOUS

LEMMA Joined ==
  ASSUME NEW S, NEW a \in Seq(S), NEW b \in Seq(S)
  PROVE  a \o b \in Seq(S) /\ Len(a \o b) = Len(a) + Len(b)
OBVIOUS

LEMMA Appended ==
  ASSUME NEW S, NEW a \in Seq(S), NEW n \in Nat, NEW b \in [1..n -> S]
  PROVE  /\ a \o b \in Seq(S) /\ Len(a \o b) = Len(a) + n
         /\ \A i \in DOMAIN a : (a \o b)[i] = a[i]
         /\ \A i \in DOMAIN (a \o b) \ DOMAIN a : i - Len(a) \in 1..n /\ (a \o b)[i] = b[i - Len(a)]
<1>1. b \in Seq(S) /\ Len(b) = n
  OBVIOUS
<1> QED
  BY <1>1

LEMMA QueueCommitInv ==
  ASSUME WebhookInv, QueueCommit
  PROVE  WebhookInv'
<1> USE DEF WebhookInv
<1> DEFINE n == Cardinality(publisher)
<1>1. n \in Nat
  BY WebhookAssumption, FS_Subset, FS_CardinalityType DEF WebhookTypeOK
<1>2. PICK new \in [1..n -> publisher] :
        /\ delivery' = delivery \o [i \in 1..n |-> NewDelivery(new[i])]
        /\ tried' = tried \o [i \in 1..n |-> NotTried]
  BY DEF QueueCommit
<1> DEFINE made == [i \in 1..n |-> NewDelivery(new[i])]
           none == [i \in 1..n |-> NotTried]
<1>3. made \in [1..n -> Delivery] /\ \A i \in 1..n : made[i] = NewDelivery(new[i])
  BY DEF NewDelivery, Delivery, WebhookDeliveryState, WebhookTypeOK
<1>4. /\ none \in [1..n -> Tries]
      /\ \A i \in 1..n : none[i] = NotTried
  BY DEF NotTried, Tries
<1>4a. delivery' = delivery \o made /\ tried' = tried \o none
  BY <1>2
<1> HIDE DEF n, made, none
<1>5. /\ delivery' \in Seq(Delivery) /\ tried' \in Seq(Tries)
      /\ Len(tried') = Len(delivery') /\ Len(delivery') = Len(delivery) + n
  <2>0. delivery \in Seq(Delivery) /\ tried \in Seq(Tries)
        /\ Len(tried) = Len(delivery)
    BY DEF WebhookTypeOK
  <2>1. delivery' \in Seq(Delivery) /\ Len(delivery') = Len(delivery) + n
    <3>1. made \in Seq(Delivery) /\ Len(made) = n
      BY <1>1, <1>3, Zenon, Listed
    <3>2. delivery \o made \in Seq(Delivery) /\ Len(delivery \o made) = Len(delivery) + Len(made)
      BY <2>0, <3>1, Zenon, Joined
    <3> QED
      BY <1>4a, <3>1, <3>2
  <2>2. tried' \in Seq(Tries) /\ Len(tried') = Len(tried) + n
    <3>1. none \in Seq(Tries) /\ Len(none) = n
      BY <1>1, <1>4, Zenon, Listed
    <3>2. tried \o none \in Seq(Tries) /\ Len(tried \o none) = Len(tried) + Len(none)
      BY <2>0, <3>1, Zenon, Joined
    <3> QED
      BY <1>4a, <3>1, <3>2
  <2> QED
    BY <2>0, <2>1, <2>2
<1>6. /\ DOMAIN delivery \subseteq DOMAIN delivery'
      /\ \A d \in DOMAIN delivery : delivery'[d] = delivery[d] /\ tried'[d] = tried[d]
  <2>1. \A d \in DOMAIN delivery : (delivery \o made)[d] = delivery[d]
    BY <1>1, <1>3, Appended DEF WebhookTypeOK
  <2>2. \A d \in DOMAIN tried : (tried \o none)[d] = tried[d]
    BY <1>1, <1>4, Appended DEF WebhookTypeOK
  <2> QED
    BY <1>1, <1>4a, <1>5, <2>1, <2>2, RowsAreCounted
<1>7. \A d \in DOMAIN delivery' \ DOMAIN delivery :
        \E e \in publisher : delivery'[d] = NewDelivery(e) /\ tried'[d] = NotTried
  <2> SUFFICES ASSUME NEW d \in DOMAIN delivery' \ DOMAIN delivery
               PROVE  \E e \in publisher : delivery'[d] = NewDelivery(e) /\ tried'[d] = NotTried
    OBVIOUS
  <2> DEFINE i == d - Len(delivery)
  <2>1. d \in DOMAIN tried' \ DOMAIN tried /\ Len(tried) = Len(delivery)
    BY <1>5 DEF WebhookTypeOK
  <2>2. i \in 1..n /\ delivery'[d] = made[i]
    BY <1>1, <1>3, <1>4a, Appended DEF WebhookTypeOK
  <2>3. tried'[d] = none[i]
    BY <1>1, <1>4, <1>4a, <2>1, Appended DEF WebhookTypeOK
  <2> HIDE DEF i
  <2>4. delivery'[d] = NewDelivery(new[i]) /\ tried'[d] = NotTried /\ new[i] \in publisher
    BY <1>3, <1>4, <2>2, <2>3
  <2> QED
    BY <2>4
<1>8. UNCHANGED <<endpoint, pass, disturbed, events, troubles>> /\ publisher' = {}
  BY DEF QueueCommit
<1>9. WebhookTypeOK'
  BY <1>5, <1>6, <1>8 DEF WebhookTypeOK, Holds, Held
<1>10. (\A d \in DOMAIN delivery : RowOK(d))'
  <2> SUFFICES ASSUME NEW d \in DOMAIN delivery'
               PROVE  RowOK(d)'
    OBVIOUS
  <2>1. CASE d \in DOMAIN delivery
    BY <2>1, <1>6, <1>8 DEF RowOK, Earned
  <2>2. CASE d \notin DOMAIN delivery
    BY <2>2, <1>7, <1>8 DEF RowOK, Earned, NewDelivery, NotTried
  <2> QED
    BY <2>1, <2>2
<1>11. PassesOK'
  BY <1>6, <1>8 DEF PassesOK, EntryOK, DoneOK, Earned, OneEntryPerRow
<1>12. \A p \in Dispatcher : Holds(p)' = Holds(p) /\ Holds(p) \subseteq DOMAIN delivery
  BY <1>8 DEF Holds, Held, WebhookTypeOK
<1>13. (\A d \in DOMAIN delivery \ disturbed : QuietRow(d))'
  <2> SUFFICES ASSUME NEW d \in DOMAIN delivery', d \notin disturbed
               PROVE  QuietRow(d)'
    BY <1>8
  <2>1. CASE d \in DOMAIN delivery
    BY <2>1, <1>6, <1>8, <1>12 DEF QuietOK, QuietRow
  <2>2. CASE d \notin DOMAIN delivery
    BY <2>2, <1>7, WebhookAssumption DEF QuietRow, InBudget, NewDelivery, NotTried
  <2> QED
    BY <2>1, <2>2
<1>14. ASSUME NEW p \in Dispatcher
       PROVE  (/\ \A x \in pass[p].todo : x.id \notin disturbed => QuietTodo(x)
               /\ \A x \in pass[p].done : x.id \notin disturbed => QuietDone(x)
               /\ \A q \in Dispatcher \ {p} : Holds(p) \cap Holds(q) \subseteq disturbed)'
  <2>1. \A x \in pass[p].todo \cup pass[p].done : x.id \in DOMAIN delivery
    BY DEF PassesOK, EntryOK
  <2> QED
    BY <2>1, <1>6, <1>8, <1>12 DEF QuietOK, QuietTodo, QuietDone
<1>15. QuietOK'
  BY <1>13, <1>14 DEF QuietOK
<1> QED
  BY <1>8, <1>9, <1>10, <1>11, <1>15

--------------------------------------------------------------------------------
(* The passes. *)

\* A pass that is selected holds what was due, and of a quiet row it is alone.
LEMMA SelectInv ==
  ASSUME WebhookInv, NEW p \in Dispatcher, Select(p)
  PROVE  WebhookInv'
<1> USE DEF WebhookInv
<1> DEFINE due == {d \in DOMAIN delivery : Open(delivery[d])}
           entries == {[id |-> d, row |-> delivery[d]] : d \in due}
<1>1. /\ pass' = [pass EXCEPT ![p].todo = entries]
      /\ disturbed' = disturbed \cup UNION {Holds(q) \cap due : q \in Dispatcher \ {p}}
      /\ UNCHANGED <<endpoint, delivery, publisher, tried, events, troubles>>
      /\ pass[p].todo = {} /\ pass[p].done = {}
  BY DEF Select, rows, Busy, Held
<1>2. entries \in SUBSET [id : Nat, row : Delivery]
  BY DEF WebhookTypeOK
<1>3. due \subseteq DOMAIN delivery
  OBVIOUS
<1>4. \A x \in entries : x.id \in due /\ x.row = delivery[x.id] /\ Open(delivery[x.id])
  OBVIOUS
<1>5. \A d \in due : \E x \in entries : x.id = d
  <2> SUFFICES ASSUME NEW d \in due
               PROVE  \E x \in entries : x.id = d
    OBVIOUS
  <2>1. [id |-> d, row |-> delivery[d]] \in entries /\ [id |-> d, row |-> delivery[d]].id = d
    OBVIOUS
  <2> QED
    BY <2>1
<1>5a. \A x, y \in entries : x.id = y.id => x = y
  OBVIOUS
<1> HIDE DEF due, entries
<1>6. /\ pass'[p].todo = entries /\ pass'[p].done = {} /\ pass'[p].looked = pass[p].looked
      /\ \A q \in Dispatcher \ {p} : pass'[q] = pass[q]
  BY <1>1 DEF WebhookTypeOK, Pass
<1>7. pass' \in [Dispatcher -> Pass]
  BY <1>1, <1>2 DEF WebhookTypeOK, Pass
<1>8. /\ Holds(p)' = due /\ Holds(p) = {}
      /\ \A q \in Dispatcher \ {p} : Holds(q)' = Holds(q) /\ Holds(q) \subseteq DOMAIN delivery
  <2>1. Holds(p)' = due
    BY <1>4, <1>5, <1>6 DEF Holds, Held
  <2>2. Holds(p) = {}
    BY <1>1 DEF Holds, Held
  <2>3. \A q \in Dispatcher \ {p} : Holds(q)' = Holds(q)
    BY <1>6 DEF Holds, Held
  <2> QED
    BY <2>1, <2>2, <2>3 DEF WebhookTypeOK
<1>9. WebhookTypeOK'
  <2>1. disturbed' \subseteq DOMAIN delivery
    BY <1>1, <1>3, <1>8 DEF WebhookTypeOK
  <2>2. \A q \in Dispatcher : Holds(q)' \subseteq DOMAIN delivery
    BY <1>3, <1>8
  <2> QED
    BY <1>1, <1>7, <2>1, <2>2 DEF WebhookTypeOK
<1>10. (\A d \in DOMAIN delivery : RowOK(d))'
  BY <1>1 DEF RowOK, Earned
<1>11. \A x \in entries : EntryOK(x)
  BY <1>3, <1>4 DEF EntryOK, Open, Unfinished, RowOK
<1>12. PassesOK'
  <2> SUFFICES ASSUME NEW q \in Dispatcher
               PROVE  (/\ \A x \in pass[q].todo \cup pass[q].done : EntryOK(x)
                       /\ \A x \in pass[q].done : DoneOK(x)
                       /\ OneEntryPerRow(q)
                       /\ \A x \in pass[q].looked :
                            x.state = "INACTIVE" => endpoint[x.endpoint] = "INACTIVE")'
    BY DEF PassesOK
  <2>1. CASE q = p
    BY <2>1, <1>1, <1>5a, <1>6, <1>11 DEF PassesOK, EntryOK, OneEntryPerRow
  <2>2. CASE q # p
    BY <2>2, <1>1, <1>6 DEF PassesOK, EntryOK, DoneOK, Earned, OneEntryPerRow
  <2> QED
    BY <2>1, <2>2
<1>13. (\A d \in DOMAIN delivery \ disturbed : QuietRow(d))'
  <2> SUFFICES ASSUME NEW d \in DOMAIN delivery, d \notin disturbed'
               PROVE  QuietRow(d)'
    BY <1>1
  <2>1. QuietRow(d)
    BY <1>1 DEF QuietOK
  <2>2. (\A q \in Dispatcher : d \notin Holds(q)') => \A q \in Dispatcher : d \notin Holds(q)
    BY <1>8
  <2> QED
    BY <1>1, <2>1, <2>2 DEF QuietRow
<1>14. \A x \in entries : x.id \notin disturbed' => QuietTodo(x)
  <2> SUFFICES ASSUME NEW x \in entries, x.id \notin disturbed'
               PROVE  QuietTodo(x)
    OBVIOUS
  <2>1. x.id \in due /\ x.id \in DOMAIN delivery /\ x.row = delivery[x.id] /\ Open(delivery[x.id])
    BY <1>3, <1>4
  <2>2. \A q \in Dispatcher : x.id \notin Holds(q)
    BY <1>1, <1>8, <2>1
  <2>3. QuietRow(x.id)
    BY <1>1, <2>1 DEF QuietOK
  <2>4. tried[x.id].answers \in Nat
    BY <2>1, RowsAreCounted DEF Tries
  <2> QED
    BY <2>1, <2>2, <2>3, <2>4 DEF QuietRow, QuietTodo, Open
<1>15. ASSUME NEW q \in Dispatcher
       PROVE  (/\ \A x \in pass[q].todo : x.id \notin disturbed => QuietTodo(x)
               /\ \A x \in pass[q].done : x.id \notin disturbed => QuietDone(x)
               /\ \A r \in Dispatcher \ {q} : Holds(q) \cap Holds(r) \subseteq disturbed)'
  <2>1. (\A r \in Dispatcher \ {q} : Holds(q) \cap Holds(r) \subseteq disturbed)'
    BY <1>1, <1>8 DEF QuietOK
  <2>2. CASE q = p
    BY <2>1, <2>2, <1>1, <1>6, <1>14 DEF QuietTodo
  <2>3. CASE q # p
    BY <2>1, <2>3, <1>1, <1>6 DEF QuietOK, QuietTodo, QuietDone
  <2> QED
    BY <2>2, <2>3
<1>16. QuietOK'
  BY <1>13, <1>15 DEF QuietOK
<1> QED
  BY <1>1, <1>9, <1>10, <1>12, <1>16

\* What the session takes for the state of an endpoint: INACTIVE only if it is.
LEMMA LooksTrue ==
  ASSUME WebhookInv, NEW p \in Dispatcher, NEW x \in pass[p].todo
  PROVE  LET e == x.row.endpoint IN
         /\ e \in Endpoint /\ Looks(p, e) \in {"ACTIVE", "INACTIVE"}
         /\ Looks(p, e) = "INACTIVE" => endpoint[e] = "INACTIVE"
<1> DEFINE e == x.row.endpoint
           kept == {y \in pass[p].looked : y.endpoint = e}
<1>1. EntryOK(x) /\ \A y \in pass[p].looked : y.state = "INACTIVE" => endpoint[y.endpoint] = "INACTIVE"
  BY DEF WebhookInv, PassesOK
<1>2. x.row \in Delivery /\ \A y \in pass[p].looked : y.state \in {"ACTIVE", "INACTIVE"}
  BY DEF WebhookInv, WebhookTypeOK, Pass
<1>3. e \in Endpoint /\ endpoint[e] \in {"ACTIVE", "INACTIVE"}
  BY <1>1, <1>2 DEF EntryOK, RowOK, WebhookInv, WebhookTypeOK, Delivery
<1>4. CASE kept = {}
  BY <1>3, <1>4 DEF Looks
<1>5. CASE kept # {}
  <2>1. (CHOOSE y \in kept : TRUE) \in kept
    BY <1>5
  <2>2. Looks(p, e) = (CHOOSE y \in kept : TRUE).state
    BY <1>5 DEF Looks
  <2> QED
    BY <1>1, <1>2, <1>3, <2>1, <2>2
<1> QED
  BY <1>4, <1>5

\* Row x of a pass moves from what is to be posted to what is done.
LEMMA GoesFrom ==
  ASSUME WebhookInv, NEW p \in Dispatcher, NEW x \in pass[p].todo, NEW new \in Delivery,
         Goes(p, x, new)
  PROVE  /\ pass' \in [Dispatcher -> Pass]
         /\ \A q \in Dispatcher \ {p} : pass'[q] = pass[q]
         /\ pass'[p].todo = pass[p].todo \ {x}
         /\ pass'[p].done = pass[p].done \cup {[id |-> x.id, row |-> x.row, new |-> new]}
         /\ \A y \in pass'[p].looked : y.state = "INACTIVE" => endpoint[y.endpoint] = "INACTIVE"
         /\ \A q \in Dispatcher : Holds(q)' = Holds(q)
<1> DEFINE e == x.row.endpoint
           entry == [id |-> x.id, row |-> x.row, new |-> new]
           next == [todo |-> pass[p].todo \ {x}, done |-> pass[p].done \cup {entry},
                    looked |-> {[endpoint |-> e, state |-> Looks(p, e)]}]
<1>1. pass' = [pass EXCEPT ![p] = next]
  BY DEF Goes
<1>2. e \in Endpoint /\ Looks(p, e) \in {"ACTIVE", "INACTIVE"}
      /\ (Looks(p, e) = "INACTIVE" => endpoint[e] = "INACTIVE")
  BY LooksTrue
<1>3. pass \in [Dispatcher -> Pass] /\ pass[p] \in Pass
  BY DEF WebhookInv, WebhookTypeOK
<1>4. entry \in [id : Nat, row : Delivery, new : Delivery]
  BY <1>3 DEF Pass
<1>5. next \in Pass
  <2>1. next.todo \in SUBSET [id : Nat, row : Delivery]
    BY <1>3 DEF Pass
  <2>2. next.done \in SUBSET [id : Nat, row : Delivery, new : Delivery]
    BY <1>3, <1>4 DEF Pass
  <2>3. next.looked \in SUBSET [endpoint : Endpoint, state : {"ACTIVE", "INACTIVE"}]
    BY <1>2
  <2> QED
    BY <2>1, <2>2, <2>3 DEF Pass
<1>6. /\ pass'[p].todo = pass[p].todo \ {x} /\ pass'[p].done = pass[p].done \cup {entry}
      /\ pass'[p].looked = {[endpoint |-> e, state |-> Looks(p, e)]}
      /\ \A q \in Dispatcher \ {p} : pass'[q] = pass[q]
  BY <1>1, <1>3
<1>7. \A y \in pass'[p].looked : y.state = "INACTIVE" => endpoint[y.endpoint] = "INACTIVE"
  BY <1>2, <1>6
<1>8. pass' \in [Dispatcher -> Pass]
  BY <1>1, <1>3, <1>5
<1>9. entry.id = x.id
  OBVIOUS
<1> HIDE DEF entry, next, e
<1>10. Holds(p)' = Holds(p)
  <2>1. Holds(p)' = {y.id : y \in (pass[p].todo \ {x}) \cup pass[p].done \cup {entry}}
    BY <1>6 DEF Holds, Held
  <2> QED
    BY <1>9, <2>1 DEF Holds, Held
<1>11. \A q \in Dispatcher : Holds(q)' = Holds(q)
  BY <1>6, <1>10 DEF Holds, Held
<1> QED
  BY <1>6, <1>7, <1>8, <1>11 DEF entry

\* An entry is done, whatever it came to: what was made of it is counted at its row
\* alone, and what the pass is to write is true of that.
LEMMA EntryDone ==
  ASSUME WebhookInv, NEW p \in Dispatcher, NEW x \in pass[p].todo, NEW new \in Delivery,
         Goes(p, x, new), UNCHANGED <<endpoint, delivery, publisher, disturbed, events, troubles>>,
         tried' \in Seq(Tries), Len(tried') = Len(tried),
         \A d \in DOMAIN delivery \ {x.id} : tried'[d] = tried[d],
         tried'[x.id].attempts >= tried[x.id].attempts,
         tried'[x.id].answers >= tried[x.id].answers,
         new.endpoint = x.row.endpoint, new.attempts <= tried'[x.id].attempts,
         Earned(x.id, new)',
         QuietTodo(x) /\ x.row.attempts < MaxAttempts =>
           QuietDone([id |-> x.id, row |-> x.row, new |-> new])'
  PROVE  WebhookInv'
<1> USE DEF WebhookInv
<1> DEFINE entry == [id |-> x.id, row |-> x.row, new |-> new]
<1>1. /\ pass' \in [Dispatcher -> Pass]
      /\ \A q \in Dispatcher \ {p} : pass'[q] = pass[q]
      /\ pass'[p].todo = pass[p].todo \ {x}
      /\ pass'[p].done = pass[p].done \cup {entry}
      /\ \A y \in pass'[p].looked : y.state = "INACTIVE" => endpoint[y.endpoint] = "INACTIVE"
      /\ \A q \in Dispatcher : Holds(q)' = Holds(q)
  BY GoesFrom
<1>2. entry.id = x.id /\ entry.row = x.row /\ entry.new = new
  OBVIOUS
<1> HIDE DEF entry
<1>3. WebhookTypeOK'
  BY <1>1 DEF WebhookTypeOK
<1>4. \A d \in DOMAIN delivery :
        /\ tried'[d].attempts >= tried[d].attempts /\ tried'[d].answers >= tried[d].answers
        /\ tried[d].attempts \in Nat /\ tried[d].answers \in Nat
        /\ tried'[d].attempts \in Nat /\ tried'[d].answers \in Nat
        /\ delivery[d].attempts \in Nat
  <2> SUFFICES ASSUME NEW d \in DOMAIN delivery
               PROVE  /\ tried'[d].attempts >= tried[d].attempts /\ tried'[d].answers >= tried[d].answers
                      /\ tried[d].attempts \in Nat /\ tried[d].answers \in Nat
                      /\ tried'[d].attempts \in Nat /\ tried'[d].answers \in Nat
                      /\ delivery[d].attempts \in Nat
    OBVIOUS
  <2>1. tried[d] \in Tries /\ delivery[d] \in Delivery
    BY RowsAreCounted
  <2>2. tried'[d] \in Tries
    BY <1>3, RowsAreCounted
  <2>3. tried'[d].attempts >= tried[d].attempts /\ tried'[d].answers >= tried[d].answers
    BY <2>1 DEF Tries
  <2> QED
    BY <2>1, <2>2, <2>3 DEF Tries, Delivery
<1>5. MaxAttempts \in Nat
  BY WebhookAssumption
<1>6. (\A d \in DOMAIN delivery : RowOK(d))'
  BY <1>4, <1>5 DEF RowOK, Earned
<1>7. EntryOK(x) /\ EntryOK(entry)'
  <2>1. EntryOK(x)
    BY DEF PassesOK
  <2>2. x.row.attempts \in Nat
    BY DEF WebhookTypeOK, Pass, Delivery
  <2> QED
    BY <1>2, <1>4, <2>1, <2>2 DEF EntryOK
<1>8. DoneOK(entry)'
  BY <1>2 DEF DoneOK
<1>9. ASSUME NEW q \in Dispatcher, NEW y \in pass[q].todo \cup pass[q].done
      PROVE  EntryOK(y)'
  <2>1. EntryOK(y) /\ y.row.attempts \in Nat
    BY DEF PassesOK, WebhookTypeOK, Pass, Delivery
  <2> QED
    BY <1>4, <2>1 DEF EntryOK
<1>10. ASSUME NEW q \in Dispatcher, NEW y \in pass[q].done
       PROVE  DoneOK(y)'
  <2>1. DoneOK(y) /\ EntryOK(y) /\ y.new.attempts \in Nat
    BY DEF PassesOK, WebhookTypeOK, Pass, Delivery
  <2> QED
    BY <1>4, <1>5, <2>1 DEF DoneOK, EntryOK, Earned
<1>11. ASSUME NEW q \in Dispatcher
       PROVE  OneEntryPerRow(q)'
  BY <1>1, <1>2 DEF PassesOK, OneEntryPerRow
<1>12. PassesOK'
  <2> SUFFICES ASSUME NEW q \in Dispatcher
               PROVE  (/\ \A y \in pass[q].todo \cup pass[q].done : EntryOK(y)
                       /\ \A y \in pass[q].done : DoneOK(y)
                       /\ OneEntryPerRow(q)
                       /\ \A y \in pass[q].looked :
                            y.state = "INACTIVE" => endpoint[y.endpoint] = "INACTIVE")'
    BY DEF PassesOK
  <2>1. CASE q = p
    BY <2>1, <1>1, <1>7, <1>8, <1>9, <1>10, <1>11
  <2>2. CASE q # p
    BY <2>2, <1>1, <1>9, <1>10, <1>11 DEF PassesOK
  <2> QED
    BY <2>1, <2>2
<1>13. x.id \in Holds(p) /\ x.id \in DOMAIN delivery
  BY <1>7 DEF Holds, Held, EntryOK
<1>14. (\A d \in DOMAIN delivery \ disturbed : QuietRow(d))'
  <2> SUFFICES ASSUME NEW d \in DOMAIN delivery, d \notin disturbed
               PROVE  QuietRow(d)'
    OBVIOUS
  <2>1. QuietRow(d)
    BY DEF QuietOK
  <2>2. CASE d = x.id
    BY <2>1, <2>2, <1>1, <1>13 DEF QuietRow
  <2>3. CASE d # x.id
    BY <2>1, <2>3, <1>1 DEF QuietRow
  <2> QED
    BY <2>2, <2>3
<1>15. x.id \notin disturbed => QuietDone(entry)'
  <2>1. x.id \notin disturbed => QuietTodo(x) /\ InBudget(delivery[x.id])
    BY <1>13 DEF QuietOK, QuietRow
  <2>2. x.id \notin disturbed => x.row.attempts < MaxAttempts
    BY <2>1, <1>7 DEF QuietTodo, EntryOK, InBudget
  <2> QED
    BY <2>1, <2>2 DEF entry
<1>16. ASSUME NEW q \in Dispatcher, NEW y \in Held(q), y # x \/ q # p, y.id \notin disturbed
       PROVE  y \in pass'[q].todo \cup pass'[q].done => y.id # x.id /\ tried'[y.id] = tried[y.id]
  <2>1. y.id \in Holds(q) /\ y.id \in DOMAIN delivery
    BY DEF Holds, Held, PassesOK, EntryOK
  <2>2. CASE q = p
    BY <2>1, <2>2, <1>16 DEF PassesOK, OneEntryPerRow, Held
  <2>3. CASE q # p
    BY <2>1, <2>3, <1>13, <1>16 DEF QuietOK
  <2> QED
    BY <2>2, <2>3
<1>17. ASSUME NEW q \in Dispatcher, NEW y \in pass'[q].todo, y.id \notin disturbed
       PROVE  QuietTodo(y)'
  <2>1. y \in pass[q].todo /\ (y # x \/ q # p)
    BY <1>1, <1>17
  <2>2. QuietTodo(y) /\ tried'[y.id] = tried[y.id]
    BY <2>1, <1>16, <1>17 DEF QuietOK, Held
  <2> QED
    BY <2>2 DEF QuietTodo
<1>18. ASSUME NEW q \in Dispatcher, NEW y \in pass'[q].done, y.id \notin disturbed
       PROVE  QuietDone(y)'
  <2>1. CASE q = p /\ y = entry
    BY <2>1, <1>2, <1>15, <1>18
  <2>2. CASE ~(q = p /\ y = entry)
    <3>1. y \in pass[q].done
      BY <2>2, <1>1, <1>18
    <3>2. y # x \/ q # p
      BY <3>1 DEF PassesOK, OneEntryPerRow
    <3>3. QuietDone(y) /\ tried'[y.id] = tried[y.id]
      BY <3>1, <3>2, <1>16, <1>18 DEF QuietOK, Held
    <3> QED
      BY <3>3 DEF QuietDone
  <2> QED
    BY <2>1, <2>2
<1>19. (\A q \in Dispatcher : \A r \in Dispatcher \ {q} : Holds(q) \cap Holds(r) \subseteq disturbed)'
  BY <1>1 DEF QuietOK
<1>20. QuietOK'
  BY <1>14, <1>17, <1>18, <1>19 DEF QuietOK
<1> QED
  BY <1>1, <1>3, <1>6, <1>12, <1>20

LEMMA GiveUpInv ==
  ASSUME WebhookInv, NEW p \in Dispatcher, GiveUp(p)
  PROVE  WebhookInv'
<1> USE DEF WebhookInv
<1>1. PICK x \in First(p) :
        /\ Looks(p, x.row.endpoint) # "ACTIVE"
        /\ Goes(p, x, [x.row EXCEPT !.state = "DEAD_LETTERED"])
  BY DEF GiveUp
<1> DEFINE new == [x.row EXCEPT !.state = "DEAD_LETTERED"]
<1>2. x \in pass[p].todo /\ Goes(p, x, new)
  BY <1>1 DEF First
<1>3. UNCHANGED <<endpoint, delivery, publisher, tried, disturbed, events, troubles>>
  BY DEF GiveUp, rows
<1>4. x.row \in Delivery /\ EntryOK(x)
  BY <1>2 DEF WebhookTypeOK, Pass, PassesOK
<1>5. /\ new \in Delivery /\ new.endpoint = x.row.endpoint /\ new.attempts = x.row.attempts
      /\ new.state = "DEAD_LETTERED"
  BY <1>4 DEF Delivery, WebhookDeliveryState
<1> HIDE DEF new
<1>6. endpoint[x.row.endpoint] = "INACTIVE"
  BY <1>1, <1>2, LooksTrue
<1>7. tried[x.id] \in Tries /\ tried \in Seq(Tries)
  BY <1>4, RowsAreCounted DEF EntryOK, WebhookTypeOK
<1>8. Earned(x.id, new)'
  BY <1>3, <1>5, <1>6 DEF Earned
<1>9. QuietTodo(x) /\ x.row.attempts < MaxAttempts =>
        QuietDone([id |-> x.id, row |-> x.row, new |-> new])'
  BY <1>3, <1>4, <1>5, WebhookAssumption DEF QuietTodo, QuietDone, InBudget, Unfinished, Delivery
<1>10. new.attempts <= tried'[x.id].attempts
  BY <1>3, <1>4, <1>5 DEF EntryOK
<1>11. tried'[x.id].attempts >= tried[x.id].attempts /\ tried'[x.id].answers >= tried[x.id].answers
  BY <1>3, <1>7 DEF Tries
<1> QED
  BY <1>2, <1>3, <1>5, <1>7, <1>8, <1>9, <1>10, <1>11, EntryDone

\* What an attempt makes of a row: one more attempt, and an end only with an answer
\* or with the last attempt of its budget.
LEMMA Outcome ==
  ASSUME NEW r \in Delivery, r.state \in Unfinished, NEW well \in BOOLEAN,
         NEW new, new = IF well THEN Answered(r) ELSE Failed(r)
  PROVE  /\ new \in Delivery /\ new.endpoint = r.endpoint /\ new.attempts = r.attempts + 1
         /\ new.state = "DELIVERED" <=> well
         /\ new.state = "DEAD_LETTERED" => r.attempts + 1 >= MaxAttempts
         /\ r.attempts < MaxAttempts => InBudget(new)
<1>1. MaxAttempts \in Nat /\ r.attempts \in Nat
  BY WebhookAssumption DEF Delivery
<1>5. PICK n \in Nat : n = r.attempts + 1
  BY <1>1
<1>6. {"DELIVERED", "DEAD_LETTERED", "RETRYING"} \subseteq WebhookDeliveryState
  BY DEF WebhookDeliveryState
<1>2. CASE well
  <2>1. new = [r EXCEPT !.state = "DELIVERED", !.attempts = n]
    BY <1>2, <1>5 DEF Answered
  <2>0. "DELIVERED" \in WebhookDeliveryState
    BY <1>6
  <2>2. new.state = "DELIVERED" /\ new.attempts = r.attempts + 1 /\ new.endpoint = r.endpoint
    BY <1>5, <2>1 DEF Delivery
  <2>3. new \in Delivery
    <3>1. [r EXCEPT !.state = "DELIVERED", !.attempts = n] \in Delivery
      BY <2>0 DEF Delivery
    <3> QED
      BY <2>1, <3>1
  <2> QED
    BY <1>1, <1>2, <2>2, <2>3 DEF InBudget, Unfinished
<1>3. CASE ~well /\ r.attempts + 1 >= MaxAttempts
  <2>1. new = [r EXCEPT !.state = "DEAD_LETTERED", !.attempts = n]
    BY <1>3, <1>5 DEF Failed
  <2>0. "DEAD_LETTERED" \in WebhookDeliveryState
    BY <1>6
  <2>2. new.state = "DEAD_LETTERED" /\ new.attempts = r.attempts + 1 /\ new.endpoint = r.endpoint
    BY <1>5, <2>1 DEF Delivery
  <2>3. new \in Delivery
    <3>1. [r EXCEPT !.state = "DEAD_LETTERED", !.attempts = n] \in Delivery
      BY <2>0 DEF Delivery
    <3> QED
      BY <2>1, <3>1
  <2> QED
    BY <1>1, <1>3, <2>2, <2>3 DEF InBudget, Unfinished
<1>4. CASE ~well /\ ~(r.attempts + 1 >= MaxAttempts)
  <2>1. new = [r EXCEPT !.state = "RETRYING", !.attempts = n, !.due = FALSE]
    BY <1>4, <1>5 DEF Failed
  <2>0. "RETRYING" \in WebhookDeliveryState
    BY <1>6
  <2>2. new.state = "RETRYING" /\ new.attempts = r.attempts + 1 /\ new.endpoint = r.endpoint
    BY <1>5, <2>1 DEF Delivery
  <2>3. new \in Delivery
    <3>1. [r EXCEPT !.state = "RETRYING", !.attempts = n, !.due = FALSE] \in Delivery
      BY <2>0 DEF Delivery
    <3> QED
      BY <2>1, <3>1
  <2> QED
    BY <1>1, <1>4, <2>2, <2>3 DEF InBudget, Unfinished
<1> QED
  BY <1>2, <1>3, <1>4

LEMMA AttemptInv ==
  ASSUME WebhookInv, NEW p \in Dispatcher, Attempt(p)
  PROVE  WebhookInv'
<1> USE DEF WebhookInv
<1>1. PICK x \in First(p), well \in BOOLEAN :
        /\ Goes(p, x, IF well THEN Answered(x.row) ELSE Failed(x.row))
        /\ tried' = [tried EXCEPT ![x.id].attempts = @ + 1,
                                 ![x.id].answers = IF well THEN @ + 1 ELSE @]
  BY DEF Attempt
<1>2. PICK new : new = IF well THEN Answered(x.row) ELSE Failed(x.row)
  OBVIOUS
<1>3. x \in pass[p].todo /\ Goes(p, x, new)
  BY <1>1, <1>2 DEF First
<1>4. UNCHANGED <<endpoint, delivery, publisher, disturbed, events, troubles>>
  BY DEF Attempt, rows
<1>5. x.row \in Delivery /\ EntryOK(x) /\ x.id \in DOMAIN delivery
  BY <1>3 DEF WebhookTypeOK, Pass, PassesOK, EntryOK
<1>6. /\ new \in Delivery /\ new.endpoint = x.row.endpoint /\ new.attempts = x.row.attempts + 1
      /\ new.state = "DELIVERED" <=> well
      /\ new.state = "DEAD_LETTERED" => x.row.attempts + 1 >= MaxAttempts
      /\ x.row.attempts < MaxAttempts => InBudget(new)
  BY <1>2, <1>5, Outcome DEF EntryOK
<1>7. tried[x.id] \in Tries /\ tried \in Seq(Tries) /\ x.id \in DOMAIN tried
  BY <1>5, RowsAreCounted DEF WebhookTypeOK
<1>8. /\ \A d \in DOMAIN delivery \ {x.id} : tried'[d] = tried[d]
      /\ tried'[x.id].attempts = tried[x.id].attempts + 1
      /\ tried'[x.id].answers = IF well THEN tried[x.id].answers + 1 ELSE tried[x.id].answers
  BY <1>1, <1>7, RowsAreCounted DEF Tries
<1>9. tried' \in Seq(Tries) /\ Len(tried') = Len(tried)
  <2> DEFINE answers == IF well THEN tried[x.id].answers + 1 ELSE tried[x.id].answers
  <2>1. answers \in Nat
    BY <1>7 DEF Tries
  <2>2. tried' = [tried EXCEPT ![x.id] =
                    [tried[x.id] EXCEPT !.attempts = @ + 1, !.answers = answers]]
    BY <1>1, <1>7 DEF Tries
  <2> HIDE DEF answers
  <2>3. [tried[x.id] EXCEPT !.attempts = @ + 1, !.answers = answers] \in Tries
    <3>1. \A t \in Tries, m \in Nat, n \in Nat : [t EXCEPT !.attempts = m, !.answers = n] \in Tries
      BY DEF Tries
    <3>2. tried[x.id].attempts + 1 \in Nat
      BY <1>7 DEF Tries
    <3> QED
      BY <1>7, <2>1, <3>1, <3>2
  <2> QED
    BY <1>7, <2>2, <2>3
<1>10. tried[x.id].attempts \in Nat /\ tried[x.id].answers \in Nat /\ x.row.attempts \in Nat
  BY <1>5, <1>7 DEF Tries, Delivery
<1>11. MaxAttempts \in Nat
  BY WebhookAssumption
<1>12. tried'[x.id].attempts >= tried[x.id].attempts /\ tried'[x.id].answers >= tried[x.id].answers
  BY <1>8, <1>10
<1>13. new.attempts <= tried'[x.id].attempts
  BY <1>5, <1>6, <1>8, <1>10 DEF EntryOK
<1>14. Earned(x.id, new)'
  BY <1>5, <1>6, <1>8, <1>10, <1>11, <1>13 DEF Earned, EntryOK
<1>15. QuietTodo(x) /\ x.row.attempts < MaxAttempts =>
         QuietDone([id |-> x.id, row |-> x.row, new |-> new])'
  BY <1>4, <1>6, <1>8, <1>10 DEF QuietTodo, QuietDone
<1> QED
  BY <1>3, <1>4, <1>6, <1>8, <1>9, <1>12, <1>13, <1>14, <1>15, EntryDone

\* A dispatcher without a pass: every row it held is held by one fewer.
LEMMA PassOver ==
  ASSUME WebhookInv, NEW p \in Dispatcher, pass' = [pass EXCEPT ![p] = NoPass]
  PROVE  /\ pass' \in [Dispatcher -> Pass]
         /\ pass'[p].todo = {} /\ pass'[p].done = {} /\ pass'[p].looked = {} /\ Holds(p)' = {}
         /\ \A q \in Dispatcher \ {p} : pass'[q] = pass[q] /\ Holds(q)' = Holds(q)
<1>1. pass \in [Dispatcher -> Pass] /\ NoPass \in Pass
  BY DEF WebhookInv, WebhookTypeOK, Pass, NoPass
<1>2. pass' \in [Dispatcher -> Pass] /\ pass'[p] = NoPass /\ \A q \in Dispatcher \ {p} : pass'[q] = pass[q]
  BY <1>1
<1>3. pass'[p].todo = {} /\ pass'[p].done = {} /\ pass'[p].looked = {}
  BY <1>2 DEF NoPass
<1> QED
  BY <1>2, <1>3 DEF Holds, Held

LEMMA LosePassInv ==
  ASSUME WebhookInv, NEW p \in Dispatcher, LosePass(p)
  PROVE  WebhookInv'
<1> USE DEF WebhookInv
<1>1. /\ UNCHANGED <<endpoint, delivery, publisher, tried, events>>
      /\ troubles' = troubles + 1 /\ disturbed' = disturbed \cup Holds(p)
      /\ pass' = [pass EXCEPT ![p] = NoPass]
  BY DEF LosePass, rows
<1>2. /\ pass' \in [Dispatcher -> Pass]
      /\ pass'[p].todo = {} /\ pass'[p].done = {} /\ pass'[p].looked = {} /\ Holds(p)' = {}
      /\ \A q \in Dispatcher \ {p} : pass'[q] = pass[q] /\ Holds(q)' = Holds(q)
  BY <1>1, PassOver
<1>3. WebhookTypeOK'
  BY <1>1, <1>2 DEF WebhookTypeOK
<1>4. (\A d \in DOMAIN delivery : RowOK(d))'
  BY <1>1 DEF RowOK, Earned
<1>5. PassesOK'
  BY <1>1, <1>2 DEF PassesOK, EntryOK, DoneOK, Earned, OneEntryPerRow
<1>6. (\A d \in DOMAIN delivery \ disturbed : QuietRow(d))'
  BY <1>1, <1>2 DEF QuietOK, QuietRow
<1>7. ASSUME NEW q \in Dispatcher
      PROVE  (/\ \A x \in pass[q].todo : x.id \notin disturbed => QuietTodo(x)
              /\ \A x \in pass[q].done : x.id \notin disturbed => QuietDone(x)
              /\ \A r \in Dispatcher \ {q} : Holds(q) \cap Holds(r) \subseteq disturbed)'
  BY <1>1, <1>2 DEF QuietOK, QuietTodo, QuietDone
<1> QED
  BY <1>1, <1>3, <1>4, <1>5, <1>6, <1>7 DEF QuietOK

\* An entry is about one row only as long as that row has a due date to pass.
LEMMA BackoffEndsInv ==
  ASSUME WebhookInv, NEW d \in DOMAIN delivery, BackoffEnds(d)
  PROVE  WebhookInv'
<1> USE DEF WebhookInv
<1>1. /\ UNCHANGED <<endpoint, publisher, pass, tried, disturbed, events, troubles>>
      /\ ~delivery[d].due /\ delivery' = [delivery EXCEPT ![d].due = TRUE]
  BY DEF BackoffEnds
<1>2. delivery \in Seq(Delivery) /\ delivery[d] \in Delivery
  BY DEF WebhookTypeOK
<1>3. [delivery[d] EXCEPT !.due = TRUE] \in Delivery
  BY <1>2 DEF Delivery
<1>4. delivery' \in Seq(Delivery) /\ Len(delivery') = Len(delivery) /\ DOMAIN delivery' = DOMAIN delivery
  BY <1>1, <1>2, <1>3
<1>5. \A c \in DOMAIN delivery :
        /\ delivery'[c].endpoint = delivery[c].endpoint /\ delivery'[c].state = delivery[c].state
        /\ delivery'[c].attempts = delivery[c].attempts
        /\ c # d => delivery'[c] = delivery[c]
  BY <1>1, <1>2 DEF Delivery
<1>6. WebhookTypeOK'
  BY <1>1, <1>4 DEF WebhookTypeOK, Holds, Held
<1>7. (\A c \in DOMAIN delivery : RowOK(c))'
  BY <1>1, <1>4, <1>5 DEF RowOK, Earned
<1>8. PassesOK'
  BY <1>1, <1>4, <1>5 DEF PassesOK, EntryOK, DoneOK, Earned, OneEntryPerRow
<1>9. (\A c \in DOMAIN delivery \ disturbed : QuietRow(c))'
  <2>1. \A p \in Dispatcher : Holds(p)' = Holds(p)
    BY <1>1 DEF Holds, Held
  <2> QED
    BY <2>1, <1>1, <1>4, <1>5 DEF QuietOK, QuietRow, InBudget
<1>10. ASSUME NEW p \in Dispatcher, NEW x \in Held(p), x.row = delivery[x.id]
       PROVE  delivery'[x.id] = delivery[x.id]
  <2>1. x.row.due /\ x.id \in DOMAIN delivery
    BY DEF PassesOK, EntryOK, Held
  <2> QED
    BY <2>1, <1>1, <1>5, <1>10
<1>11. ASSUME NEW p \in Dispatcher
       PROVE  (/\ \A x \in pass[p].todo : x.id \notin disturbed => QuietTodo(x)
               /\ \A x \in pass[p].done : x.id \notin disturbed => QuietDone(x)
               /\ \A r \in Dispatcher \ {p} : Holds(p) \cap Holds(r) \subseteq disturbed)'
  BY <1>1, <1>10 DEF QuietOK, QuietTodo, QuietDone, Holds, Held
<1> QED
  BY <1>1, <1>6, <1>7, <1>8, <1>9, <1>11 DEF QuietOK

\* The row a commit writes for an entry of its pass.
LEMMA WrittenRow ==
  ASSUME WebhookInv, NEW p \in Dispatcher, NEW x \in pass[p].done
  PROVE  LET now == delivery[x.id]
             w == Written(now, x.row, x.new)
         IN /\ w \in Delivery /\ w.endpoint = now.endpoint
            /\ w.state \in {now.state, x.new.state} /\ w.attempts \in {now.attempts, x.new.attempts}
            /\ x.row = now => w.state = x.new.state /\ w.attempts = x.new.attempts
<1> DEFINE now == delivery[x.id]
           state == IF x.new.state = x.row.state THEN now.state ELSE x.new.state
           attempts == IF x.new.attempts = x.row.attempts THEN now.attempts ELSE x.new.attempts
           due == IF x.new.due = x.row.due THEN now.due ELSE x.new.due
           w == [now EXCEPT !.state = state, !.attempts = attempts, !.due = due]
<1>1. now \in Delivery /\ x.row \in Delivery /\ x.new \in Delivery
  BY RowsAreCounted DEF WebhookInv, WebhookTypeOK, Pass, PassesOK, EntryOK
<1>2. state \in WebhookDeliveryState /\ attempts \in Nat /\ due \in BOOLEAN
  BY <1>1 DEF Delivery
<1>3. Written(now, x.row, x.new) = w
  BY <1>1 DEF Written, Delivery
<1>4. x.row = now => state = x.new.state /\ attempts = x.new.attempts
  OBVIOUS
<1>5. state \in {now.state, x.new.state} /\ attempts \in {now.attempts, x.new.attempts}
  OBVIOUS
<1> HIDE DEF state, attempts, due
<1>6. w \in Delivery
  BY <1>1, <1>2 DEF Delivery
<1>7. w.state = state /\ w.attempts = attempts /\ w.endpoint = now.endpoint
  BY <1>1 DEF Delivery
<1> QED
  BY <1>3, <1>4, <1>5, <1>6, <1>7

LEMMA CommitPassInv ==
  ASSUME WebhookInv, NEW p \in Dispatcher, CommitPass(p)
  PROVE  WebhookInv'
<1> USE DEF WebhookInv
<1> DEFINE entry(d) == CHOOSE x \in pass[p].done : x.id = d
<1>1. /\ UNCHANGED <<endpoint, publisher, tried, disturbed, events, troubles>>
      /\ pass' = [pass EXCEPT ![p] = NoPass] /\ pass[p].todo = {}
      /\ delivery' = [d \in DOMAIN delivery |->
           IF d \in Holds(p) THEN Written(delivery[d], entry(d).row, entry(d).new) ELSE delivery[d]]
  BY DEF CommitPass
<1>2. /\ pass' \in [Dispatcher -> Pass]
      /\ pass'[p].todo = {} /\ pass'[p].done = {} /\ pass'[p].looked = {} /\ Holds(p)' = {}
      /\ \A q \in Dispatcher \ {p} : pass'[q] = pass[q] /\ Holds(q)' = Holds(q)
  BY <1>1, PassOver
<1>3. \A d \in Holds(p) : entry(d) \in pass[p].done /\ entry(d).id = d
  <2> SUFFICES ASSUME NEW d \in Holds(p)
               PROVE  entry(d) \in pass[p].done /\ entry(d).id = d
    OBVIOUS
  <2>1. \E x \in pass[p].done : x.id = d
    BY <1>1 DEF Holds, Held
  <2> QED
    BY <2>1
<1> HIDE DEF entry
<1>4. ASSUME NEW d \in Holds(p)
      PROVE  /\ delivery'[d] \in Delivery /\ delivery'[d].endpoint = delivery[d].endpoint
             /\ delivery'[d].state \in {delivery[d].state, entry(d).new.state}
             /\ delivery'[d].attempts \in {delivery[d].attempts, entry(d).new.attempts}
             /\ entry(d).row = delivery[d] =>
                  delivery'[d].state = entry(d).new.state /\ delivery'[d].attempts = entry(d).new.attempts
  <2>1. entry(d) \in pass[p].done /\ entry(d).id = d /\ d \in DOMAIN delivery
    BY <1>3 DEF WebhookTypeOK
  <2>2. delivery'[d] = Written(delivery[d], entry(d).row, entry(d).new)
    BY <1>1, <2>1
  <2> QED
    BY <2>1, <2>2, WrittenRow
<1>5. \A d \in DOMAIN delivery \ Holds(p) : delivery'[d] = delivery[d]
  BY <1>1
<1>6. DOMAIN delivery' = DOMAIN delivery /\ \A d \in DOMAIN delivery : delivery'[d] \in Delivery
  BY <1>1, <1>4, <1>5, RowsAreCounted
<1>7. delivery' \in Seq(Delivery) /\ Len(delivery') = Len(delivery)
  <2>1. DOMAIN delivery = 1..Len(delivery) /\ Len(delivery) \in Nat
    BY DEF WebhookTypeOK
  <2>2. delivery' \in [1..Len(delivery) -> Delivery]
    BY <1>1, <1>6, <2>1
  <2> QED
    BY <2>1, <2>2
<1>8. WebhookTypeOK'
  BY <1>1, <1>2, <1>6, <1>7 DEF WebhookTypeOK
<1>9. (\A d \in DOMAIN delivery : RowOK(d))'
  <2> SUFFICES ASSUME NEW d \in DOMAIN delivery
               PROVE  RowOK(d)'
    BY <1>6
  <2>1. RowOK(d)
    OBVIOUS
  <2>2. CASE d \in Holds(p)
    <3>1. DoneOK(entry(d)) /\ EntryOK(entry(d)) /\ entry(d).id = d
      BY <2>2, <1>3 DEF PassesOK
    <3>2. entry(d).new.endpoint = delivery[d].endpoint
      BY <3>1 DEF DoneOK, EntryOK
    <3>3. delivery'[d].attempts <= tried[d].attempts
      BY <2>1, <2>2, <3>1, <1>4 DEF RowOK, DoneOK
    <3>4. Earned(d, delivery[d])'
      BY <2>1, <2>2, <3>1, <3>2, <1>1, <1>4 DEF RowOK, DoneOK, Earned
    <3> QED
      BY <2>1, <2>2, <3>3, <3>4, <1>1, <1>4 DEF RowOK
  <2>3. CASE d \notin Holds(p)
    BY <2>1, <2>3, <1>1, <1>5 DEF RowOK, Earned
  <2> QED
    BY <2>2, <2>3
<1>10. PassesOK'
  <2> SUFFICES ASSUME NEW q \in Dispatcher
               PROVE  (/\ \A x \in pass[q].todo \cup pass[q].done : EntryOK(x)
                       /\ \A x \in pass[q].done : DoneOK(x)
                       /\ OneEntryPerRow(q)
                       /\ \A x \in pass[q].looked :
                            x.state = "INACTIVE" => endpoint[x.endpoint] = "INACTIVE")'
    BY DEF PassesOK
  <2>1. CASE q = p
    BY <2>1, <1>2 DEF OneEntryPerRow
  <2>2. CASE q # p
    <3>1. \A x \in Held(q) : EntryOK(x)'
      <4>1. \A d \in DOMAIN delivery : delivery'[d].endpoint = delivery[d].endpoint
        BY <1>4, <1>5
      <4> QED
        BY <4>1, <1>1, <1>6 DEF PassesOK, EntryOK, Held
    <3>2. (\A x \in pass[q].done : DoneOK(x))'
      BY <2>2, <1>1, <1>2 DEF PassesOK, DoneOK, Earned
    <3>3. OneEntryPerRow(q)'
      BY <2>2, <1>2 DEF PassesOK, OneEntryPerRow
    <3> QED
      BY <2>2, <3>1, <3>2, <3>3, <1>1, <1>2 DEF PassesOK, Held
  <2> QED
    BY <2>1, <2>2
<1>11. (\A d \in DOMAIN delivery \ disturbed : QuietRow(d))'
  <2> SUFFICES ASSUME NEW d \in DOMAIN delivery, d \notin disturbed
               PROVE  QuietRow(d)'
    BY <1>1, <1>6
  <2>1. CASE d \in Holds(p)
    <3>1. QuietDone(entry(d)) /\ entry(d).id = d
      BY <2>1, <1>3 DEF QuietOK
    <3>2. delivery'[d].state = entry(d).new.state /\ delivery'[d].attempts = entry(d).new.attempts
      BY <2>1, <3>1, <1>4 DEF QuietDone
    <3> QED
      BY <3>1, <3>2, <1>1 DEF QuietRow, QuietDone, InBudget
  <2>2. CASE d \notin Holds(p)
    BY <2>2, <1>1, <1>2, <1>5 DEF QuietOK, QuietRow
  <2> QED
    BY <2>1, <2>2
<1>12. ASSUME NEW q \in Dispatcher
       PROVE  (/\ \A x \in pass[q].todo : x.id \notin disturbed => QuietTodo(x)
               /\ \A x \in pass[q].done : x.id \notin disturbed => QuietDone(x)
               /\ \A r \in Dispatcher \ {q} : Holds(q) \cap Holds(r) \subseteq disturbed)'
  <2>1. CASE q = p
    BY <2>1, <1>2
  <2>2. CASE q # p
    <3>1. (\A r \in Dispatcher \ {q} : Holds(q) \cap Holds(r) \subseteq disturbed)'
      BY <2>2, <1>1, <1>2 DEF QuietOK
    <3>2. \A x \in Held(q) : x.id \notin disturbed => delivery'[x.id] = delivery[x.id]
      BY <2>2, <1>5 DEF QuietOK, Holds, Held, PassesOK, EntryOK
    <3> QED
      BY <2>2, <3>1, <3>2, <1>1, <1>2 DEF QuietOK, QuietTodo, QuietDone, Held
  <2> QED
    BY <2>1, <2>2
<1> QED
  BY <1>1, <1>8, <1>9, <1>10, <1>11, <1>12 DEF QuietOK

--------------------------------------------------------------------------------
LEMMA NextInv == WebhookInv /\ [Next]_vars => WebhookInv'
<1> SUFFICES ASSUME WebhookInv, [Next]_vars
             PROVE  WebhookInv'
  OBVIOUS
<1>1. ASSUME NEW e \in Endpoint, CreateEndpoint(e) \/ DeactivateEndpoint(e)
      PROVE  WebhookInv'
  BY <1>1, CreateEndpointInv, DeactivateEndpointInv
<1>2. CASE QueueRead \/ QueueCommit
  BY <1>2, QueueReadInv, QueueCommitInv
<1>3. ASSUME NEW p \in Dispatcher, Select(p) \/ Work(p) \/ LosePass(p)
      PROVE  WebhookInv'
  BY <1>3, SelectInv, GiveUpInv, AttemptInv, CommitPassInv, LosePassInv DEF Work
<1>4. ASSUME NEW d \in DOMAIN delivery, BackoffEnds(d)
      PROVE  WebhookInv'
  BY <1>4, BackoffEndsInv
<1>5. CASE UNCHANGED vars
  BY <1>5 DEF vars, rows, WebhookInv, WebhookTypeOK, RowOK, Earned, PassesOK, EntryOK, DoneOK,
     OneEntryPerRow, QuietOK, QuietRow, QuietTodo, QuietDone, Holds, Held
<1> QED
  BY <1>1, <1>2, <1>3, <1>4, <1>5 DEF Next

\* The inductive invariant: with any number of dispatchers over the same rows, what a
\* row and every pass over it hold is bounded by the attempts that were really made,
\* and equals them as long as one pass at a time holds the row and is not lost.
THEOREM WebhookInvariant == Spec => []WebhookInv
BY InitInv, NextInv, PTL DEF Spec

\* Types of every reachable state: every attempt belongs to a row, every entry of a
\* pass to a row that is there.
THEOREM WebhookTypeCorrect == Spec => []WebhookTypeOK
<1>1. WebhookInv => WebhookTypeOK
  BY DEF WebhookInv
<1> QED
  BY <1>1, WebhookInvariant, PTL

\* A row that ended was answered, had all the attempts of its budget, or lost its
\* endpoint, however the passes of several dispatchers overlapped or were lost.
THEOREM EndsAreEarned == Spec => []EndIsEarned
<1>1. WebhookInv => EndIsEarned
  BY DEF WebhookInv, RowOK, Earned, EndIsEarned
<1> QED
  BY <1>1, WebhookInvariant, PTL

\* A row that one pass at a time held, none of them lost, is charged for every post,
\* within its budget, and is not posted again once it was answered.
THEOREM QuietRowsAreCharged == Spec => []QuietRowIsCharged
<1>1. WebhookInv => QuietRowIsCharged
  <2> SUFFICES ASSUME WebhookInv, NEW d \in DOMAIN delivery \ disturbed
               PROVE  /\ tried[d].attempts = delivery[d].attempts + Cardinality(Charged(d))
                      /\ tried[d].attempts <= MaxAttempts
                      /\ tried[d].answers > 0 =>
                           tried[d].answers = 1 /\ (delivery[d].state = "DELIVERED" \/ Charged(d) # {})
    BY DEF QuietRowIsCharged
  <2> USE DEF WebhookInv
  <2>1. QuietRow(d) /\ MaxAttempts \in Nat
    BY WebhookAssumption DEF QuietOK
  <2>2. delivery[d].attempts \in Nat /\ tried[d].attempts \in Nat /\ tried[d].answers \in Nat
    BY RowsAreCounted DEF Delivery, Tries
  <2>3. ASSUME NEW p \in Dispatcher, d \in Holds(p)
        PROVE  \A q \in Dispatcher \ {p} : d \notin Holds(q)
    BY <2>3 DEF QuietOK
  <2>4. \A p \in Charged(d) : d \in Holds(p)
    BY DEF Charged, Holds, Held
  <2>5. CASE \A p \in Dispatcher : d \notin Holds(p)
    <3>1. Charged(d) = {} /\ Cardinality(Charged(d)) = 0
      BY <2>4, <2>5, FS_EmptySet DEF Charged
    <3> QED
      BY <2>1, <2>2, <2>5, <3>1 DEF QuietRow, InBudget
  <2>6. ASSUME NEW p \in Dispatcher, d \in Holds(p)
        PROVE  /\ tried[d].attempts = delivery[d].attempts + Cardinality(Charged(d))
               /\ tried[d].attempts <= MaxAttempts
               /\ tried[d].answers > 0 =>
                    tried[d].answers = 1 /\ (delivery[d].state = "DELIVERED" \/ Charged(d) # {})
    <3>1. PICK x \in Held(p) : x.id = d
      BY <2>6 DEF Holds
    <3>2. Charged(d) \subseteq {p}
      BY <2>3, <2>4, <2>6 DEF Charged
    <3>3. CASE x \in pass[p].todo
      <4>1. Charged(d) = {}
        BY <3>1, <3>2, <3>3 DEF Charged, PassesOK, OneEntryPerRow
      <4>2. QuietTodo(x)
        BY <3>1, <3>3 DEF QuietOK
      <4> QED
        BY <2>1, <2>2, <3>1, <4>1, <4>2, FS_EmptySet DEF QuietTodo, QuietRow, InBudget
    <3>4. CASE x \in pass[p].done
      <4>1. QuietDone(x)
        BY <3>1, <3>4 DEF QuietOK
      <4>2. CASE x.new.attempts = x.row.attempts
        <5>1. Charged(d) = {}
          BY <2>2, <3>1, <3>2, <3>4, <4>1, <4>2 DEF Charged, PassesOK, OneEntryPerRow, QuietDone
        <5> QED
          BY <2>1, <2>2, <3>1, <4>1, <4>2, <5>1, FS_EmptySet DEF QuietDone, InBudget
      <4>3. CASE x.new.attempts = x.row.attempts + 1
        <5>1. Charged(d) = {p}
          BY <2>2, <3>1, <3>2, <3>4, <4>1, <4>3 DEF Charged, QuietDone
        <5>2. Cardinality(Charged(d)) = 1
          BY <5>1, FS_Singleton
        <5> QED
          BY <2>1, <2>2, <3>1, <4>1, <4>3, <5>1, <5>2 DEF QuietDone, InBudget
      <4> QED
        BY <4>1, <4>2, <4>3 DEF QuietDone
    <3> QED
      BY <3>1, <3>3, <3>4 DEF Held
  <2> QED
    BY <2>5, <2>6
<1> QED
  BY <1>1, WebhookInvariant, PTL
================================================================================
