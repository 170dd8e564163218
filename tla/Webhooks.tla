------------------------------- MODULE Webhooks --------------------------------
(***************************************************************************)
(* Outbound webhooks (apps/api/app/services/webhooks.py, routes/webhooks.py): *)
(* an event fans out to the active endpoints of its tenant, and dispatchers,   *)
(* one thread in every API process and one step in the loop of every stream   *)
(* worker, deliver the rows in passes: select what is due, post each, commit   *)
(* the whole pass at the end.  Nothing locks a row between the two.           *)
(***************************************************************************)
EXTENDS Naturals, Sequences, FiniteSets, Functions

CONSTANTS
  Dispatcher,
  Endpoint,
  MaxAttempts,   \* max_attempts of a row
  MaxEvents,     \* bound on the events that are published
  MaxTroubles    \* bound on passes that are lost and endpoints deactivated, together

ASSUME WebhookAssumption ==
  /\ IsFiniteSet(Endpoint)
  /\ MaxAttempts \in Nat \ {0} /\ MaxEvents \in Nat /\ MaxTroubles \in Nat

VARIABLES
  endpoint,    \* endpoint[e]: "NONE", "ACTIVE" or "INACTIVE"
  delivery,    \* webhook_deliveries, in the order they were created
  publisher,   \* the endpoints queue_event has read and not yet written rows for
  pass,        \* pass[p]: a run of dispatch_once
  tried,       \* tried[d]: the attempts on a row, and how many were answered well
  disturbed,   \* rows that two passes held at once, or whose pass was lost
  events, troubles

rows == <<endpoint, delivery>>
vars == <<rows, publisher, pass, tried, disturbed, events, troubles>>

WebhookDeliveryState == {"PENDING", "DELIVERED", "RETRYING", "DEAD_LETTERED"}
Over == {"DELIVERED", "DEAD_LETTERED"}
NotTried == [attempts |-> 0, answers |-> 0]
NewDelivery(e) == [endpoint |-> e, state |-> "PENDING", attempts |-> 0, due |-> TRUE]

\* `todo` are the rows still to post, as they were selected, `done` the others with
\* what the pass will write; `looked` is the endpoint the session looked up last.
NoPass == [todo |-> {}, done |-> {}, looked |-> {}]
Held(p) == pass[p].todo \cup pass[p].done
Busy(p) == Held(p) # {}
Holds(p) == {x.id : x \in Held(p)}

Init ==
  /\ endpoint = [e \in Endpoint |-> "NONE"]
  /\ delivery = <<>> /\ tried = <<>>
  /\ publisher = {}
  /\ pass = [p \in Dispatcher |-> NoPass]
  /\ disturbed = {} /\ events = 0 /\ troubles = 0

--------------------------------------------------------------------------------
(* Subscriptions and events. *)

CreateEndpoint(e) ==
  /\ endpoint[e] = "NONE"
  /\ endpoint' = [endpoint EXCEPT ![e] = "ACTIVE"]
  /\ UNCHANGED <<delivery, publisher, pass, tried, disturbed, events, troubles>>

DeactivateEndpoint(e) ==
  /\ endpoint[e] = "ACTIVE" /\ troubles < MaxTroubles
  /\ endpoint' = [endpoint EXCEPT ![e] = "INACTIVE"]
  /\ troubles' = troubles + 1
  /\ UNCHANGED <<delivery, publisher, pass, tried, disturbed, events>>

Subscribers == {e \in Endpoint : endpoint[e] = "ACTIVE"}

QueueRead ==
  /\ publisher = {} /\ Subscribers # {} /\ events < MaxEvents
  /\ publisher' = Subscribers /\ events' = events + 1
  /\ UNCHANGED <<rows, pass, tried, disturbed, troubles>>

\* One row for every subscriber, in one commit.
QueueCommit ==
  /\ publisher # {}
  /\ \E new \in [1..Cardinality(publisher) -> publisher] :
       /\ IsInjective(new)
       /\ delivery' = delivery \o [i \in 1..Cardinality(publisher) |-> NewDelivery(new[i])]
       /\ tried' = tried \o [i \in 1..Cardinality(publisher) |-> NotTried]
  /\ publisher' = {}
  /\ UNCHANGED <<endpoint, pass, disturbed, events, troubles>>

--------------------------------------------------------------------------------
(* dispatch_once *)

\* Variant: a row is tried again only if it was never tried.
OpenPending(r) == r.state = "PENDING" /\ r.due

Open(r) == r.state \in {"PENDING", "RETRYING"} /\ r.due

Select(p) ==
  LET due == {d \in DOMAIN delivery : Open(delivery[d])}
  IN /\ ~Busy(p) /\ due # {}
     /\ pass' = [pass EXCEPT ![p].todo = {[id |-> d, row |-> delivery[d]] : d \in due}]
     /\ disturbed' = disturbed \cup UNION {Holds(q) \cap due : q \in Dispatcher \ {p}}
     /\ UNCHANGED <<rows, publisher, tried, events, troubles>>

\* The rows are taken in the order they were created.
First(p) == {x \in pass[p].todo : \A y \in pass[p].todo : x.id <= y.id}

\* The session keeps the endpoint of the row before.
Looks(p, e) ==
  LET kept == {x \in pass[p].looked : x.endpoint = e}
  IN IF kept = {} THEN endpoint[e] ELSE (CHOOSE x \in kept : TRUE).state

\* Done with row x of the pass, which is to be written as `new`.
Goes(p, x, new) ==
  pass' = [pass EXCEPT ![p] =
    [todo |-> @.todo \ {x},
     done |-> @.done \cup {[id |-> x.id, row |-> x.row, new |-> new]},
     looked |-> {[endpoint |-> x.row.endpoint, state |-> Looks(p, x.row.endpoint)]}]]

GiveUp(p) ==
  /\ \E x \in First(p) :
       /\ Looks(p, x.row.endpoint) # "ACTIVE"
       /\ Goes(p, x, [x.row EXCEPT !.state = "DEAD_LETTERED"])
  /\ UNCHANGED <<rows, publisher, tried, disturbed, events, troubles>>

\* Variant: the attempt being made is not counted among those left.
FailedEarly(r) ==
  IF r.attempts + 2 >= MaxAttempts THEN [r EXCEPT !.state = "DEAD_LETTERED", !.attempts = @ + 1]
  ELSE [r EXCEPT !.state = "RETRYING", !.attempts = @ + 1, !.due = FALSE]

\* A row after an attempt that raised.
Failed(r) ==
  IF r.attempts + 1 >= MaxAttempts THEN [r EXCEPT !.state = "DEAD_LETTERED", !.attempts = @ + 1]
  ELSE [r EXCEPT !.state = "RETRYING", !.attempts = @ + 1, !.due = FALSE]

\* Variant: only a failure is charged.
AnsweredFree(r) == [r EXCEPT !.state = "DELIVERED"]

Answered(r) == [r EXCEPT !.state = "DELIVERED", !.attempts = @ + 1]

\* _attempt: the post, and an answer in time or not.
Attempt(p) ==
  /\ \E x \in First(p), well \in BOOLEAN :
       /\ Looks(p, x.row.endpoint) = "ACTIVE"
       /\ Goes(p, x, IF well THEN Answered(x.row) ELSE Failed(x.row))
       /\ tried' = [tried EXCEPT ![x.id].attempts = @ + 1,
                                ![x.id].answers = IF well THEN @ + 1 ELSE @]
  /\ UNCHANGED <<rows, publisher, disturbed, events, troubles>>

\* A column is written by primary key if it differs from what the session read.
Written(now, seen, new) ==
  [now EXCEPT !.state = IF new.state = seen.state THEN @ ELSE new.state,
              !.attempts = IF new.attempts = seen.attempts THEN @ ELSE new.attempts,
              !.due = IF new.due = seen.due THEN @ ELSE new.due]

CommitPass(p) ==
  /\ Busy(p) /\ pass[p].todo = {}
  /\ delivery' = [d \in DOMAIN delivery |->
       IF d \in Holds(p)
       THEN LET x == CHOOSE x \in pass[p].done : x.id = d IN Written(delivery[d], x.row, x.new)
       ELSE delivery[d]]
  /\ pass' = [pass EXCEPT ![p] = NoPass]
  /\ UNCHANGED <<endpoint, publisher, tried, disturbed, events, troubles>>

\* The process dies, or the commit fails: what was posted is recorded nowhere.
LosePass(p) ==
  /\ Busy(p) /\ troubles < MaxTroubles
  /\ troubles' = troubles + 1 /\ disturbed' = disturbed \cup Holds(p)
  /\ pass' = [pass EXCEPT ![p] = NoPass]
  /\ UNCHANGED <<rows, publisher, tried, events>>

\* next_attempt_at is reached.
BackoffEnds(d) ==
  /\ ~delivery[d].due
  /\ delivery' = [delivery EXCEPT ![d].due = TRUE]
  /\ UNCHANGED <<endpoint, publisher, pass, tried, disturbed, events, troubles>>

Work(p) == GiveUp(p) \/ Attempt(p) \/ CommitPass(p)

Next ==
  \/ \E e \in Endpoint : CreateEndpoint(e) \/ DeactivateEndpoint(e)
  \/ QueueRead \/ QueueCommit
  \/ \E p \in Dispatcher : Select(p) \/ Work(p) \/ LosePass(p)
  \/ \E d \in DOMAIN delivery : BackoffEnds(d)

Spec == Init /\ [][Next]_vars

Row == 1..(MaxEvents * Cardinality(Endpoint))

\* Every dispatcher keeps making passes and finishes those it began, and time passes.
FairSpec ==
  /\ Spec
  /\ \A p \in Dispatcher : WF_vars(Select(p)) /\ WF_vars(Work(p))
  /\ \A d \in Row : WF_vars(d \in DOMAIN delivery /\ BackoffEnds(d))

--------------------------------------------------------------------------------
Delivery == [endpoint : Endpoint, state : WebhookDeliveryState, attempts : Nat, due : BOOLEAN]
Tries == [attempts : Nat, answers : Nat]

Pass ==
  [todo : SUBSET [id : Nat, row : Delivery],
   done : SUBSET [id : Nat, row : Delivery, new : Delivery],
   looked : SUBSET [endpoint : Endpoint, state : {"ACTIVE", "INACTIVE"}]]

WebhookTypeOK ==
  /\ endpoint \in [Endpoint -> {"NONE", "ACTIVE", "INACTIVE"}]
  /\ delivery \in Seq(Delivery) /\ publisher \subseteq Endpoint
  /\ tried \in Seq(Tries) /\ Len(tried) = Len(delivery)
  /\ pass \in [Dispatcher -> Pass] /\ \A p \in Dispatcher : Holds(p) \subseteq DOMAIN delivery
  /\ disturbed \subseteq DOMAIN delivery /\ events \in Nat /\ troubles \in Nat

\* How a row ended is true of what happened, with any number of dispatchers and
\* passes that were lost: DELIVERED was answered, and DEAD_LETTERED had all its
\* attempts or lost its endpoint.
EndIsEarned ==
  \A d \in DOMAIN delivery :
    /\ delivery[d].state = "DELIVERED" => tried[d].answers > 0
    /\ delivery[d].state = "DEAD_LETTERED" =>
         tried[d].attempts >= MaxAttempts \/ endpoint[delivery[d].endpoint] = "INACTIVE"

\* The attempt p is about to write for row d, if it holds one.
Charged(d) ==
  {p \in Dispatcher : \E x \in pass[p].done : x.id = d /\ x.new.attempts > x.row.attempts}

\* A row no two passes held at once and whose pass was not lost is charged for every
\* post, is posted no more often than its budget allows, and not again once it was
\* answered ("retry with exponential backoff and then dead-letter").
QuietRowIsCharged ==
  \A d \in DOMAIN delivery \ disturbed :
    /\ tried[d].attempts = delivery[d].attempts + Cardinality(Charged(d))
    /\ tried[d].attempts <= MaxAttempts
    /\ tried[d].answers > 0 => tried[d].answers = 1 /\ (delivery[d].state = "DELIVERED" \/ Charged(d) # {})

Ended(d) == d \in DOMAIN delivery /\ delivery[d].state \in Over

\* Every event comes to an end with each of its subscribers and stays there, whoever
\* overtakes whom: passes that overwrite each other's outcome do not go on for ever.
EventsSettle ==
  \A d \in Row : [](d \in DOMAIN delivery => <>[]Ended(d))

\* "Failed deliveries retry" (the module's docstring): one that succeeded is over.
DeliveredStands ==
  [][\A d \in DOMAIN delivery : delivery[d].state = "DELIVERED" => delivery'[d].state = "DELIVERED"]_vars
================================================================================
