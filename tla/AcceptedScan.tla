------------------------------ MODULE AcceptedScan ------------------------------
(***************************************************************************)
(* What the intake of a scan promises to the clients that share an            *)
(* Idempotency-Key, without databases, queues, workers or crashes: the key is *)
(* bound once, to the scan of one of them; whoever is answered hears of that  *)
(* scan, accepted if the request is the same and refused if it is not; the    *)
(* scan ends once and its outcome stands (create_scan and                    *)
(* _replay_or_conflict of apps/api/app/api/routes/scans.py).                  *)
(***************************************************************************)
CONSTANT Client

VARIABLES
  digest,  \* digest[c]: what client c asks for
  scan,    \* scan[c]: the scan named after the request that made it
  reply    \* reply[c]: the answer c has, and the scan it names

acceptVars == <<digest, scan, reply>>

Waiting(c) == [code |-> 0, of |-> c]
Refusal(c, code) == [code |-> code, of |-> c]
Holders == {c \in Client : scan[c] # "NONE"}

\* The key is free, or bound to one scan of which its client may have heard.
AcceptInit ==
  /\ scan \in [Client -> {"NONE", "QUEUED"}]
  /\ \A s, t \in Holders : s = t
  /\ \A c \in Client : reply[c] = Waiting(c) \/ (c \in Holders /\ reply[c] = [code |-> 202, of |-> c])

Hears(c, answer) ==
  /\ reply[c] = Waiting(c)
  /\ reply' = [reply EXCEPT ![c] = answer]

\* The key is bound; its client has yet to hear of it.
Bind(c) ==
  /\ Holders = {}
  /\ reply[c] = Waiting(c)
  /\ scan' = [scan EXCEPT ![c] = "QUEUED"]
  /\ UNCHANGED <<digest, reply>>

\* The scan that has the key is the answer, or the key is in use for something else.
Answer(c, s) ==
  /\ Hears(c, [code |-> IF digest[s] = digest[c] THEN 202 ELSE 409, of |-> s])
  /\ UNCHANGED <<digest, scan>>

\* Clients that wait are refused, for lack of the upload or of quota, or because
\* something broke.
Refuse(C, code) ==
  /\ \A c \in C : reply[c] = Waiting(c)
  /\ reply' = [c \in Client |-> IF c \in C THEN Refusal(c, code) ELSE reply[c]]
  /\ UNCHANGED <<digest, scan>>

\* Only who heard of a failure asks again.
Resend(c) ==
  /\ reply[c] = Refusal(c, 500)
  /\ reply' = [reply EXCEPT ![c] = Waiting(c)]
  /\ UNCHANGED <<digest, scan>>

End(s, outcome) ==
  /\ scan[s] = "QUEUED"
  /\ scan' = [scan EXCEPT ![s] = outcome]
  /\ UNCHANGED <<digest, reply>>

AcceptNext ==
  \/ \E c \in Client : Bind(c) \/ Resend(c)
  \/ \E c \in Client, s \in Holders : Answer(c, s)
  \/ \E C \in SUBSET Client, code \in {404, 429, 500} : Refuse(C, code)
  \/ \E s \in Client, outcome \in {"COMPLETED", "FAILED"} : End(s, outcome)

AcceptSpec == AcceptInit /\ [][AcceptNext]_acceptVars
================================================================================
