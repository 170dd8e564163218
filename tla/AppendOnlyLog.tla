----------------------------- MODULE AppendOnlyLog -----------------------------
(***************************************************************************)
(* What the transparency log promises to those who read it, without          *)
(* processes, tables, indexes, locks or failures: records are appended and   *)
(* never moved or taken back, a signed head is the root of a prefix of the   *)
(* log and stays so, and a head shows a public receipt once it is anchored,  *)
(* and only its own (the docstring and check_consistency of                  *)
(* apps/api/app/services/transparency.py).                                   *)
(***************************************************************************)
EXTENDS Naturals, Sequences

CONSTANT RootAt(_, _)  \* RootAt(log, n): what commits to the first n records

VARIABLES
  log,       \* the records, in the order of their leaves
  heads,     \* the heads that were signed
  anchored,  \* the heads that are on the chain
  receipts   \* the receipts that checkpoints show: of which head, for which

publicVars == <<log, heads, anchored, receipts>>

HeadOf(records, n) == [size |-> n, root |-> RootAt(records, n)]
Receipt(head) == [head |-> head, of |-> head]

\* Whatever the log was before: no record twice, and heads of this log only.
PublicInit ==
  /\ \A i, k \in 1 .. Len(log) : log[i] = log[k] => i = k
  /\ \A head \in heads : head.size \in 1 .. Len(log) /\ head = HeadOf(log, head.size)
  /\ anchored \subseteq heads
  /\ receipts = {Receipt(head) : head \in anchored}

\* A record that is not in the log goes to its end; the head of the longer log may
\* be signed with it.
Extend ==
  /\ log' # <<>>
  /\ LET new == log'[Len(log')] IN
     /\ \A i \in 1 .. Len(log) : log[i] # new
     /\ log' = Append(log, new)
  /\ heads' \in {heads, heads \cup {HeadOf(log', Len(log'))}}
  /\ UNCHANGED <<anchored, receipts>>

\* The head of what somebody has read of the log, all of it or less, is signed.
Sign(n) ==
  /\ heads' = heads \cup {HeadOf(log, n)}
  /\ UNCHANGED <<log, anchored, receipts>>

\* A signed head goes to the chain and shows the receipt.
Anchor(head) ==
  /\ anchored' = anchored \cup {head}
  /\ receipts' = receipts \cup {Receipt(head)}
  /\ UNCHANGED <<log, heads>>

PublicNext ==
  \/ Extend
  \/ \E n \in 1 .. Len(log) : Sign(n)
  \/ \E head \in heads : Anchor(head)

PublicSpec == PublicInit /\ [][PublicNext]_publicVars
================================================================================
