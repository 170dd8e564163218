----------------------------- MODULE MemberNetwork -----------------------------
(***************************************************************************)
(* The contracts of the attestation network                                  *)
(* (blockchain-local/contracts/CreatorProofNetwork.sol): the registry of     *)
(* members and who governs it, and the non-transferable clearance receipts.  *)
(*                                                                         *)
(* A transaction is one step.  One that reverts changes nothing and is not   *)
(* modelled; roles, organisations and the observer are data no guard reads.  *)
(***************************************************************************)
EXTENDS Naturals, Sequences, FiniteSets, SequencesExt

CONSTANTS
  Member,           \* accounts that may be enrolled
  Operator,         \* accounts that may govern or issue
  Deployer,         \* the first governor and issuer
  Founder,          \* the members enrolled by the deployment
  NoAccount,        \* address(0)
  Packet,
  MaxTransactions   \* bound on the transactions of a behaviour

ASSUME NetworkAssumption ==
  /\ Deployer \in Operator /\ NoAccount \notin Operator
  /\ Founder \subseteq Member /\ IsFiniteSet(Member)
  /\ MaxTransactions \in Nat

VARIABLES
  governor, pendingGovernor,
  status,             \* status[a]: Member.status
  activeMemberCount,
  issuer,
  receipt,            \* the receipts by token id
  balance,            \* _balances
  transactions

registryVars == <<governor, pendingGovernor, status, activeMemberCount>>
receiptVars == <<issuer, receipt, balance>>
networkVars == <<registryVars, receiptVars, transactions>>

MemberStatus == {"UNKNOWN", "ACTIVE", "SUSPENDED", "OFFBOARDED"}

NetworkInit ==
  /\ governor = Deployer /\ pendingGovernor = NoAccount /\ issuer = Deployer
  /\ status = [a \in Member |-> IF a \in Founder THEN "ACTIVE" ELSE "UNKNOWN"]
  /\ activeMemberCount = Cardinality(Founder)
  /\ receipt = <<>> /\ balance = [a \in Member |-> 0]
  /\ transactions = 0

Transact == transactions < MaxTransactions /\ transactions' = transactions + 1

--------------------------------------------------------------------------------
(* CreatorProofMemberRegistry. *)

ProposeGovernanceTransfer(sender, proposed) ==
  /\ Transact
  /\ sender = governor
  /\ pendingGovernor' = proposed
  /\ UNCHANGED <<governor, status, activeMemberCount, receiptVars>>

AcceptGovernance(sender) ==
  /\ Transact
  /\ sender = pendingGovernor
  /\ governor' = pendingGovernor /\ pendingGovernor' = NoAccount
  /\ UNCHANGED <<status, activeMemberCount, receiptVars>>

\* Also the only way back for an account that was off-boarded.
Enroll(sender, a) ==
  /\ Transact
  /\ sender = governor /\ status[a] # "ACTIVE"
  /\ status' = [status EXCEPT ![a] = "ACTIVE"]
  /\ activeMemberCount' = activeMemberCount + 1
  /\ UNCHANGED <<governor, pendingGovernor, receiptVars>>

\* Variant: only a suspension is counted.
CountedOnSuspension(a, new) ==
  CASE new = "ACTIVE" -> activeMemberCount + 1
    [] status[a] = "ACTIVE" /\ new = "SUSPENDED" -> activeMemberCount - 1
    [] OTHER -> activeMemberCount

\* activeMemberCount after _transition.
Counted(a, new) ==
  LET left == IF status[a] = "ACTIVE" /\ activeMemberCount > 0 THEN activeMemberCount - 1 ELSE activeMemberCount
  IN  IF new = "ACTIVE" THEN left + 1 ELSE left

\* _transition.
Transition(sender, a, new) ==
  /\ Transact
  /\ sender = governor
  /\ status[a] \notin {"UNKNOWN", "OFFBOARDED", new}
  /\ status' = [status EXCEPT ![a] = new]
  /\ activeMemberCount' = Counted(a, new)
  /\ UNCHANGED <<governor, pendingGovernor, receiptVars>>

Suspend(sender, a) == Transition(sender, a, "SUSPENDED")
Reinstate(sender, a) == status[a] = "SUSPENDED" /\ Transition(sender, a, "ACTIVE")
Offboard(sender, a) == Transition(sender, a, "OFFBOARDED")

--------------------------------------------------------------------------------
(* CreatorProofClearanceReceipt. *)

SetIssuer(sender, new) ==
  /\ Transact
  /\ sender = governor
  /\ issuer' = new
  /\ UNCHANGED <<registryVars, receipt, balance>>

Issue(sender, holder, packet) ==
  /\ Transact
  /\ sender = issuer
  /\ status[holder] = "ACTIVE"
  /\ \A id \in DOMAIN receipt : receipt[id].packet # packet
  /\ receipt' = Append(receipt, [holder |-> holder, packet |-> packet, revoked |-> FALSE])
  /\ balance' = [balance EXCEPT ![holder] = @ + 1]
  /\ UNCHANGED <<registryVars, issuer>>

Revoke(sender, id) ==
  /\ Transact
  /\ sender = issuer /\ ~receipt[id].revoked
  /\ receipt' = [receipt EXCEPT ![id].revoked = TRUE]
  /\ balance' = [balance EXCEPT ![receipt[id].holder] = IF @ > 0 THEN @ - 1 ELSE @]
  /\ UNCHANGED <<registryVars, issuer>>

NetworkNext ==
  \E sender \in Operator :
    \/ \E other \in Operator : ProposeGovernanceTransfer(sender, other) \/ SetIssuer(sender, other)
    \/ AcceptGovernance(sender)
    \/ \E a \in Member : Enroll(sender, a) \/ Suspend(sender, a) \/ Reinstate(sender, a) \/ Offboard(sender, a)
    \/ \E a \in Member, packet \in Packet : Issue(sender, a, packet)
    \/ \E id \in DOMAIN receipt : Revoke(sender, id)

Receipt == [holder : Member, packet : Packet, revoked : BOOLEAN]

NetworkTypeOK ==
  /\ governor \in Operator /\ pendingGovernor \in Operator \cup {NoAccount} /\ issuer \in Operator
  /\ status \in [Member -> MemberStatus] /\ activeMemberCount \in Nat
  /\ receipt \in Seq(Receipt)
  /\ balance \in [Member -> Nat] /\ transactions \in Nat

\* The counters operators and indexers read (activeMemberCount, balanceOf) are the
\* numbers of active members and of standing receipts, over any order of
\* enrolments, suspensions, off-boardings and revocations.
CountsAreTrue ==
  /\ activeMemberCount = Cardinality({a \in Member : status[a] = "ACTIVE"})
  /\ \A a \in Member :
       balance[a] = Cardinality({id \in DOMAIN receipt : receipt[id].holder = a /\ ~receipt[id].revoked})
================================================================================
