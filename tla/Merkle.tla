--------------------------------- MODULE Merkle ---------------------------------
(***************************************************************************)
(* The tree of the transparency log (apps/api/app/services/transparency.py): *)
(* heads, audit paths and their verification, level by level as the code     *)
(* computes them, beside the recursive definition of RFC 6962.               *)
(*                                                                         *)
(* SHA-256 is taken to be injective: a hash is the term that was hashed, and *)
(* the prefix byte 0 or 1 is the tag of the term.                            *)
(***************************************************************************)
EXTENDS Naturals, Sequences

LeafHash(packet) == <<"leaf", packet>>
NodeHash(left, right) == <<"node", left, right>>
EmptyRoot == <<"zero">>

\* Variant: a last node without a sibling is paired with itself.
NextLevelDuplicating(level) ==
  [i \in 1 .. (Len(level) + 1) \div 2 |->
     NodeHash(level[2 * i - 1], level[IF 2 * i <= Len(level) THEN 2 * i ELSE 2 * i - 1])]

\* One round of pairing; a last node without a sibling moves up as it is.
NextLevel(level) ==
  [i \in 1 .. (Len(level) + 1) \div 2 |->
     IF 2 * i <= Len(level) THEN NodeHash(level[2 * i - 1], level[2 * i]) ELSE level[2 * i - 1]]

\* The level reached after k rounds.  Len(leaves) rounds are enough for one node.
Level(leaves, k) ==
  LET up[n \in Nat] == IF n = 0 THEN leaves ELSE NextLevel(up[n - 1])
  IN  up[k]

ComputeRoot(leaves) == IF leaves = <<>> THEN EmptyRoot ELSE Level(leaves, Len(leaves))[1]

\* What one level adds to the audit path: nothing for a node that was promoted.
\* `cursor` counts from 0, as leaf_index does.
Step(level, cursor) ==
  IF cursor % 2 = 1 THEN <<[side |-> "left", hash |-> level[cursor]]>>
  ELSE IF cursor + 1 < Len(level) THEN <<[side |-> "right", hash |-> level[cursor + 2]]>>
  ELSE <<>>

\* One round of _root_and_proof for the leaf it climbs from.
Climbs(level, below) ==
  [cursor |-> below.cursor \div 2, path |-> below.path \o Step(level, below.cursor)]

Climb(leaves, index, k) ==
  LET at[n \in Nat] == IF n = 0 THEN [cursor |-> index, path |-> <<>>]
                       ELSE Climbs(Level(leaves, n - 1), at[n - 1])
  IN  at[k]

\* The audit path of the leaf at `index`.
AuditPath(leaves, index) == Climb(leaves, index, Len(leaves)).path

Combine(item, value) ==
  IF item.side = "left" THEN NodeHash(item.hash, value) ELSE NodeHash(value, item.hash)

\* What verify_inclusion has computed after k items of the path.
Recomputed(packet, path, k) ==
  LET value[n \in Nat] == IF n = 0 THEN LeafHash(packet) ELSE Combine(path[n], value[n - 1])
  IN  value[k]

VerifyInclusion(packet, root, path) == Recomputed(packet, path, Len(path)) = root

--------------------------------------------------------------------------------
(* The reference: RFC 6962, section 2.1. *)

Power[e \in Nat] == IF e = 0 THEN 1 ELSE 2 * Power[e - 1]

\* The largest power of two smaller than n.
Split(n) == CHOOSE k \in 1 .. n - 1 : (\E e \in 0 .. n : k = Power[e]) /\ 2 * k >= n

\* The tree hash of the n leaves from position `from` on.
TreeHash(leaves, from, n) ==
  LET hash[m \in Nat] ==
        [a \in Nat |-> IF m <= 1 THEN leaves[a]
                       ELSE NodeHash(hash[Split(m)][a], hash[m - Split(m)][a + Split(m)])]
  IN  hash[n][from]

IsTreeHead(leaves, root) ==
  root = IF leaves = <<>> THEN EmptyRoot ELSE TreeHash(leaves, 1, Len(leaves))
================================================================================
