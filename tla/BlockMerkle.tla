----------------------------- MODULE BlockMerkle -----------------------------
(***************************************************************************)
(* The block's Merkle tree in src/types/block.go: Block.MerkleRoot, the     *)
(* subtree stack Block.MerkleBranches reads out of the tree, while the     *)
(* miner assembles the block.                                             *)
(*                                                                         *)
(* The tree is crypto.NewTree (gitlab.com/NebulousLabs/merkletree, not     *)
(* under src/): Push adds a leaf as a subtree of height 0 at the head of a  *)
(* stack and joins the head with the next subtree while both have the same *)
(* height; Root folds the stack from the head.  Hashes are kept as terms:  *)
(* LeafSum(x) and NodeSum(l, r) are distinct for distinct arguments, which *)
(* is what the collision resistance of the domain-separated hash gives     *)
(* (spec 4.B).  A leaf is the encoding of a payout or a transaction, so it *)
(* is that payout or transaction.                                         *)
(***************************************************************************)
EXTENDS Naturals, Sequences

CONSTANTS
  Payouts,        \* miner payouts (siacoin outputs)
  Transactions,   \* transactions
  MaxPayouts,     \* bound on the payouts of a block
  MaxTransactions \* bound on the transactions of a block

ASSUME ConstantsAssumption ==
  /\ MaxPayouts \in Nat /\ MaxTransactions \in Nat
  /\ Payouts \cap Transactions = {}

LeafSum(x) == <<"leaf", x>>
NodeSum(l, r) == <<"node", l, r>>

\* hex.EncodeToString of a sum, and its inverse.
Hex(sum) == <<"hex", sum>>
HexDecode(h) == h[2]

VARIABLES
  payouts,  \* the block's MinerPayouts
  txns      \* the block's Transactions

vars == <<payouts, txns>>

-----------------------------------------------------------------------------

\* The leaves in the order both MerkleRoot (lines 150-165) and
\* MerkleBranches (lines 201-214) push them: payouts, then transactions.
Leaves == payouts \o txns

\* joinAllSubTrees: while the head and the next subtree have the same
\* height, replace both by their parent.  A subtree is [height, sum]; the
\* stack is a sequence with the head first.
RECURSIVE JoinAllSubTrees(_)
JoinAllSubTrees(stack) ==
  IF Len(stack) >= 2 /\ stack[1].height = stack[2].height
  THEN JoinAllSubTrees(<<[height |-> stack[1].height + 1,
                          sum |-> NodeSum(stack[2].sum, stack[1].sum)]>>
                       \o SubSeq(stack, 3, Len(stack)))
  ELSE stack

\* Tree.Push: a new leaf subtree at the head, then the joins.
Push(stack, data) ==
  JoinAllSubTrees(<<[height |-> 0, sum |-> LeafSum(data)]>> \o stack)

\* The stack after pushing every leaf of a sequence, in order.
RECURSIVE PushAll(_, _)
PushAll(stack, leaves) ==
  IF leaves = <<>> THEN stack ELSE PushAll(Push(stack, Head(leaves)), Tail(leaves))

\* Tree.Root: fold the stack from the head, each older subtree on the left.
RECURSIVE FoldRoot(_, _)
FoldRoot(acc, rest) ==
  IF rest = <<>> THEN acc ELSE FoldRoot(NodeSum(rest[1].sum, acc), Tail(rest))

StackRoot(stack) ==
  IF stack = <<>> THEN <<"empty">> ELSE FoldRoot(stack[1].sum, Tail(stack))

\* Block.MerkleRoot (lines 150-165).
MerkleRoot == StackRoot(PushAll(<<>>, Leaves))

\* Mutant: the walk over the subtrees starts after the head.
MerkleBranchesSkipHead ==
  LET stack == PushAll(<<>>, Leaves)
  IN  [i \in 1..Len(stack) - 1 |-> Hex(stack[i + 1].sum)]

\* Block.MerkleBranches (lines 201-243): push every leaf into a fresh tree
\* and list the hex of each subtree's sum, from the head.
MerkleBranches ==
  LET stack == PushAll(<<>>, Leaves)
  IN  [i \in 1..Len(stack) |-> Hex(stack[i].sum)]

-----------------------------------------------------------------------------

\* The miner adds a payout or a transaction to the block it assembles.
AddPayout ==
  /\ Len(payouts) < MaxPayouts
  /\ \E p \in Payouts : payouts' = Append(payouts, p)
  /\ UNCHANGED txns

AddTransaction ==
  /\ Len(txns) < MaxTransactions
  /\ \E t \in Transactions : txns' = Append(txns, t)
  /\ UNCHANGED payouts

Init == payouts = <<>> /\ txns = <<>>

Next == AddPayout \/ AddTransaction

Spec == Init /\ [][Next]_vars

-----------------------------------------------------------------------------
(* Properties.                                                             *)

RECURSIVE Pow2(_)
Pow2(h) == IF h = 0 THEN 1 ELSE 2 * Pow2(h - 1)

\* The branches MerkleBranches returns (its walk over the tree's subtrees,
\* lines 238-241) are the whole stack of subtrees, one per bit of the
\* binary decomposition of the number of leaves, smallest first, so that
\* folding them from the first, each later branch on the left, gives back
\* the block's Merkle root; none is skipped and the order is the stack's.
BranchesDetermineRoot ==
  LET stack == PushAll(<<>>, Leaves)
      b == MerkleBranches
  IN  /\ \A i \in 1..Len(stack) - 1 : stack[i].height < stack[i + 1].height
      /\ Len(Leaves) = LET f[i \in 0..Len(stack)] ==
                             IF i = 0 THEN 0 ELSE f[i - 1] + Pow2(stack[i].height)
                       IN  f[Len(stack)]
      /\ Leaves # <<>> =>
           /\ b # <<>>
           /\ FoldRoot(HexDecode(b[1]), [i \in 1..Len(b) - 1 |->
                                           [sum |-> HexDecode(b[i + 1])]])
              = MerkleRoot

=============================================================================
