----------------------------- MODULE MC_BlockMerkle -----------------------------
(* Blocks of up to two payouts and five transactions: up to seven leaves,  *)
(* so stacks of one, two and three subtrees and every split of spec 4.B    *)
(* up to seven leaves occur.                                               *)
EXTENDS BlockMerkle
=============================================================================
