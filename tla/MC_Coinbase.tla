------------------------------ MODULE MC_Coinbase ------------------------------
(* A chain of 40 blocks with BlockHeight taken modulo 64: the coinbase      *)
(* reaches its minimum at height 15 and the uint64 difference wraps from   *)
(* height 21 on; the Foundation hardfork is at height 10.                  *)
EXTENDS Coinbase

MCGenesisOutputs == <<<<3, 4>>, <<>>, <<5>>>>
=============================================================================
