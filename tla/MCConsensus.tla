---------------------------- MODULE MCConsensus ----------------------------
(* c has so much that the product with the base target is no Long.           *)
EXTENDS Consensus

MCBalance == [a |-> 3, b |-> 9, c |-> 40]
=============================================================================
