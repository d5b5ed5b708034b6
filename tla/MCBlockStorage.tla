---------------------------- MODULE MCBlockStorage ----------------------------
(* A genesis block and two branches of two blocks; one transaction is in a   *)
(* block of either branch.                                                   *)
EXTENDS BlockStorage

Tx(id, from, to, amount, fee) ==
  [id |-> id, from |-> from, to |-> to, amount |-> amount, fee |-> fee]

Give == Tx("g", "none", "A", 5, 0)
PayAB == Tx("t1", "A", "B", 1, 1)
PayBA == Tx("t2", "B", "A", 1, 0)

MCBlock == {"g", "a1", "a2", "b1", "b2"}
MCRef == [g |-> "none", a1 |-> "g", a2 |-> "a1", b1 |-> "g", b2 |-> "b1"]
MCDepth == [g |-> 1, a1 |-> 2, a2 |-> 3, b1 |-> 2, b2 |-> 3]
MCBlockScore == [g |-> 1, a1 |-> 1, a2 |-> 2, b1 |-> 2, b2 |-> 1]
MCAccount == {"A", "B"}
MCTxs == [g |-> <<Give>>, a1 |-> <<PayAB>>, a2 |-> <<PayBA>>,
          b1 |-> <<>>, b2 |-> <<PayAB>>]
MCGenerator == [b \in MCBlock |-> "B"]
=============================================================================
