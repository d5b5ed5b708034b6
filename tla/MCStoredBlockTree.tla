------------------------- MODULE MCStoredBlockTree -------------------------
(* Three branches from the genesis block: one of three blocks, one of three  *)
(* lighter and one of a single heavy block.                                  *)
EXTENDS StoredBlockTree

MCBlock == {"g", "a1", "a2", "a3", "b1", "b2", "b3", "c1"}

MCRef == [g |-> "none", a1 |-> "g", a2 |-> "a1", a3 |-> "a2",
          b1 |-> "g", b2 |-> "b1", b3 |-> "b2", c1 |-> "g"]

MCBlockScore == [g |-> 1, a1 |-> 1, a2 |-> 2, a3 |-> 1,
                 b1 |-> 1, b2 |-> 1, b3 |-> 3, c1 |-> 5]
=============================================================================
