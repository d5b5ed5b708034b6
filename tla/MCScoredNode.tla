---------------------------- MODULE MCScoredNode ----------------------------
(* A node and two peers with better chains, and a node whose own chain has   *)
(* more blocks since the common one than are taken of a fork at a time.      *)
EXTENDS ScoredNode

MCBlock == {"g", "a1", "a2", "a3", "b1", "b2", "c1", "c2", "c3", "c4", "m1"}
MCRef == [g |-> None, a1 |-> "g", a2 |-> "a1", a3 |-> "a2", b1 |-> "g", b2 |-> "b1",
          c1 |-> "g", c2 |-> "c1", c3 |-> "c2", c4 |-> "c3", m1 |-> "g"]
MCBlockScore == [b \in MCBlock |-> IF b \in {"b1", "b2"} THEN 2 ELSE 1]
MCAnswerLength == [p |-> 2, q |-> 2]

MCGenesisOnly == <<"g">>
MCTwoForks == [p |-> <<"g", "a1", "a2">>, q |-> <<"g", "b1", "b2">>]

MCThreeBlocks == <<"g", "a1", "a2", "a3">>
MCFourBlockForks == [p \in {"p", "q"} |-> <<"g", "c1", "c2", "c3", "c4">>]
=============================================================================
