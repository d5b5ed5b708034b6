------------------------------- MODULE MCNode -------------------------------
(* A node on the genesis block, and two peers: with forks of two and three   *)
(* blocks, or on one fork that goes on from a block the miner may add.       *)
EXTENDS Node

MCBlock == {"g", "a1", "a2", "b1", "b2", "b3", "c2", "c3", "c4", "c5", "m1"}
MCRef == [g |-> None, a1 |-> "g", a2 |-> "a1", b1 |-> "g", b2 |-> "b1", b3 |-> "b2",
          c2 |-> "m1", c3 |-> "c2", c4 |-> "c3", c5 |-> "c4", m1 |-> "g"]
MCBlockScore == [b \in MCBlock |-> IF b \in {"g", "a1", "a2", "m1"} THEN 1 ELSE 2]
MCLocalChain == <<"g">>
MCShortAnswers == [p |-> 2, q |-> 2]
\* One of the peers answers with a whole fork at once.
MCLongAnswer == [p |-> 2, q |-> 5]

\* Two forks, the second one better.
MCTwoForks == [p |-> <<"g", "a1", "a2">>, q |-> <<"g", "b1", "b2", "b3">>]
\* The second peer is one block ahead on the same fork.
MCMinedFork == [p |-> <<"g", "m1", "c2", "c3", "c4">>, q |-> <<"g", "m1", "c2", "c3", "c4", "c5">>]
=============================================================================
