-------------------------- MODULE MCUnconfirmedPool --------------------------
(* a can pay for both of its transactions, b for its own once a has paid it; *)
(* the third is too old for a block from the beginning.                      *)
EXTENDS UnconfirmedPool

MCAccount == {"a", "b"}
MCStart == [a |-> 6, b |-> 3]
Pay(id, from, to, amount, fee, time) ==
  [id |-> id, from |-> from, to |-> to, amount |-> amount, fee |-> fee, time |-> time]
MCTx == {Pay(1, "a", "b", 2, 2, 0), Pay(2, "b", "a", 4, 1, 2), Pay(3, "a", "b", 1, 1, -2)}
=============================================================================
