------------------------------- MODULE Ledger -------------------------------
(* What the account state promises: it is "a result of a sequential blocks   *)
(* applying" (State.scala).  A chain of blocks, each transaction at most     *)
(* once, no balance ever negative; it is extended or cut back to a prefix.   *)
EXTENDS Transactions

VARIABLES
  chain,     \* the blocks applied, oldest first
  balances   \* balances[a] after the last of them

Init == chain = <<>> /\ balances = [a \in Account |-> 0]

Extend(b) ==
  /\ \A i \in DOMAIN chain : ToSet(Txs[b]) \cap ToSet(Txs[chain[i]]) = {}
  /\ chain' = Append(chain, b)
  /\ balances' = [a \in Account |-> balances[a] + BlockEffect(b, a)]
  /\ \A a \in Account : balances'[a] >= 0

Cut(n) ==
  /\ chain' = SubSeq(chain, 1, n)
  /\ balances' = [a \in Account |-> BalanceAfter(chain', a)]

Next == (\E b \in Block : Extend(b)) \/ (\E n \in 1..Len(chain) : Cut(n))

Spec == Init /\ [][Next]_<<chain, balances>>
=============================================================================
