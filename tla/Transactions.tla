---------------------------- MODULE Transactions ----------------------------
(* What the transactions of a block change in the balances of the accounts.  *)
EXTENDS Payments, Blocks

CONSTANTS
  Generator,  \* Generator[b]: the account that forged b and earns its fees
  Txs         \* Txs[b]: the sequence of transactions of b

\* A genesis transaction comes from None.
IsTx(t) == /\ t.from \in Account \cup {None} /\ t.to \in Account
           /\ t.amount \in Nat /\ t.fee \in Nat

ASSUME TransactionsAssumption ==
  /\ None \notin Account
  /\ Generator \in [Block -> Account]
  /\ \A b \in Block : /\ Txs[b] \in Seq(ToSet(Txs[b]))
                      /\ \A t \in ToSet(Txs[b]) : IsTx(t)

\* (Defect for mutation: nobody earns the fees.)
FeesBurned(b, a) == 0

\* All fees of a block go to its one generator.
FeesOf(b, a) ==
  IF a = Generator[b] THEN Total([i \in DOMAIN Txs[b] |-> Txs[b][i].fee]) ELSE 0

BlockEffect(b, a) == FeesOf(b, a) + NetEffect(Txs[b], a)

\* What the blocks of c change in the balance of a.
BalanceAfter(c, a) == Total([i \in DOMAIN c |-> BlockEffect(c[i], a)])
=============================================================================
