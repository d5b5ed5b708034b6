------------------------------ MODULE Payments ------------------------------
(* Transactions between accounts: what a sequence of them changes in the     *)
(* balances, and which of them validate finds to be payable together.        *)
EXTENDS Integers, FiniteSets, SequencesExt

CONSTANT Account  \* the addresses

\* A transaction is [id, from, to, amount, fee]; its id stands for the signature.

\* The sum of a sequence of integers.
Total(seq) ==
  LET upTo[i \in 0..Len(seq)] == IF i = 0 THEN 0 ELSE upTo[i - 1] + seq[i]
  IN  upTo[Len(seq)]

\* The elements of a sequence that are in S.
Filtered(seq, S) ==
  LET upTo[i \in 0..Len(seq)] ==
        IF i = 0 THEN <<>>
        ELSE IF seq[i] \in S THEN Append(upTo[i - 1], seq[i]) ELSE upTo[i - 1]
  IN  upTo[Len(seq)]

\* balanceChanges: the sender pays amount and fee, the recipient gets amount.
Effect(t, a) ==
  (IF a = t.from THEN -t.amount - t.fee ELSE 0) +
  (IF a = t.to THEN t.amount ELSE 0)

NetEffect(txs, a) == Total([i \in DOMAIN txs |-> Effect(txs[i], a)])

\* The accounts that balanceChanges names.
Involved(txs) == UNION {{t.from, t.to} \cap Account : t \in ToSet(txs)}
-----------------------------------------------------------------------------
(* validate, for the balances bal and the transactions ok that are neither   *)
(* included nor invalid by themselves.                                       *)

\* The overspender's payments, dearest first, until their sum covers the debt.
\* They are taken from trans, not from the transactions still considered.
ToRemove(trans, debt, a) ==
  LET own == {i \in DOMAIN trans : trans[i].from = a}
      before(i) == {j \in own : \/ trans[j].amount > trans[i].amount
                                \/ trans[j].amount = trans[i].amount /\ j < i}
      covered(i) == Total([j \in DOMAIN trans |->
                       IF j \in before(i) THEN trans[j].amount + trans[j].fee ELSE 0])
  IN  {trans[i] : i \in {j \in own : debt + covered(j) < 0}}

\* What is left of txs, the transactions of trans that are ok.
Payable(trans, txs, bal) ==
  LET after(a) == bal[a] + NetEffect(txs, a)
      removed == UNION {ToRemove(trans, after(a), a) :
                          a \in {x \in Involved(txs) : after(x) < 0}}
  IN  Filtered(txs, ToSet(txs) \ removed)

\* A round that removes nothing is the last.
ValidateAll(trans, bal, ok) ==
  LET Part == UNION {[1..n -> ToSet(trans)] : n \in 0..Len(trans)}
      consider(s) == [trans |-> s, txs |-> Filtered(s, ok)]
      again[r \in [trans : Part, txs : Part]] ==
        LET left == Payable(r.trans, r.txs, bal)
        IN  IF Len(left) = Len(r.txs) THEN r ELSE consider(left)
      round[i \in 0..Len(trans)] ==
        IF i = 0 THEN consider(trans) ELSE again[round[i - 1]]
  IN  round[Len(trans)].txs
=============================================================================
