---------------------------- MODULE MCStoredState ----------------------------
(* Three accounts, a genesis block that gives out 9, a transaction that two  *)
(* blocks hold, an empty block, payments an account cannot all afford, and   *)
(* a block whose generator pays itself.                                      *)
EXTENDS StoredState

Tx(id, from, to, amount, fee) ==
  [id |-> id, from |-> from, to |-> to, amount |-> amount, fee |-> fee]

GiveA == Tx("ga", "none", "A", 6, 0)
GiveB == Tx("gb", "none", "B", 3, 0)
PayAB == Tx("t1", "A", "B", 3, 1)
PayAC == Tx("t2", "A", "C", 2, 1)
PayCA == Tx("t3", "C", "A", 1, 1)
PayCB == Tx("t5", "C", "B", 1, 1)
PayBB == Tx("t6", "B", "B", 1, 1)
PayBC == Tx("t4", "B", "C", 1, 1)

MCAccount == {"A", "B", "C"}
MCTxs == [g |-> <<GiveA, GiveB>>, p |-> <<PayAB>>, q |-> <<PayAC>>,
          r |-> <<PayBC, PayAB>>, s |-> <<PayCA>>, e |-> <<>>,
          u |-> <<PayCB>>, v |-> <<PayBB>>]
MCBlock == {"g", "p", "q", "r", "s", "e", "u", "v"}
MCGenerator == [g |-> "C", p |-> "B", q |-> "B", r |-> "C", s |-> "C", e |-> "A",
                u |-> "A", v |-> "B"]
=============================================================================
