----------------------------- MODULE StoredState -----------------------------
(* The account state: for each address a list of rows, one for each height   *)
(* at which a block changed the balance, linked from the newest to the       *)
(* oldest, and the transactions included so far with their heights.          *)
EXTENDS Transactions

CONSTANT MaxHeight  \* bound on the number of blocks applied

ASSUME StoredStateAssumption == MaxHeight \in Nat

\* genesisData: genesis transactions come without a fee and among themselves.
ASSUME GenesisAssumption ==
  /\ IsFiniteSet(Account)
  /\ \A b \in Block : \A t \in ToSet(Txs[b]) : t.from = None =>
       t.fee = 0 /\ \A s \in ToSet(Txs[b]) : s.from = None

VARIABLES
  rows,         \* rows[a]: height -> [balance, reason, prev]
  lastStates,   \* lastStates[a]: height of the newest row of a, 0 if none
  includedTx,   \* included transaction -> height
  stateHeight,
  applied       \* ghost: the blocks applied and not rolled back, in order

stateVars == <<rows, lastStates, includedTx, stateHeight, applied>>
-----------------------------------------------------------------------------
\* (Defect for mutation: the balance at height h, later dips forgotten.)
BalanceAt(a, h) ==
  LET loop[hh \in {0} \cup DOMAIN rows[a]] ==
        IF hh = 0 THEN 0
        ELSE IF hh <= h THEN rows[a][hh].balance ELSE loop[rows[a][hh].prev]
  IN  loop[lastStates[a]]

\* The balance of a from height h to now: the least balance of the rows newer
\* than h and of the newest row that is not.
BalanceSince(a, h) ==
  LET loop[hh \in DOMAIN rows[a]] ==
        LET row == rows[a][hh] IN
        IF hh <= h THEN row.balance
        ELSE IF row.prev = 0 THEN 0
        ELSE Min({row.balance, loop[row.prev]})
  IN  IF lastStates[a] = 0 THEN 0 ELSE loop[lastStates[a]]

Balance(a) == BalanceSince(a, stateHeight)

BalanceWithConfirmations(a, n) == BalanceSince(a, Max({1, stateHeight - n}))

Touched(b) == Involved(Txs[b]) \cup {Generator[b]}

NewBalance(b, a) == Balance(a) + BlockEffect(b, a)

\* (Defect for mutation: a transaction of another fork is not looked up.)
NeverIncluded(t) == FALSE

Included(t) == t \in DOMAIN includedTx

Processable(b) ==
  /\ \A t \in ToSet(Txs[b]) : ~Included(t)
  /\ \A a \in Touched(b) : NewBalance(b, a) >= 0

StateInit ==
  /\ rows = [a \in Account |-> <<>>] /\ lastStates = [a \in Account |-> 0]
  /\ includedTx = <<>> /\ stateHeight = 0 /\ applied = <<>>

\* processBlock with applyChanges: a row for every account the block touches.
ProcessBlock(b) ==
  LET h == stateHeight + 1
      row(a) == [balance |-> NewBalance(b, a), prev |-> lastStates[a],
                 reason |-> {t \in ToSet(Txs[b]) : a \in {t.from, t.to}}]
  IN  /\ Processable(b)
      /\ stateHeight' = h
      /\ rows' = [a \in Account |->
           IF a \in Touched(b)
           THEN [i \in DOMAIN rows[a] \cup {h} |-> IF i = h THEN row(a) ELSE rows[a][i]]
           ELSE rows[a]]
      /\ lastStates' = [a \in Account |->
           IF a \in Touched(b) THEN h ELSE lastStates[a]]
      /\ includedTx' = [t \in ToSet(Txs[b]) \cup DOMAIN includedTx |->
           IF t \in ToSet(Txs[b]) THEN h ELSE includedTx[t]]
      /\ applied' = Append(applied, b)

\* (Defect for mutation: deleteNewer stops after one row.)
Newest(a, r) == IF lastStates[a] > r THEN {lastStates[a]} ELSE {}

\* The heights deleteNewer visits from the newest row of a down to r.
Newer(a, r) ==
  LET visit[h \in {0} \cup DOMAIN rows[a]] ==
        IF h <= r THEN {} ELSE {h} \cup visit[rows[a][h].prev]
  IN  visit[lastStates[a]]

\* (Defect for mutation: the transactions of the deleted rows stay included.)
StaysIncluded(r) == {}

\* The transactions deleteNewer takes out of includedTx.
Forgotten(r) ==
  UNION {UNION {rows[a][h].reason : h \in Newer(a, r)} : a \in Account}

\* rollbackTo: drop the rows above r and the transactions they list.
RollbackTo(r) ==
  /\ rows' = [a \in Account |->
       [h \in DOMAIN rows[a] \ Newer(a, r) |-> rows[a][h]]]
  /\ lastStates' = [a \in Account |->
       IF Newer(a, r) = {} THEN lastStates[a]
                           ELSE rows[a][Min(Newer(a, r))].prev]
  /\ includedTx' = [t \in DOMAIN includedTx \ Forgotten(r) |-> includedTx[t]]
  /\ stateHeight' = r
  /\ applied' = SubSeq(applied, 1, Min({r, Len(applied)}))

\* The blocks the history offers: a genesis transaction only comes first.
Offered(b) ==
  (\E i \in DOMAIN Txs[b] : Txs[b][i].from = None) <=> stateHeight = 0

StateNext ==
  \/ \E b \in Block : stateHeight < MaxHeight /\ Offered(b) /\ ProcessBlock(b)
  \/ \E r \in 1..stateHeight : RollbackTo(r)

StateSpec == StateInit /\ [][StateNext]_stateVars
-----------------------------------------------------------------------------
(* validate: which transactions can be applied together. *)

\* The part of isValid that depends on the state; signatures and amounts of
\* transactions are valid here.
Acceptable(t) == ~Included(t) /\ (t.from = None => stateHeight = 0)

Balances == [a \in Account |-> Balance(a)]

AcceptableOf(trans) == {t \in ToSet(trans) : Acceptable(t)}

\* (Defect for mutation: one round, whatever it removes.)
SinglePass(trans) == Payable(trans, Filtered(trans, AcceptableOf(trans)), Balances)

Validate(trans) == ValidateAll(trans, Balances, AcceptableOf(trans))
-----------------------------------------------------------------------------
(* Properties *)

\* The rows of an account form one list from its newest row down, none above
\* the state height; balances are natural numbers.
TypeOK ==
  /\ stateHeight \in 0..MaxHeight /\ applied \in Seq(Block)
  /\ \A a \in Account :
       /\ DOMAIN rows[a] \subseteq 1..stateHeight
       /\ lastStates[a] = Max({0} \cup DOMAIN rows[a])
       /\ \A h \in DOMAIN rows[a] :
            /\ rows[a][h].balance \in Nat
            /\ rows[a][h].prev = Max({0} \cup {g \in DOMAIN rows[a] : g < h})

BalanceAfterBlocks(a, h) == BalanceAfter(SubSeq(applied, 1, h), a)

\* BalanceSheet: balanceWithConfirmations is the "minimum balance from current
\* block to balance confirmation blocks ago", whatever was rolled back before.
ConfirmedIsMinimum ==
  stateHeight > 0 => \A a \in Account, n \in 0..MaxHeight :
    BalanceWithConfirmations(a, n) =
      Min({BalanceAfterBlocks(a, h) : h \in Max({1, stateHeight - n})..stateHeight})

\* includedTx names exactly the transactions of the applied blocks, each with
\* the height of its block: none is left behind by a rollback.
IncludedMatches ==
  /\ DOMAIN includedTx = UNION {ToSet(Txs[applied[h]]) : h \in DOMAIN applied}
  /\ \A t \in DOMAIN includedTx : t \in ToSet(Txs[applied[includedTx[t]]])

\* StateTest: applying and rolling back blocks neither creates nor loses money;
\* the balances add up to what the genesis block gave out.
MoneyConserved ==
  MapThenSumSet(Balance, Account) =
    IF stateHeight = 0 THEN 0
    ELSE Total([i \in DOMAIN Txs[applied[1]] |-> Txs[applied[1]][i].amount])

\* The state implements the ledger: rows, links and rollbacks never show.
StoredLedger == INSTANCE Ledger WITH
  chain <- applied, balances <- [a \in Account |-> Balance(a)]

ImplementsLedger == StoredLedger!Spec

\* The transactions validate may be asked about: sequences without repetition.
Pools == UNION {{s \in [1..n -> UNION {ToSet(Txs[b]) : b \in Block}] :
                   IsInjective(s)} : n \in 1..3}

Affordable(txs) ==
  \A a \in Involved(txs) : Balance(a) + NetEffect(txs, a) >= 0

\* validate answers transactions that can be applied together, and all of them
\* when all can, if none it is asked about is already included.
ValidateFresh ==
  \A s \in Pools : (\A i \in DOMAIN s : Acceptable(s[i])) =>
    /\ Affordable(Validate(s))
    /\ Affordable(s) => Validate(s) = s

\* "return seq of valid transactions" (comment of validate): whatever it is
\* asked about, the answer can be applied together.
ValidateSound == \A s \in Pools : Affordable(Validate(s))
=============================================================================
