------------------------- MODULE BlockStorageProofs -------------------------
(* For any blocks, accounts and transactions, and any order of appends,      *)
(* removals, reads, failures, commits and crashes: the linked rows of the    *)
(* state hold the balances that the blocks make, the stored chain is linked  *)
(* from the genesis block and indexed and scored consistently, and the state *)
(* goes along with it.                                                       *)
EXTENDS BlockStorage, PaymentsProofs, FiniteSetTheorems

(* The account state *)
-----------------------------------------------------------------------------
(* Balances *)

LEMMA TxTypes ==
  ASSUME NEW b \in Block
  PROVE  /\ Len(Txs[b]) \in Nat /\ DOMAIN Txs[b] = 1..Len(Txs[b])
         /\ \A i \in 1..Len(Txs[b]) : Txs[b][i] \in ToSet(Txs[b]) /\ IsTx(Txs[b][i])
         /\ \A t \in ToSet(Txs[b]) : IsTx(t) /\ t.to \in Touched(b)
                                     /\ (t.from \in Touched(b) \/ t.from = None)
         /\ Touched(b) \subseteq Account
<1>1. Txs[b] \in Seq(ToSet(Txs[b])) /\ \A t \in ToSet(Txs[b]) : IsTx(t)
  BY TransactionsAssumption
<1>2. Len(Txs[b]) \in Nat /\ DOMAIN Txs[b] = 1..Len(Txs[b])
  BY <1>1
<1>3. \A i \in 1..Len(Txs[b]) : Txs[b][i] \in ToSet(Txs[b])
  BY <1>2 DEF ToSet
<1>4. ASSUME NEW t \in ToSet(Txs[b])
      PROVE  t.to \in Touched(b) /\ (t.from \in Touched(b) \/ t.from = None)
  <2>1. {t.from, t.to} \cap Account \subseteq Touched(b)
    BY DEF Touched, Involved
  <2>2. t.to \in Account /\ t.from \in Account \cup {None}
    BY <1>1 DEF IsTx
  <2>. QED BY <2>1, <2>2
<1>5. Touched(b) \subseteq Account
  BY TransactionsAssumption DEF Touched, Involved
<1>. QED BY <1>1, <1>2, <1>3, <1>4, <1>5

\* A block changes the balances of the accounts it touches.
LEMMA EffectOfBlock ==
  ASSUME NEW b \in Block, NEW a \in Account
  PROVE  BlockEffect(b, a) \in Int /\ (a \notin Touched(b) => BlockEffect(b, a) = 0)
<1>. DEFINE fees == [i \in DOMAIN Txs[b] |-> Txs[b][i].fee]
            effects == [i \in DOMAIN Txs[b] |-> Effect(Txs[b][i], a)]
            n == Len(Txs[b])
<1>1. n \in Nat /\ DOMAIN Txs[b] = 1..n
  BY TxTypes
<1>2. Len(fees) = n /\ \A i \in 1..n : fees[i] \in Int
  BY <1>1, TxTypes DEF IsTx
<1>3. Len(effects) = n /\ \A i \in 1..n : effects[i] \in Int
  BY <1>1, TxTypes DEF IsTx, Effect
<1>4. Total(fees) \in Int /\ Total(effects) \in Int
  <2>. HIDE DEF fees, effects
  <2>. QED BY <1>1, <1>2, <1>3, TotalInt
<1>5. ASSUME a \notin Touched(b) PROVE Total(effects) = 0 /\ a # Generator[b]
  <2>1. \A i \in 1..n : effects[i] = 0
    <3> TAKE i \in 1..n
    <3>1. Txs[b][i].to # a
      BY <1>5, TxTypes
    <3>2. Txs[b][i].from # a
      BY <1>5, TxTypes, TransactionsAssumption
    <3>. QED BY <1>1, <3>1, <3>2 DEF Effect
  <2>2. Total(effects) = 0
    <3>. HIDE DEF effects
    <3>. QED BY <1>1, <1>3, <2>1, TotalZero
  <2>. QED BY <1>5, <2>2 DEF Touched
<1>. QED BY <1>4, <1>5 DEF BlockEffect, FeesOf, NetEffect

LEMMA BalanceAfterNone ==
  ASSUME NEW a PROVE BalanceAfter(<<>>, a) = 0
BY TotalEmpty DEF BalanceAfter

LEMMA BalanceAfterInt ==
  ASSUME NEW c \in Seq(Block), NEW a \in Account
  PROVE  BalanceAfter(c, a) \in Int
<1>. DEFINE s == [i \in DOMAIN c |-> BlockEffect(c[i], a)]
<1>1. Len(s) = Len(c) /\ Len(c) \in Nat /\ \A i \in 1..Len(c) : s[i] \in Int
  BY EffectOfBlock
<1>. HIDE DEF s
<1>2. Total(s) \in Int
  BY <1>1, TotalInt
<1>. QED BY <1>2 DEF BalanceAfter, s

\* c and one block more.
LEMMA BalanceAfterNext ==
  ASSUME NEW c \in Seq(Block), NEW d \in Seq(Block), NEW a \in Account,
         Len(d) = Len(c) + 1, \A i \in 1..Len(c) : c[i] = d[i]
  PROVE  BalanceAfter(d, a) = BalanceAfter(c, a) + BlockEffect(d[Len(d)], a)
<1>. DEFINE s == [i \in DOMAIN c |-> BlockEffect(c[i], a)]
            t == [i \in DOMAIN d |-> BlockEffect(d[i], a)]
<1>1. Len(s) = Len(c) /\ Len(t) = Len(d) /\ Len(c) \in Nat /\ Len(d) \in Nat
  OBVIOUS
<1>2. \A i \in 1..Len(d) : t[i] \in Int
  BY EffectOfBlock
<1>3. \A i \in 1..Len(c) : s[i] = t[i]
  BY <1>1
<1>4. t[Len(d)] = BlockEffect(d[Len(d)], a)
  BY <1>1
<1>. HIDE DEF s, t
<1>5. Total(t) = Total(s) + t[Len(t)]
  BY <1>1, <1>2, <1>3, TotalNext
<1>. QED BY <1>1, <1>4, <1>5 DEF BalanceAfter, s, t

\* Chains that agree up to a height give the same balance there.
LEMMA SameChain ==
  ASSUME NEW c \in Seq(Block), NEW d \in Seq(Block), NEW h \in Nat,
         h <= Len(c), h <= Len(d), \A i \in 1..h : c[i] = d[i]
  PROVE  SubSeq(c, 1, h) = SubSeq(d, 1, h)
OBVIOUS

\* Blocks that do not touch an account leave its balance.
LEMMA UntouchedBalance ==
  ASSUME NEW c \in Seq(Block), NEW a \in Account,
         NEW g \in 0..Len(c), NEW h \in g..Len(c),
         \A i \in g + 1..h : a \notin Touched(c[i])
  PROVE  BalanceAfter(SubSeq(c, 1, h), a) = BalanceAfter(SubSeq(c, 1, g), a)
<1>. DEFINE S == {k \in Nat : g + k <= h =>
              BalanceAfter(SubSeq(c, 1, g + k), a) = BalanceAfter(SubSeq(c, 1, g), a)}
<1>1. 0 \in S
  OBVIOUS
<1>2. ASSUME NEW k \in Nat, k \in S PROVE k + 1 \in S
  <2>1. SUFFICES ASSUME g + (k + 1) <= h
                 PROVE BalanceAfter(SubSeq(c, 1, g + (k + 1)), a) = BalanceAfter(SubSeq(c, 1, g), a)
    OBVIOUS
  <2>. DEFINE p == SubSeq(c, 1, g + k)  q == SubSeq(c, 1, g + (k + 1))
  <2>2. /\ p \in Seq(Block) /\ q \in Seq(Block) /\ Len(q) = Len(p) + 1
        /\ \A i \in 1..Len(p) : p[i] = q[i]
        /\ q[Len(q)] = c[g + (k + 1)] /\ c[g + (k + 1)] \in Block
    BY <2>1
  <2>3. BlockEffect(q[Len(q)], a) = 0
    BY <2>1, <2>2, EffectOfBlock
  <2>4. BalanceAfter(p, a) = BalanceAfter(SubSeq(c, 1, g), a)
    BY <1>2, <2>1
  <2>. HIDE DEF p, q
  <2>5. BalanceAfter(q, a) = BalanceAfter(p, a)
    <3>1. BalanceAfter(q, a) = BalanceAfter(p, a) + BlockEffect(q[Len(q)], a)
      BY <2>2, BalanceAfterNext
    <3>2. BalanceAfter(p, a) \in Int
      BY <2>2, BalanceAfterInt
    <3>. QED BY <2>3, <3>1, <3>2
  <2>. QED BY <2>4, <2>5 DEF q
<1>. HIDE DEF S
<1>3. h - g \in S
  BY <1>1, <1>2, Induction
<1>. QED BY <1>3 DEF S
-----------------------------------------------------------------------------
(* The invariant *)

\* The greatest height of S below h, 0 if there is none.
Below(S, h) == Max({0} \cup {g \in S : g < h})

\* An account has a row for every block that touches it, with the balance after
\* that block and its transactions, linked to the one before.
RowsMatch ==
  /\ DOMAIN rows = Account /\ DOMAIN lastStates = Account
  /\ \A a \in Account :
       /\ DOMAIN rows[a] = {h \in 1..stateHeight : a \in Touched(applied[h])}
       /\ lastStates[a] = Max({0} \cup DOMAIN rows[a])
       /\ \A h \in DOMAIN rows[a] :
            /\ rows[a][h].balance = BalanceAfterBlocks(a, h)
            /\ rows[a][h].balance \in Nat
            /\ rows[a][h].prev = Below(DOMAIN rows[a], h)
            /\ rows[a][h].reason = {t \in ToSet(Txs[applied[h]]) : a \in {t.from, t.to}}

\* Every transaction of an applied block is included at that block's height:
\* it is in no other.
TransactionsOnce ==
  /\ DOMAIN includedTx = UNION {ToSet(Txs[applied[h]]) : h \in 1..stateHeight}
  /\ \A h \in 1..stateHeight : \A t \in ToSet(Txs[applied[h]]) : includedTx[t] = h

StateInv ==
  /\ stateHeight \in 0..MaxHeight
  /\ applied \in Seq(Block) /\ Len(applied) = stateHeight
  /\ RowsMatch /\ TransactionsOnce

LEMMA InitStateInv == StateInit => StateInv
<1>. SUFFICES ASSUME StateInit PROVE StateInv
  OBVIOUS
<1>1. /\ rows = [a \in Account |-> <<>>] /\ lastStates = [a \in Account |-> 0]
      /\ includedTx = <<>> /\ stateHeight = 0 /\ applied = <<>>
  BY DEF StateInit
<1>2. Max({0}) = 0
  BY MaxIs
<1>3. RowsMatch
  BY <1>1, <1>2 DEF RowsMatch
<1>4. TransactionsOnce
  BY <1>1 DEF TransactionsOnce
<1>. QED BY <1>1, <1>3, <1>4, StoredStateAssumption DEF StateInv

LEMMA BelowIs ==
  ASSUME NEW n \in Nat, NEW S \in SUBSET (1..n), NEW h \in 0..n + 1
  PROVE  /\ Below(S, h) \in {0} \cup S
         /\ Below(S, h) = 0 \/ Below(S, h) < h
         /\ \A g \in S : g < h => g <= Below(S, h)
<1>. DEFINE T == {0} \cup {g \in S : g < h}
<1>1. T \subseteq 0..n /\ T # {}
  <2>1. \A x \in T : x \in 0..n
    OBVIOUS
  <2>2. 0 \in T
    OBVIOUS
  <2>. QED BY <2>1, <2>2, Zenon
<1>2. Max(T) \in T /\ \A x \in T : x <= Max(T)
  <2>. HIDE DEF T
  <2>. QED BY <1>1, MaxIsGreatest
<1>. QED BY <1>2 DEF Below

LEMMA BelowIsOnly ==
  ASSUME NEW n \in Nat, NEW S \in SUBSET (1..n), NEW h \in 0..n + 1,
         NEW m \in {0} \cup S, m = 0 \/ m < h, \A g \in S : g < h => g <= m
  PROVE  Below(S, h) = m
<1>. DEFINE T == {0} \cup {g \in S : g < h}
<1>1. T \subseteq Nat /\ m \in T /\ \A x \in T : x <= m
  <2>1. \A x \in T : x \in Nat /\ x <= m
    OBVIOUS
  <2>2. m \in T
    OBVIOUS
  <2>. QED BY <2>1, <2>2, Zenon
<1>2. Max(T) = m
  <2>. HIDE DEF T
  <2>. QED BY <1>1, MaxIs
<1>. QED BY <1>2 DEF Below

\* What the invariant says of one account.
LEMMA RowsOf ==
  ASSUME StateInv, NEW a \in Account
  PROVE  /\ stateHeight \in Nat /\ applied \in Seq(Block) /\ Len(applied) = stateHeight
         /\ DOMAIN rows[a] = {h \in 1..stateHeight : a \in Touched(applied[h])}
         /\ DOMAIN rows[a] \subseteq 1..stateHeight
         /\ lastStates[a] = Below(DOMAIN rows[a], stateHeight + 1)
         /\ \A h \in DOMAIN rows[a] :
              /\ rows[a][h].balance = BalanceAfterBlocks(a, h)
              /\ rows[a][h].balance \in Nat
              /\ rows[a][h].prev = Below(DOMAIN rows[a], h)
              /\ rows[a][h].reason = {t \in ToSet(Txs[applied[h]]) : a \in {t.from, t.to}}
<1>1. stateHeight \in Nat /\ applied \in Seq(Block) /\ Len(applied) = stateHeight
  BY StoredStateAssumption DEF StateInv
<1>2. /\ DOMAIN rows[a] = {h \in 1..stateHeight : a \in Touched(applied[h])}
      /\ lastStates[a] = Max({0} \cup DOMAIN rows[a])
      /\ \A h \in DOMAIN rows[a] :
           /\ rows[a][h].balance = BalanceAfterBlocks(a, h)
           /\ rows[a][h].balance \in Nat
           /\ rows[a][h].prev = Below(DOMAIN rows[a], h)
           /\ rows[a][h].reason = {t \in ToSet(Txs[applied[h]]) : a \in {t.from, t.to}}
  BY Zenon DEF StateInv, RowsMatch
<1>3. \A h \in DOMAIN rows[a] : h \in 1..stateHeight
  BY <1>2
<1>4. DOMAIN rows[a] = {g \in DOMAIN rows[a] : g < stateHeight + 1}
  BY <1>1, <1>3
<1>5. lastStates[a] = Below(DOMAIN rows[a], stateHeight + 1)
  BY <1>2, <1>4, Zenon DEF Below
<1>. QED BY <1>1, <1>2, <1>3, <1>5

\* The balance at a height is that of the newest row up to it.
LEMMA BalanceOfRow ==
  ASSUME StateInv, NEW a \in Account, NEW g \in 0..stateHeight
  PROVE  LET p == Below(DOMAIN rows[a], g + 1) IN
         /\ p \in 0..g /\ (p = 0 \/ p \in DOMAIN rows[a])
         /\ \A i \in DOMAIN rows[a] : ~(p < i /\ i <= g)
         /\ BalanceAfterBlocks(a, g) = BalanceAfterBlocks(a, p)
         /\ BalanceAfterBlocks(a, g) \in Nat
         /\ p = 0 => BalanceAfterBlocks(a, g) = 0
<1>. DEFINE D == DOMAIN rows[a]
            p == Below(D, g + 1)
<1>1. /\ stateHeight \in Nat /\ applied \in Seq(Block) /\ Len(applied) = stateHeight
      /\ D = {h \in 1..stateHeight : a \in Touched(applied[h])}
      /\ D \subseteq 1..stateHeight
      /\ \A h \in D : rows[a][h].balance = BalanceAfterBlocks(a, h)
                      /\ rows[a][h].balance \in Nat
  BY RowsOf
<1>2. g + 1 \in 0..stateHeight + 1
  BY <1>1
<1>. HIDE DEF D
<1>3. /\ p \in {0} \cup D /\ (p = 0 \/ p < g + 1)
      /\ \A i \in D : i < g + 1 => i <= p
  BY <1>1, <1>2, BelowIs
<1>. HIDE DEF p
<1>4. p \in 0..g /\ \A i \in D : ~(p < i /\ i <= g)
  BY <1>1, <1>2, <1>3
<1>5. \A i \in p + 1..g : a \notin Touched(applied[i])
  BY <1>1, <1>4
<1>6. BalanceAfterBlocks(a, g) = BalanceAfterBlocks(a, p)
  BY <1>1, <1>4, <1>5, UntouchedBalance DEF BalanceAfterBlocks
<1>7. p = 0 => BalanceAfterBlocks(a, p) = 0
  <2>1. SubSeq(applied, 1, 0) = <<>>
    BY <1>1
  <2>. QED BY <2>1, BalanceAfterNone DEF BalanceAfterBlocks
<1>8. p # 0 => BalanceAfterBlocks(a, p) \in Nat
  BY <1>1, <1>3
<1>. QED BY <1>3, <1>4, <1>6, <1>7, <1>8 DEF p, D

\* The least balance of a from height i to height k.
LeastOf(a, i, k) == Min({BalanceAfterBlocks(a, g) : g \in i..k})

\* What the walk along the rows answers for the row at hh.
LeastSince(a, h, hh) ==
  IF hh <= h THEN BalanceAfterBlocks(a, hh) ELSE LeastOf(a, h, hh)

\* One step of the walk: f is asked for the row before.
SinceStep(f, a, h, hh) ==
  LET row == rows[a][hh] IN
  IF hh <= h THEN row.balance
  ELSE IF row.prev = 0 THEN 0
  ELSE Min({row.balance, f[row.prev]})

LEMMA MinOfSet ==
  ASSUME NEW S \in SUBSET Nat, S # {}
  PROVE  Min(S) \in S /\ \A x \in S : Min(S) <= x
<1>1. PICK m \in S : \A x \in S : m <= x
  BY SmallestExists
<1>. QED BY <1>1, MinIs

LEMMA LeastIs ==
  ASSUME NEW a, NEW i, NEW k, NEW g \in i..k,
         \A x \in i..k : BalanceAfterBlocks(a, x) \in Nat
                         /\ BalanceAfterBlocks(a, g) <= BalanceAfterBlocks(a, x)
  PROVE  LeastOf(a, i, k) = BalanceAfterBlocks(a, g)
<1>. DEFINE S == {BalanceAfterBlocks(a, x) : x \in i..k}
            m == BalanceAfterBlocks(a, g)
<1>1. m \in S /\ S \subseteq Nat /\ \A y \in S : m <= y
  OBVIOUS
<1>. HIDE DEF S, m
<1>2. Min(S) = m
  BY <1>1, MinIs
<1>. QED BY <1>2 DEF LeastOf, S, m

LEMMA LeastExists ==
  ASSUME NEW a, NEW i \in Nat, NEW k \in Nat, i <= k,
         \A x \in i..k : BalanceAfterBlocks(a, x) \in Nat
  PROVE  \E g \in i..k : /\ LeastOf(a, i, k) = BalanceAfterBlocks(a, g)
                         /\ \A x \in i..k : BalanceAfterBlocks(a, g) <= BalanceAfterBlocks(a, x)
<1>. DEFINE S == {BalanceAfterBlocks(a, x) : x \in i..k}
<1>1. S \subseteq Nat /\ BalanceAfterBlocks(a, i) \in S
  OBVIOUS
<1>2. Min(S) \in S /\ \A y \in S : Min(S) <= y
  <2>. HIDE DEF S
  <2>. QED BY <1>1, MinOfSet
<1>. QED BY <1>2 DEF LeastOf

\* The links lead down: the row before is lower and nothing lies between.
LEMMA PrevOf ==
  ASSUME StateInv, NEW a \in Account, NEW hh \in DOMAIN rows[a]
  PROVE  LET p == rows[a][hh].prev IN
         /\ hh \in 1..stateHeight /\ p \in 0..hh - 1
         /\ p = 0 \/ p \in DOMAIN rows[a]
         /\ \A i \in DOMAIN rows[a] : ~(p < i /\ i < hh)
         /\ \A g \in p..hh - 1 : BalanceAfterBlocks(a, g) = BalanceAfterBlocks(a, p)
         /\ p = 0 => BalanceAfterBlocks(a, p) = 0
<1>1. /\ stateHeight \in Nat /\ hh \in 1..stateHeight
      /\ rows[a][hh].prev = Below(DOMAIN rows[a], hh)
      /\ applied \in Seq(Block) /\ Len(applied) = stateHeight
      /\ DOMAIN rows[a] = {h \in 1..stateHeight : a \in Touched(applied[h])}
  BY RowsOf
<1>2. PICK p : p = rows[a][hh].prev
  OBVIOUS
<1>3. hh - 1 \in 0..stateHeight /\ (hh - 1) + 1 = hh
  BY <1>1
<1>4. /\ p \in 0..hh - 1 /\ (p = 0 \/ p \in DOMAIN rows[a])
      /\ \A i \in DOMAIN rows[a] : ~(p < i /\ i <= hh - 1)
      /\ BalanceAfterBlocks(a, hh - 1) = BalanceAfterBlocks(a, p)
      /\ p = 0 => BalanceAfterBlocks(a, hh - 1) = 0
  BY <1>1, <1>2, <1>3, BalanceOfRow
<1>5. \A i \in DOMAIN rows[a] : ~(p < i /\ i < hh)
  BY <1>1, <1>4
<1>6. ASSUME NEW g \in p..hh - 1
      PROVE  BalanceAfterBlocks(a, g) = BalanceAfterBlocks(a, p)
  <2>1. p \in 0..Len(applied) /\ g \in p..Len(applied)
    BY <1>1, <1>4
  <2>2. \A i \in p + 1..g : a \notin Touched(applied[i])
    BY <1>1, <1>4, <1>5
  <2>. QED BY <1>1, <2>1, <2>2, UntouchedBalance DEF BalanceAfterBlocks
<1>. QED BY <1>1, <1>2, <1>4, <1>5, <1>6

\* The least balances since h meet the equation of the walk.
LEMMA LeastSinceSteps ==
  ASSUME StateInv, NEW a \in Account, NEW h \in 0..stateHeight,
         NEW hh \in DOMAIN rows[a], NEW f,
         \A k \in DOMAIN rows[a] : k < hh => f[k] = LeastSince(a, h, k)
  PROVE  SinceStep(f, a, h, hh) = LeastSince(a, h, hh)
<1>. DEFINE B(g) == BalanceAfterBlocks(a, g)
<1>1. PICK p : p = rows[a][hh].prev
  OBVIOUS
<1>2. /\ stateHeight \in Nat /\ hh \in 1..stateHeight /\ p \in 0..hh - 1
      /\ p = 0 \/ p \in DOMAIN rows[a]
      /\ \A g \in p..hh - 1 : B(g) = B(p)
      /\ p = 0 => B(p) = 0
  BY <1>1, PrevOf, RowsOf
<1>3. rows[a][hh].balance = B(hh)
  BY RowsOf
<1>4. \A g \in 0..hh : B(g) \in Nat
  <2>1. \A g \in 0..stateHeight : B(g) \in Nat
    BY BalanceOfRow
  <2>. QED BY <1>2, <2>1
<1>5. CASE hh <= h
  BY <1>3, <1>5 DEF SinceStep, LeastSince
<1>6. CASE hh > h
  <2>0. LeastSince(a, h, hh) = LeastOf(a, h, hh)
    BY <1>2, <1>6 DEF LeastSince
  <2>1. CASE p <= h
    <3>1. h \in p..hh - 1 /\ B(h) = B(p)
      BY <1>2, <1>6, <2>1
    <3>2. \A g \in h..hh : g = hh \/ B(g) = B(p)
      BY <1>2, <2>1
    <3>3. LeastSince(a, h, hh) = IF B(hh) <= B(p) THEN B(hh) ELSE B(p)
      <4>1. CASE B(hh) <= B(p)
        <5>1. hh \in h..hh /\ \A x \in h..hh : B(x) \in Nat /\ B(hh) <= B(x)
          BY <1>2, <1>4, <1>6, <3>2, <4>1
        <5>2. LeastOf(a, h, hh) = B(hh)
          BY <5>1, LeastIs, <1>2
        <5>. QED BY <2>0, <4>1, <5>2
      <4>2. CASE ~(B(hh) <= B(p))
        <5>1. h \in h..hh /\ \A x \in h..hh : B(x) \in Nat /\ B(h) <= B(x)
          BY <1>2, <1>4, <1>6, <3>1, <3>2, <4>2
        <5>2. LeastOf(a, h, hh) = B(h)
          BY <5>1, LeastIs, <1>2
        <5>. QED BY <2>0, <3>1, <4>2, <5>2
      <4>. QED BY <4>1, <4>2
    <3>4. CASE p = 0
      <4>1. SinceStep(f, a, h, hh) = 0
        BY <1>1, <1>2, <1>6, <3>4 DEF SinceStep
      <4>2. B(p) = 0 /\ B(hh) \in Nat
        BY <1>2, <1>4, <3>4
      <4>. QED BY <3>3, <4>1, <4>2
    <3>5. CASE p # 0
      <4>1. f[p] = B(p)
        BY <1>2, <2>1, <3>5 DEF LeastSince
      <4>2. SinceStep(f, a, h, hh) = Min({B(hh), B(p)})
        BY <1>1, <1>2, <1>3, <1>6, <3>5, <4>1 DEF SinceStep
      <4>3. B(hh) \in Nat /\ B(p) \in Nat
        BY <1>2, <1>4
      <4>. QED BY <3>3, <4>2, <4>3, MinOfTwo
    <3>. QED BY <3>4, <3>5
  <2>2. CASE p > h
    <3>1. p # 0 /\ f[p] = LeastOf(a, h, p)
      BY <1>2, <2>2 DEF LeastSince
    <3>2. PICK l \in h..p : f[p] = B(l) /\ \A x \in h..p : B(l) <= B(x)
      <4>1. h <= p /\ p \in Nat /\ \A x \in h..p : BalanceAfterBlocks(a, x) \in Nat
        BY <1>2, <1>4, <2>2
      <4>. QED BY <3>1, <4>1, LeastExists
    <3>3. SinceStep(f, a, h, hh) = Min({B(hh), B(l)})
      BY <1>1, <1>2, <1>3, <1>6, <3>1, <3>2 DEF SinceStep
    <3>4. B(hh) \in Nat /\ B(l) \in Nat /\ l \in h..hh
      BY <1>2, <1>4, <3>2
    <3>5. \A x \in h..hh : x = hh \/ B(l) <= B(x)
      <4> TAKE x \in h..hh
      <4>1. CASE x <= p
        BY <3>2, <4>1
      <4>2. CASE p < x /\ x < hh
        <5>1. B(x) = B(p) /\ B(l) <= B(p)
          BY <1>2, <2>2, <3>2, <4>2
        <5>. QED BY <5>1
      <4>. QED BY <1>2, <4>1, <4>2
    <3>6. CASE B(hh) <= B(l)
      <4>1. \A x \in h..hh : B(x) \in Nat /\ B(hh) <= B(x)
        BY <1>2, <1>4, <3>4, <3>5, <3>6
      <4>2. LeastOf(a, h, hh) = B(hh)
        BY <1>2, <1>6, <4>1, LeastIs
      <4>. QED BY <2>0, <3>3, <3>4, <3>6, <4>2, MinOfTwo
    <3>7. CASE ~(B(hh) <= B(l))
      <4>1. \A x \in h..hh : B(x) \in Nat /\ B(l) <= B(x)
        BY <1>2, <1>4, <3>4, <3>5, <3>7
      <4>2. LeastOf(a, h, hh) = B(l)
        BY <1>2, <1>6, <3>4, <4>1, LeastIs
      <4>. QED BY <2>0, <3>3, <3>4, <3>7, <4>2, MinOfTwo
    <3>. QED BY <3>6, <3>7
  <2>. QED BY <1>2, <2>1, <2>2
<1>. QED BY <1>2, <1>5, <1>6

\* The walk along the rows answers the least balances: it is the only function
\* that meets its equation.
LEMMA SinceIsLeast ==
  ASSUME StateInv, NEW a \in Account, NEW h \in 0..stateHeight
  PROVE  BalanceSince(a, h) =
           IF lastStates[a] = 0 THEN 0 ELSE LeastSince(a, h, lastStates[a])
<1>. DEFINE D == DOMAIN rows[a]
            G == [hh \in D |-> LeastSince(a, h, hh)]
            Walk(f) == f = [hh \in D |-> SinceStep(f, a, h, hh)]
            F == CHOOSE f : Walk(f)
<1>1. BalanceSince(a, h) = IF lastStates[a] = 0 THEN 0 ELSE F[lastStates[a]]
  BY DEF BalanceSince, SinceStep
<1>2. Walk(G)
  <2>1. ASSUME NEW hh \in D PROVE G[hh] = SinceStep(G, a, h, hh)
    <3>1. \A k \in D : k < hh => G[k] = LeastSince(a, h, k)
      OBVIOUS
    <3>. HIDE DEF G
    <3>2. SinceStep(G, a, h, hh) = LeastSince(a, h, hh)
      BY <3>1, LeastSinceSteps
    <3>. QED BY <3>2 DEF G
  <2>2. G = [hh \in D |-> G[hh]]
    OBVIOUS
  <2>. HIDE DEF G
  <2>. QED BY <2>1, <2>2, Zenon
<1>3. Walk(F)
  <2>. HIDE DEF G, Walk
  <2>. QED BY <1>2, Zenon DEF F
<1>. HIDE DEF F, G
<1>. DEFINE S == {k \in Nat : \A hh \in D : hh <= k => F[hh] = LeastSince(a, h, hh)}
<1>4. /\ stateHeight \in Nat /\ D \subseteq 1..stateHeight
      /\ lastStates[a] = Below(D, stateHeight + 1)
  BY RowsOf
<1>5. 0 \in S
  BY <1>4
<1>6. ASSUME NEW k \in Nat, k \in S PROVE k + 1 \in S
  <2>1. SUFFICES ASSUME NEW hh \in D, hh = k + 1
                 PROVE F[hh] = LeastSince(a, h, hh)
    BY <1>4, <1>6
  <2>2. \A g \in D : g < hh => F[g] = LeastSince(a, h, g)
    BY <1>4, <1>6, <2>1
  <2>3. F[hh] = SinceStep(F, a, h, hh)
    BY <1>3
  <2>. QED BY <2>2, <2>3, LeastSinceSteps
<1>. HIDE DEF S
<1>7. \A k \in Nat : k \in S
  BY <1>5, <1>6, Induction
<1>8. \A hh \in D : F[hh] = LeastSince(a, h, hh)
  BY <1>4, <1>7 DEF S
<1>9. lastStates[a] = 0 \/ lastStates[a] \in D
  BY <1>4, BelowIs
<1>. QED BY <1>1, <1>8, <1>9

\* What balanceWithConfirmations computes is the least balance since a height.
LEMMA SinceIs ==
  ASSUME StateInv, NEW a \in Account, NEW h \in 0..stateHeight
  PROVE  BalanceSince(a, h) = LeastOf(a, h, stateHeight)
<1>. DEFINE B(g) == BalanceAfterBlocks(a, g)
<1>1. stateHeight \in Nat /\ lastStates[a] = Below(DOMAIN rows[a], stateHeight + 1)
      /\ applied \in Seq(Block) /\ Len(applied) = stateHeight
      /\ DOMAIN rows[a] = {g \in 1..stateHeight : a \in Touched(applied[g])}
  BY RowsOf
<1>2. PICK p : p = lastStates[a]
  OBVIOUS
<1>3. /\ p \in 0..stateHeight
      /\ \A i \in DOMAIN rows[a] : ~(p < i /\ i <= stateHeight)
      /\ p = 0 => B(p) = 0
  BY <1>1, <1>2, BalanceOfRow
<1>4. \A g \in 0..stateHeight : B(g) \in Nat
  BY BalanceOfRow
<1>5. ASSUME NEW g \in p..stateHeight PROVE B(g) = B(p)
  <2>1. p \in 0..Len(applied) /\ g \in p..Len(applied)
    BY <1>1, <1>3
  <2>2. \A i \in p + 1..g : a \notin Touched(applied[i])
    BY <1>1, <1>3
  <2>. QED BY <1>1, <2>1, <2>2, UntouchedBalance DEF BalanceAfterBlocks
<1>6. BalanceSince(a, h) = IF p = 0 THEN 0 ELSE LeastSince(a, h, p)
  BY <1>2, SinceIsLeast
<1>7. CASE p <= h
  <2>1. \A g \in h..stateHeight : B(g) = B(p)
    BY <1>3, <1>5, <1>7
  <2>2. h \in h..stateHeight /\ \A g \in h..stateHeight : B(g) \in Nat /\ B(h) <= B(g)
    BY <1>1, <1>3, <1>4, <2>1
  <2>3. LeastOf(a, h, stateHeight) = B(p)
    BY <2>1, <2>2, LeastIs
  <2>. QED BY <1>3, <1>6, <1>7, <2>3 DEF LeastSince
<1>8. CASE p > h
  <2>1. BalanceSince(a, h) = LeastOf(a, h, p)
    BY <1>3, <1>6, <1>8 DEF LeastSince
  <2>2. h \in Nat /\ p \in Nat /\ h <= p /\ \A x \in h..p : B(x) \in Nat
    BY <1>1, <1>3, <1>4, <1>8
  <2>3. PICK l \in h..p : LeastOf(a, h, p) = B(l) /\ \A x \in h..p : B(l) <= B(x)
    BY <2>2, LeastExists
  <2>4. \A x \in h..stateHeight : x \in h..p \/ x \in p..stateHeight
    BY <1>1, <1>3
  <2>5. l \in h..stateHeight /\ \A x \in h..stateHeight : B(x) \in Nat /\ B(l) <= B(x)
    BY <1>1, <1>3, <1>4, <1>5, <1>8, <2>3, <2>4
  <2>6. LeastOf(a, h, stateHeight) = B(l)
    BY <2>5, LeastIs
  <2>. QED BY <2>1, <2>3, <2>6
<1>. QED BY <1>1, <1>3, <1>7, <1>8

LEMMA BalanceIs ==
  ASSUME StateInv, NEW a \in Account
  PROVE  Balance(a) = BalanceAfter(applied, a) /\ Balance(a) \in Nat
<1>1. stateHeight \in Nat /\ applied \in Seq(Block) /\ Len(applied) = stateHeight
  BY RowsOf
<1>2. BalanceAfterBlocks(a, stateHeight) \in Nat
  BY <1>1, BalanceOfRow
<1>3. /\ stateHeight \in stateHeight..stateHeight
      /\ \A g \in stateHeight..stateHeight :
           BalanceAfterBlocks(a, g) \in Nat
           /\ BalanceAfterBlocks(a, stateHeight) <= BalanceAfterBlocks(a, g)
  <2>1. \A g \in stateHeight..stateHeight : g = stateHeight
    BY <1>1
  <2>. QED BY <1>1, <1>2, <2>1
<1>4. LeastOf(a, stateHeight, stateHeight) = BalanceAfterBlocks(a, stateHeight)
  BY <1>2, <1>3, LeastIs
<1>5. Balance(a) = BalanceAfterBlocks(a, stateHeight)
  BY <1>1, <1>4, SinceIs DEF Balance
<1>6. SubSeq(applied, 1, stateHeight) = applied
  BY <1>1
<1>. QED BY <1>2, <1>5, <1>6 DEF BalanceAfterBlocks
-----------------------------------------------------------------------------
(* Rollback *)

\* deleteNewer visits every row above r, and no other.
LEMMA NewerIs ==
  ASSUME StateInv, NEW a \in Account, NEW r \in 0..stateHeight
  PROVE  Newer(a, r) = {h \in DOMAIN rows[a] : h > r}
<1>. DEFINE D == {0} \cup DOMAIN rows[a]
            G == [h \in D |-> {g \in DOMAIN rows[a] : r < g /\ g <= h}]
            Step(f, h) == IF h <= r THEN {} ELSE {h} \cup f[rows[a][h].prev]
            Visit(f) == f = [h \in D |-> Step(f, h)]
            F == CHOOSE f : Visit(f)
<1>1. Newer(a, r) = F[lastStates[a]]
  BY Zenon DEF Newer
<1>2. /\ stateHeight \in Nat /\ DOMAIN rows[a] \subseteq 1..stateHeight
      /\ lastStates[a] = Below(DOMAIN rows[a], stateHeight + 1)
  BY RowsOf
<1>3. ASSUME NEW h \in D, NEW f, \A k \in D : k < h => f[k] = G[k]
      PROVE  Step(f, h) = G[h]
  <2>1. CASE h <= r
    BY <1>2, <2>1
  <2>2. CASE h > r
    <3>1. h \in DOMAIN rows[a] /\ h \in 1..stateHeight
      BY <1>2, <2>2
    <3>2. PICK p : p = rows[a][h].prev
      OBVIOUS
    <3>3. /\ p \in D /\ p \in 0..h - 1
          /\ \A i \in DOMAIN rows[a] : ~(p < i /\ i < h)
      BY <3>1, <3>2, PrevOf
    <3>4. f[p] = {g \in DOMAIN rows[a] : r < g /\ g <= p}
      <4>1. p < h /\ p \in D
        BY <3>1, <3>3
      <4>2. f[p] = G[p]
        BY <1>3, <4>1
      <4>. QED BY <4>1, <4>2
    <3>5. \A g \in DOMAIN rows[a] : g <= h <=> g = h \/ g <= p
      BY <1>2, <3>1, <3>3
    <3>6. {h} \cup f[p] = {g \in DOMAIN rows[a] : r < g /\ g <= h}
      BY <1>2, <2>2, <3>1, <3>4, <3>5
    <3>7. ~(h <= r)
      BY <1>2, <2>2, <3>1
    <3>. QED BY <3>2, <3>6, <3>7
  <2>. QED BY <1>2, <2>1, <2>2
<1>4. Visit(G)
  <2>1. \A h \in D : G[h] = Step(G, h)
    <3>. HIDE DEF G, Step
    <3>. QED BY <1>3
  <2>2. G = [h \in D |-> G[h]]
    OBVIOUS
  <2>. HIDE DEF G, Step
  <2>. QED BY <2>1, <2>2, Zenon
<1>5. Visit(F)
  <2>. HIDE DEF G, Visit
  <2>. QED BY <1>4, Zenon DEF F
<1>. HIDE DEF F, G
<1>. DEFINE S == {k \in Nat : \A h \in D : h <= k => F[h] = G[h]}
<1>6. ASSUME NEW h \in D, \A k \in D : k < h => F[k] = G[k] PROVE F[h] = G[h]
  <2>1. F[h] = Step(F, h)
    <3>. HIDE DEF Step
    <3>. QED BY <1>5
  <2>. HIDE DEF Step
  <2>. QED BY <1>3, <1>6, <2>1
<1>. HIDE DEF Step, Visit
<1>7. 0 \in S
  BY <1>2, <1>6
<1>8. ASSUME NEW k \in Nat, k \in S PROVE k + 1 \in S
  <2>1. SUFFICES ASSUME NEW h \in D, h = k + 1 PROVE F[h] = G[h]
    BY <1>2, <1>8
  <2>2. \A g \in D : g < h => F[g] = G[g]
    BY <1>2, <1>8, <2>1
  <2>. QED BY <1>6, <2>2
<1>. HIDE DEF S
<1>9. \A k \in Nat : k \in S
  BY <1>7, <1>8, Induction
<1>10. \A h \in D : F[h] = G[h]
  BY <1>2, <1>9 DEF S
<1>11. /\ lastStates[a] \in D
       /\ \A g \in DOMAIN rows[a] : g <= lastStates[a]
  BY <1>2, BelowIs
<1>12. G[lastStates[a]] = {h \in DOMAIN rows[a] : h > r}
  BY <1>2, <1>11 DEF G
<1>. QED BY <1>1, <1>10, <1>11, <1>12
-----------------------------------------------------------------------------
(* The steps keep the invariant *)

\* A chain that goes on from an old one keeps the balances at the old heights.
LEMMA OldBalances ==
  ASSUME applied \in Seq(Block), applied' \in Seq(Block), NEW n \in Nat,
         n <= Len(applied), n <= Len(applied'), \A i \in 1..n : applied'[i] = applied[i],
         NEW a, NEW g \in 0..n
  PROVE  BalanceAfterBlocks(a, g)' = BalanceAfterBlocks(a, g)
<1>1. g \in Nat /\ g <= Len(applied) /\ g <= Len(applied')
      /\ \A i \in 1..g : applied'[i] = applied[i]
  OBVIOUS
<1>2. SubSeq(applied', 1, g) = SubSeq(applied, 1, g)
  BY <1>1, SameChain
<1>. QED BY <1>2 DEF BalanceAfterBlocks

LEMMA ProcessKeeps ==
  ASSUME StateInv, NEW b \in Block, stateHeight < MaxHeight, ProcessBlock(b)
  PROVE  StateInv'
<1>. PICK h : h = stateHeight + 1
  OBVIOUS
<1>. DEFINE D(a) == DOMAIN rows[a]
            row(a) == [balance |-> NewBalance(b, a), prev |-> lastStates[a],
                       reason |-> {t \in ToSet(Txs[b]) : a \in {t.from, t.to}}]
<1>1. /\ Processable(b) /\ stateHeight' = h
      /\ rows' = [a \in Account |->
           IF a \in Touched(b)
           THEN [i \in DOMAIN rows[a] \cup {h} |-> IF i = h THEN row(a) ELSE rows[a][i]]
           ELSE rows[a]]
      /\ lastStates' = [a \in Account |->
           IF a \in Touched(b) THEN h ELSE lastStates[a]]
      /\ includedTx' = [t \in ToSet(Txs[b]) \cup DOMAIN includedTx |->
           IF t \in ToSet(Txs[b]) THEN h ELSE includedTx[t]]
      /\ applied' = Append(applied, b)
  BY DEF ProcessBlock
<1>2. stateHeight \in Nat /\ applied \in Seq(Block) /\ Len(applied) = stateHeight
  BY StoredStateAssumption DEF StateInv
<1>3. /\ applied' \in Seq(Block) /\ Len(applied') = h /\ stateHeight' \in 0..MaxHeight
      /\ \A i \in 1..stateHeight : applied'[i] = applied[i]
      /\ applied'[h] = b
  BY <1>1, <1>2, StoredStateAssumption
<1>4. ASSUME NEW a \in Account
      PROVE  BalanceAfterBlocks(a, h)' = NewBalance(b, a)
  <2>1. BalanceAfter(applied', a) = BalanceAfter(applied, a) + BlockEffect(b, a)
    BY <1>2, <1>3, BalanceAfterNext
  <2>2. SubSeq(applied', 1, h) = applied'
    BY <1>2, <1>3
  <2>. QED BY <2>1, <2>2, BalanceIs DEF BalanceAfterBlocks, NewBalance
<1>5. ASSUME NEW a \in Account, NEW g \in 0..stateHeight
      PROVE  BalanceAfterBlocks(a, g)' = BalanceAfterBlocks(a, g)
  BY <1>2, <1>3, OldBalances
<1>6. RowsMatch'
  <2>1. ASSUME NEW a \in Account
        PROVE  /\ DOMAIN rows'[a] = {i \in 1..h : a \in Touched(applied'[i])}
               /\ lastStates'[a] = Max({0} \cup DOMAIN rows'[a])
               /\ \A i \in DOMAIN rows'[a] :
                    /\ rows'[a][i].balance = BalanceAfterBlocks(a, i)'
                    /\ rows'[a][i].balance \in Nat
                    /\ rows'[a][i].prev = Below(DOMAIN rows'[a], i)
                    /\ rows'[a][i].reason = {t \in ToSet(Txs[applied'[i]]) : a \in {t.from, t.to}}
    <3>1. /\ D(a) = {i \in 1..stateHeight : a \in Touched(applied[i])}
          /\ D(a) \subseteq 1..stateHeight
          /\ lastStates[a] = Below(D(a), h)
          /\ lastStates[a] = Max({0} \cup D(a))
      BY RowsOf, Zenon DEF StateInv, RowsMatch
    <3>2. ASSUME NEW i \in D(a)
          PROVE  /\ rows[a][i].balance = BalanceAfterBlocks(a, i)'
                 /\ rows[a][i].balance \in Nat
                 /\ rows[a][i].prev = Below(D(a), i)
                 /\ rows[a][i].reason = {t \in ToSet(Txs[applied'[i]]) : a \in {t.from, t.to}}
      <4>1. i \in 1..stateHeight /\ i \in 0..stateHeight
        BY <1>2, <3>1
      <4>. QED BY <1>3, <1>5, <4>1, RowsOf
    <3>3. CASE a \notin Touched(b)
      <4>1. rows'[a] = rows[a] /\ lastStates'[a] = lastStates[a]
        BY <1>1, <3>3
      <4>2. D(a) = {i \in 1..h : a \in Touched(applied'[i])}
        BY <1>2, <1>3, <3>1, <3>3
      <4>. QED BY <3>1, <3>2, <4>1, <4>2
    <3>4. CASE a \in Touched(b)
      <4>1. /\ rows'[a] = [i \in D(a) \cup {h} |-> IF i = h THEN row(a) ELSE rows[a][i]]
            /\ lastStates'[a] = h
        BY <1>1, <3>4, Zenon
      <4>2. /\ DOMAIN rows'[a] = D(a) \cup {h}
            /\ rows'[a][h] = row(a)
            /\ \A i \in D(a) : i # h => rows'[a][i] = rows[a][i]
        <5>. HIDE DEF row
        <5>. QED BY <4>1
      <4>3. D(a) \cup {h} = {i \in 1..h : a \in Touched(applied'[i])}
        BY <1>2, <1>3, <3>1, <3>4
      <4>4. h = Max({0} \cup (D(a) \cup {h}))
        <5>1. \A x \in {0} \cup (D(a) \cup {h}) : x \in Nat /\ x <= h
          BY <1>2, <3>1
        <5>2. h \in {0} \cup (D(a) \cup {h})
          OBVIOUS
        <5>. QED BY <5>1, <5>2, MaxIs
      <4>5. \A i \in D(a) \cup {h} : Below(D(a) \cup {h}, i) = Below(D(a), i)
        <5>1. ASSUME NEW i \in D(a) \cup {h}
              PROVE  {g \in D(a) \cup {h} : g < i} = {g \in D(a) : g < i}
          BY <1>2, <3>1
        <5>. QED BY <5>1 DEF Below
      <4>6. /\ row(a).balance = BalanceAfterBlocks(a, h)'
            /\ row(a).balance \in Nat
            /\ row(a).prev = Below(D(a), h)
            /\ row(a).reason = {t \in ToSet(Txs[applied'[h]]) : a \in {t.from, t.to}}
        <5>1. NewBalance(b, a) \in Nat
          <6>1. Balance(a) \in Nat /\ BlockEffect(b, a) \in Int
            BY BalanceIs, EffectOfBlock
          <6>2. NewBalance(b, a) >= 0
            BY <1>1, <3>4 DEF Processable
          <6>. QED BY <6>1, <6>2 DEF NewBalance
        <5>. QED BY <1>3, <1>4, <3>1, <5>1
      <4>7. ASSUME NEW i \in D(a) \cup {h}
            PROVE  /\ rows'[a][i].balance = BalanceAfterBlocks(a, i)'
                   /\ rows'[a][i].balance \in Nat
                   /\ rows'[a][i].prev = Below(D(a) \cup {h}, i)
                   /\ rows'[a][i].reason = {t \in ToSet(Txs[applied'[i]]) : a \in {t.from, t.to}}
        <5>. HIDE DEF row
        <5>1. CASE i = h
          BY <4>2, <4>5, <4>6, <5>1
        <5>2. CASE i # h
          BY <3>2, <4>2, <4>5, <5>2
        <5>. QED BY <5>1, <5>2
      <4>. QED BY <4>1, <4>2, <4>3, <4>4, <4>7
    <3>. QED BY <3>3, <3>4
  <2>2. DOMAIN rows' = Account /\ DOMAIN lastStates' = Account
    BY <1>1
  <2>. QED BY <1>1, <2>1, <2>2, Zenon DEF RowsMatch
<1>7. TransactionsOnce'
  <2>1. /\ DOMAIN includedTx = UNION {ToSet(Txs[applied[i]]) : i \in 1..stateHeight}
        /\ \A i \in 1..stateHeight : \A t \in ToSet(Txs[applied[i]]) : includedTx[t] = i
    BY Zenon DEF StateInv, TransactionsOnce
  <2>2. /\ DOMAIN includedTx' = ToSet(Txs[b]) \cup DOMAIN includedTx
        /\ \A t \in ToSet(Txs[b]) : includedTx'[t] = h
        /\ \A t \in DOMAIN includedTx : t \notin ToSet(Txs[b]) => includedTx'[t] = includedTx[t]
    BY <1>1
  <2>3. \A t \in ToSet(Txs[b]) : t \notin DOMAIN includedTx
    BY <1>1 DEF Processable, Included
  <2>4. DOMAIN includedTx' = UNION {ToSet(Txs[applied'[i]]) : i \in 1..h}
    <3>1. 1..h = 1..stateHeight \cup {h}
      BY <1>2
    <3>2. \A i \in 1..stateHeight : ToSet(Txs[applied'[i]]) = ToSet(Txs[applied[i]])
      BY <1>3
    <3>3. ToSet(Txs[applied'[h]]) = ToSet(Txs[b])
      BY <1>3
    <3>. QED BY <2>1, <2>2, <3>1, <3>2, <3>3
  <2>5. ASSUME NEW i \in 1..h, NEW t \in ToSet(Txs[applied'[i]])
        PROVE  includedTx'[t] = i
    <3>1. CASE i = h
      BY <1>3, <2>2, <3>1
    <3>2. CASE i # h
      <4>1. i \in 1..stateHeight /\ applied'[i] = applied[i]
        BY <1>2, <1>3, <3>2
      <4>. QED BY <2>1, <2>2, <2>3, <4>1
    <3>. QED BY <3>1, <3>2
  <2>. QED BY <1>1, <2>4, <2>5 DEF TransactionsOnce
<1>. QED BY <1>1, <1>3, <1>6, <1>7 DEF StateInv

\* The rows above r list every transaction of the blocks above r, and no other.
LEMMA ForgottenIs ==
  ASSUME StateInv, NEW r \in 0..stateHeight
  PROVE  Forgotten(r) = UNION {ToSet(Txs[applied[h]]) : h \in r + 1..stateHeight}
<1>1. stateHeight \in Nat /\ applied \in Seq(Block) /\ Len(applied) = stateHeight
  BY StoredStateAssumption DEF StateInv
<1>2. ASSUME NEW t \in Forgotten(r)
      PROVE  \E h \in r + 1..stateHeight : t \in ToSet(Txs[applied[h]])
  <2>1. PICK a \in Account : t \in UNION {rows[a][h].reason : h \in Newer(a, r)}
    BY DEF Forgotten
  <2>2. PICK h \in Newer(a, r) : t \in rows[a][h].reason
    BY <2>1
  <2>3. h \in DOMAIN rows[a] /\ h > r /\ h \in 1..stateHeight
    BY NewerIs, RowsOf
  <2>4. t \in ToSet(Txs[applied[h]])
    BY <2>2, <2>3, RowsOf
  <2>. QED BY <1>1, <2>3, <2>4
<1>3. ASSUME NEW h \in r + 1..stateHeight, NEW t \in ToSet(Txs[applied[h]])
      PROVE  t \in Forgotten(r)
  <2>1. h \in 1..stateHeight /\ h > r /\ applied[h] \in Block
    BY <1>1
  <2>2. t.to \in Account /\ t.to \in Touched(applied[h])
    BY <2>1, TxTypes DEF IsTx
  <2>3. h \in DOMAIN rows[t.to]
    BY <2>1, <2>2, RowsOf
  <2>4. h \in Newer(t.to, r)
    BY <2>1, <2>2, <2>3, NewerIs
  <2>5. t \in rows[t.to][h].reason
    BY <2>2, <2>3, RowsOf
  <2>. QED BY <2>2, <2>4, <2>5 DEF Forgotten
<1>. QED BY <1>2, <1>3

\* The first r elements of a sequence.
LEMMA PrefixOf ==
  ASSUME NEW S, NEW c, c \in Seq(S), NEW r, r \in Nat, r <= Len(c)
  PROVE  /\ SubSeq(c, 1, r) \in Seq(S) /\ Len(SubSeq(c, 1, r)) = r
         /\ \A i \in 1..r : SubSeq(c, 1, r)[i] = c[i]
<1>1. /\ Len(SubSeq(c, 1, r)) = r
      /\ \A i \in 1..r : SubSeq(c, 1, r)[i] = c[i]
  OBVIOUS
<1>2. SubSeq(c, 1, r) \in Seq(S)
  OBVIOUS
<1>. QED BY <1>1, <1>2

LEMMA RollbackKeeps ==
  ASSUME StateInv, NEW r \in 1..stateHeight, RollbackTo(r)
  PROVE  StateInv' /\ applied' = SubSeq(applied, 1, r)
<1>. DEFINE D(a) == DOMAIN rows[a]
<1>1. /\ rows' = [a \in Account |-> [h \in D(a) \ Newer(a, r) |-> rows[a][h]]]
      /\ lastStates' = [a \in Account |->
           IF Newer(a, r) = {} THEN lastStates[a] ELSE rows[a][Min(Newer(a, r))].prev]
      /\ includedTx' = [t \in DOMAIN includedTx \ Forgotten(r) |-> includedTx[t]]
      /\ stateHeight' = r
      /\ applied' = SubSeq(applied, 1, Min({r, Len(applied)}))
  BY DEF RollbackTo
<1>2. stateHeight \in 0..MaxHeight /\ stateHeight \in Nat
      /\ applied \in Seq(Block) /\ Len(applied) = stateHeight
  BY StoredStateAssumption DEF StateInv
<1>3. Min({r, Len(applied)}) = r
  BY <1>2, MinOfTwo
<1>4. /\ applied' = SubSeq(applied, 1, r) /\ applied' \in Seq(Block) /\ Len(applied') = r
      /\ \A i \in 1..r : applied'[i] = applied[i]
      /\ stateHeight' \in 0..MaxHeight
  <2>1. r \in Nat /\ r <= Len(applied) /\ r \in 0..MaxHeight
    BY <1>2, StoredStateAssumption
  <2>2. applied' = SubSeq(applied, 1, r) /\ stateHeight' = r
    BY <1>1, <1>3
  <2>. QED BY <1>2, <2>1, <2>2, PrefixOf
<1>5. ASSUME NEW a \in Account, NEW g \in 0..r
      PROVE  BalanceAfterBlocks(a, g)' = BalanceAfterBlocks(a, g)
  BY <1>2, <1>4, OldBalances
<1>6. RowsMatch'
  <2>1. ASSUME NEW a \in Account
        PROVE  /\ DOMAIN rows'[a] = {i \in 1..r : a \in Touched(applied'[i])}
               /\ lastStates'[a] = Max({0} \cup DOMAIN rows'[a])
               /\ \A i \in DOMAIN rows'[a] :
                    /\ rows'[a][i].balance = BalanceAfterBlocks(a, i)'
                    /\ rows'[a][i].balance \in Nat
                    /\ rows'[a][i].prev = Below(DOMAIN rows'[a], i)
                    /\ rows'[a][i].reason = {t \in ToSet(Txs[applied'[i]]) : a \in {t.from, t.to}}
    <3>1. /\ D(a) = {i \in 1..stateHeight : a \in Touched(applied[i])}
          /\ D(a) \subseteq 1..stateHeight
          /\ lastStates[a] = Max({0} \cup D(a))
      BY RowsOf, Zenon DEF StateInv, RowsMatch
    <3>. DEFINE K == {h \in D(a) : h <= r}
    <3>2. Newer(a, r) = {h \in D(a) : h > r}
      BY NewerIs
    <3>3. D(a) \ Newer(a, r) = K
      BY <1>2, <3>1, <3>2
    <3>4. DOMAIN rows'[a] = K /\ \A i \in K : rows'[a][i] = rows[a][i]
      BY <1>1, <3>3
    <3>5. K = {i \in 1..r : a \in Touched(applied'[i])}
      BY <1>2, <1>4, <3>1
    <3>6. lastStates'[a] = Max({0} \cup K)
      <4>1. CASE Newer(a, r) = {}
        <5>1. D(a) = K
          BY <3>3, <4>1
        <5>. QED BY <1>1, <3>1, <4>1, <5>1
      <4>2. CASE Newer(a, r) # {}
        <5>1. Newer(a, r) \subseteq Nat
          BY <3>1, <3>2
        <5>2. PICK m \in Newer(a, r) : m = Min(Newer(a, r)) /\ \A x \in Newer(a, r) : m <= x
          BY <4>2, <5>1, MinOfSet
        <5>3. m \in D(a) /\ m \in 1..stateHeight /\ m > r
          BY <3>1, <3>2
        <5>4. {g \in D(a) : g < m} = K
          <6>1. ASSUME NEW g \in D(a) PROVE g < m <=> g <= r
            <7>1. g > r => m <= g
              BY <3>2, <5>2
            <7>. QED BY <1>2, <3>1, <5>3, <7>1
          <6>. QED BY <6>1
        <5>5. rows[a][m].prev = Below(D(a), m)
          BY <5>3, RowsOf
        <5>6. lastStates'[a] = rows[a][m].prev
          BY <1>1, <4>2, <5>2
        <5>. QED BY <5>4, <5>5, <5>6 DEF Below
      <4>. QED BY <4>1, <4>2
    <3>7. ASSUME NEW i \in K
          PROVE  /\ rows'[a][i].balance = BalanceAfterBlocks(a, i)'
                 /\ rows'[a][i].balance \in Nat
                 /\ rows'[a][i].prev = Below(K, i)
                 /\ rows'[a][i].reason = {t \in ToSet(Txs[applied'[i]]) : a \in {t.from, t.to}}
      <4>1. i \in D(a) /\ i \in 1..r /\ i \in 0..r
        BY <1>2, <3>1
      <4>2. {g \in D(a) : g < i} = {g \in K : g < i}
        BY <1>2, <3>1, <4>1
      <4>3. Below(K, i) = Below(D(a), i)
        BY <4>2 DEF Below
      <4>. QED BY <1>4, <1>5, <3>4, <4>1, <4>3, RowsOf
    <3>. QED BY <3>4, <3>5, <3>6, <3>7
  <2>2. DOMAIN rows' = Account /\ DOMAIN lastStates' = Account
    BY <1>1
  <2>. QED BY <1>1, <2>1, <2>2, Zenon DEF RowsMatch
<1>7. TransactionsOnce'
  <2>1. /\ DOMAIN includedTx = UNION {ToSet(Txs[applied[i]]) : i \in 1..stateHeight}
        /\ \A i \in 1..stateHeight : \A t \in ToSet(Txs[applied[i]]) : includedTx[t] = i
    BY Zenon DEF StateInv, TransactionsOnce
  <2>2. DOMAIN includedTx' = UNION {ToSet(Txs[applied[i]]) : i \in 1..r}
    <3>1. Forgotten(r) = UNION {ToSet(Txs[applied[h]]) : h \in r + 1..stateHeight}
      BY <1>2, ForgottenIs
    <3>2. DOMAIN includedTx' = DOMAIN includedTx \ Forgotten(r)
      BY <1>1
    <3>3. ASSUME NEW t
          PROVE  t \in DOMAIN includedTx' <=> \E i \in 1..r : t \in ToSet(Txs[applied[i]])
      <4>1. ASSUME t \in DOMAIN includedTx'
            PROVE  \E i \in 1..r : t \in ToSet(Txs[applied[i]])
        <5>1. PICK i \in 1..stateHeight : t \in ToSet(Txs[applied[i]])
          BY <2>1, <3>2, <4>1
        <5>2. i \notin r + 1..stateHeight
          BY <3>1, <3>2, <4>1, <5>1
        <5>. QED BY <1>2, <5>1, <5>2
      <4>2. ASSUME NEW i \in 1..r, t \in ToSet(Txs[applied[i]])
            PROVE  t \in DOMAIN includedTx'
        <5>1. i \in 1..stateHeight /\ includedTx[t] = i /\ t \in DOMAIN includedTx
          BY <1>2, <2>1, <4>2
        <5>2. ASSUME NEW h \in r + 1..stateHeight PROVE t \notin ToSet(Txs[applied[h]])
          <6>1. h \in 1..stateHeight /\ h # i
            BY <1>2
          <6>. QED BY <2>1, <5>1, <6>1
        <5>. QED BY <3>1, <3>2, <5>1, <5>2
      <4>. QED BY <4>1, <4>2
    <3>. QED BY <3>3
  <2>3. \A i \in 1..r : ToSet(Txs[applied'[i]]) = ToSet(Txs[applied[i]])
    BY <1>4
  <2>4. ASSUME NEW i \in 1..r, NEW t \in ToSet(Txs[applied'[i]])
        PROVE  includedTx'[t] = i
    <3>1. i \in 1..stateHeight /\ t \in ToSet(Txs[applied[i]])
      BY <1>2, <2>3
    <3>2. t \in DOMAIN includedTx'
      BY <2>2, <3>1
    <3>. QED BY <1>1, <2>1, <3>1, <3>2
  <2>5. stateHeight' = r
    BY <1>1
  <2>6. UNION {ToSet(Txs[applied'[i]]) : i \in 1..r}
          = UNION {ToSet(Txs[applied[i]]) : i \in 1..r}
    BY <2>3
  <2>. QED BY <2>2, <2>4, <2>5, <2>6, Zenon DEF TransactionsOnce
<1>. QED BY <1>1, <1>4, <1>6, <1>7 DEF StateInv
LEMMA NextKeeps == StateInv /\ [StateNext]_stateVars => StateInv'
<1>. SUFFICES ASSUME StateInv, [StateNext]_stateVars PROVE StateInv'
  OBVIOUS
<1>1. ASSUME NEW b \in Block, stateHeight < MaxHeight, ProcessBlock(b) PROVE StateInv'
  BY <1>1, ProcessKeeps
<1>2. ASSUME NEW r \in 1..stateHeight, RollbackTo(r) PROVE StateInv'
  BY <1>2, RollbackKeeps
<1>3. CASE UNCHANGED stateVars
  <2>1. /\ rows' = rows /\ lastStates' = lastStates /\ includedTx' = includedTx
        /\ stateHeight' = stateHeight /\ applied' = applied
    BY <1>3 DEF stateVars
  <2>2. RowsMatch'
    BY <2>1 DEF StateInv, RowsMatch, BalanceAfterBlocks
  <2>3. TransactionsOnce'
    BY <2>1 DEF StateInv, TransactionsOnce
  <2>. QED BY <2>1, <2>2, <2>3 DEF StateInv
<1>. QED BY <1>1, <1>2, <1>3 DEF StateNext
-----------------------------------------------------------------------------
(* Money: sums over all accounts *)

LEMMA FiniteAccounts == IsFiniteSet(Account)
BY GenesisAssumption

LEMMA MoneyAdds ==
  ASSUME NEW e \in [Account -> Int], NEW f \in [Account -> Int], NEW k \in [Account -> Int],
         \A a \in Account : k[a] = e[a] + f[a]
  PROVE  SumOf(k, Account) = SumOf(e, Account) + SumOf(f, Account) /\ SumOf(e, Account) \in Int
BY FiniteAccounts, SumAdds

LEMMA MoneyOfOne ==
  ASSUME NEW x \in Account, NEW n \in Int
  PROVE  SumOf([a \in Account |-> IF a = x THEN n ELSE 0], Account) = n
BY FiniteAccounts, SumOfOne

\* What a transaction gives to all accounts together: a genesis transaction its
\* amount, any other takes its fee.
Given(t) == IF t.from = None THEN t.amount ELSE -t.fee

LEMMA EffectOfTransaction ==
  ASSUME NEW t, IsTx(t)
  PROVE  /\ [a \in Account |-> Effect(t, a)] \in [Account -> Int]
         /\ SumOf([a \in Account |-> Effect(t, a)], Account) = Given(t)
<1>. DEFINE pays == [a \in Account |-> IF a = t.from THEN -t.amount - t.fee ELSE 0]
            gets == [a \in Account |-> IF a = t.to THEN t.amount ELSE 0]
            both == [a \in Account |-> Effect(t, a)]
<1>1. t.to \in Account /\ t.amount \in Nat /\ t.fee \in Nat
      /\ t.from \in Account \cup {None} /\ None \notin Account
  BY TransactionsAssumption DEF IsTx
<1>2. pays \in [Account -> Int] /\ gets \in [Account -> Int] /\ both \in [Account -> Int]
      /\ \A a \in Account : both[a] = pays[a] + gets[a]
  BY <1>1 DEF Effect
<1>3. SumOf(gets, Account) = t.amount
  BY <1>1, MoneyOfOne
<1>4. CASE t.from = None
  <2>1. both = gets
    BY <1>1, <1>4 DEF Effect
  <2>. QED BY <1>2, <1>3, <1>4, <2>1 DEF Given
<1>5. CASE t.from # None
  <2>1. t.from \in Account /\ -t.amount - t.fee \in Int
    BY <1>1, <1>5
  <2>2. SumOf(pays, Account) = -t.amount - t.fee
    BY <2>1, MoneyOfOne
  <2>3. SumOf(both, Account) = SumOf(pays, Account) + SumOf(gets, Account)
    <3>. HIDE DEF pays, gets, both
    <3>. QED BY <1>2, MoneyAdds
  <2>. QED BY <1>1, <1>2, <1>3, <1>5, <2>2, <2>3 DEF Given
<1>. QED BY <1>4, <1>5

LEMMA EffectOfTransactions ==
  ASSUME NEW txs, NEW n \in Nat, DOMAIN txs = 1..n, \A i \in 1..n : IsTx(txs[i])
  PROVE  /\ [a \in Account |-> NetEffect(txs, a)] \in [Account -> Int]
         /\ SumOf([a \in Account |-> NetEffect(txs, a)], Account) = Total([i \in 1..n |-> Given(txs[i])])
<1>. DEFINE E(k, a) == [i \in 1..k |-> Effect(txs[i], a)]
            G(k) == [i \in 1..k |-> Given(txs[i])]
            F(k) == [a \in Account |-> Total(E(k, a))]
            K == {k \in Nat : k <= n => F(k) \in [Account -> Int] /\ SumOf(F(k), Account) = Total(G(k))}
<1>1. \A i \in 1..n : Given(txs[i]) \in Int /\ \A a : Effect(txs[i], a) \in Int
  BY DEF IsTx, Given, Effect
<1>2. 0 \in K
  <2>1. Total(G(0)) = 0 /\ \A a : Total(E(0, a)) = 0
    BY TotalEmpty
  <2>2. F(0) \in [Account -> Int] /\ \A a \in Account : F(0)[a] = F(0)[a] + F(0)[a]
    BY <2>1
  <2>3. SumOf(F(0), Account) = SumOf(F(0), Account) + SumOf(F(0), Account) /\ SumOf(F(0), Account) \in Int
    <3>. HIDE DEF F
    <3>. QED BY <2>2, MoneyAdds
  <2>. QED BY <2>1, <2>2, <2>3
<1>3. ASSUME NEW k \in Nat, k \in K PROVE k + 1 \in K
  <2>1. SUFFICES ASSUME k + 1 <= n
                 PROVE  F(k + 1) \in [Account -> Int] /\ SumOf(F(k + 1), Account) = Total(G(k + 1))
    OBVIOUS
  <2>. DEFINE e == [a \in Account |-> Effect(txs[k + 1], a)]
  <2>2. F(k) \in [Account -> Int] /\ SumOf(F(k), Account) = Total(G(k))
    BY <1>3, <2>1
  <2>3. e \in [Account -> Int] /\ SumOf(e, Account) = Given(txs[k + 1])
    BY <2>1, EffectOfTransaction
  <2>4. ASSUME NEW a \in Account
        PROVE  F(k + 1)[a] = F(k)[a] + e[a]
    <3>1. /\ Len(E(k, a)) = k /\ Len(E(k + 1, a)) = k + 1
          /\ \A i \in 1..k + 1 : E(k + 1, a)[i] \in Int
          /\ \A i \in 1..k : E(k, a)[i] = E(k + 1, a)[i]
          /\ E(k + 1, a)[k + 1] = e[a]
      BY <1>1, <2>1
    <3>. HIDE DEF E, e
    <3>2. Total(E(k + 1, a)) = Total(E(k, a)) + e[a]
      BY <3>1, TotalNext
    <3>. QED BY <3>2
  <2>5. Total(G(k + 1)) = Total(G(k)) + Given(txs[k + 1])
    <3>1. /\ Len(G(k)) = k /\ Len(G(k + 1)) = k + 1
          /\ \A i \in 1..k + 1 : G(k + 1)[i] \in Int
          /\ \A i \in 1..k : G(k)[i] = G(k + 1)[i]
          /\ G(k + 1)[k + 1] = Given(txs[k + 1])
      BY <1>1, <2>1
    <3>. HIDE DEF G
    <3>. QED BY <3>1, TotalNext
  <2>6. F(k + 1) \in [Account -> Int]
    <3>1. \A a \in Account : F(k + 1)[a] \in Int
      <4>. HIDE DEF F, e
      <4>. QED BY <2>2, <2>3, <2>4
    <3>. QED BY <3>1
  <2>. HIDE DEF F, G, e
  <2>7. SumOf(F(k + 1), Account) = SumOf(F(k), Account) + SumOf(e, Account)
    BY <2>2, <2>3, <2>4, <2>6, MoneyAdds
  <2>. QED BY <2>2, <2>3, <2>5, <2>6, <2>7
<1>. HIDE DEF K
<1>4. n \in K
  BY <1>2, <1>3, Induction
<1>5. F(n) = [a \in Account |-> NetEffect(txs, a)]
  BY DEF NetEffect
<1>6. F(n) \in [Account -> Int] /\ SumOf(F(n), Account) = Total(G(n))
  BY <1>4 DEF K
<1>. HIDE DEF F
<1>. QED BY <1>5, <1>6

\* The genesis block.
IsGenesis(b) == \E i \in DOMAIN Txs[b] : Txs[b][i].from = None

\* What a genesis block gives out.
GivenOut(b) == Total([i \in DOMAIN Txs[b] |-> Txs[b][i].amount])

\* Fees go round: only a genesis block changes the sum of the balances.
LEMMA EffectOfBlocks ==
  ASSUME NEW b \in Block
  PROVE  /\ [a \in Account |-> BlockEffect(b, a)] \in [Account -> Int]
         /\ SumOf([a \in Account |-> BlockEffect(b, a)], Account) =
              IF IsGenesis(b) THEN GivenOut(b) ELSE 0
<1>. DEFINE n == Len(Txs[b])
            fees == [i \in 1..n |-> Txs[b][i].fee]
            given == [i \in 1..n |-> Given(Txs[b][i])]
            both == [i \in 1..n |-> fees[i] + given[i]]
            f == [a \in Account |-> FeesOf(b, a)]
            e == [a \in Account |-> NetEffect(Txs[b], a)]
            k == [a \in Account |-> BlockEffect(b, a)]
<1>1. /\ n \in Nat /\ DOMAIN Txs[b] = 1..n /\ Generator[b] \in Account
      /\ \A i \in 1..n : Txs[b][i] \in ToSet(Txs[b]) /\ IsTx(Txs[b][i])
  BY TxTypes, TransactionsAssumption
<1>2. /\ Len(fees) = n /\ Len(given) = n /\ Len(both) = n
      /\ \A i \in 1..n : fees[i] \in Int /\ given[i] \in Int
  BY <1>1 DEF IsTx, Given
<1>3. Total(fees) \in Int
  <2>. HIDE DEF fees
  <2>. QED BY <1>1, <1>2, TotalInt
<1>4. f = [a \in Account |-> IF a = Generator[b] THEN Total(fees) ELSE 0]
  BY <1>1 DEF FeesOf
<1>5. f \in [Account -> Int] /\ SumOf(f, Account) = Total(fees)
  <2>. HIDE DEF fees, f
  <2>. QED BY <1>1, <1>3, <1>4, MoneyOfOne
<1>6. e \in [Account -> Int] /\ SumOf(e, Account) = Total(given)
  BY <1>1, EffectOfTransactions
<1>7. k \in [Account -> Int] /\ \A a \in Account : k[a] = f[a] + e[a]
  BY <1>5, <1>6 DEF BlockEffect
<1>8. SumOf(k, Account) = SumOf(f, Account) + SumOf(e, Account)
  <2>. HIDE DEF f, e, k
  <2>. QED BY <1>5, <1>6, <1>7, MoneyAdds
<1>9. Total(both) = Total(fees) + Total(given)
  <2>1. \A i \in 1..n : both[i] = fees[i] + given[i]
    OBVIOUS
  <2>. HIDE DEF fees, given, both
  <2>. QED BY <1>1, <1>2, <2>1, TotalAdds
<1>10. CASE IsGenesis(b)
  <2>1. \A i \in 1..n : Txs[b][i].from = None /\ Txs[b][i].fee = 0
    BY <1>1, <1>10, GenesisAssumption DEF IsGenesis
  <2>2. \A i \in 1..n : Txs[b][i].amount \in Int
    BY <1>1 DEF IsTx
  <2>3. \A i \in 1..n : both[i] = Txs[b][i].amount
    BY <2>1, <2>2 DEF Given
  <2>4. both = [i \in DOMAIN Txs[b] |-> Txs[b][i].amount]
    BY <1>1, <2>3
  <2>. QED BY <1>5, <1>6, <1>7, <1>8, <1>9, <1>10, <2>4 DEF GivenOut
<1>11. CASE ~IsGenesis(b)
  <2>1. \A i \in 1..n : Txs[b][i].from # None /\ Txs[b][i].fee \in Nat
    BY <1>1, <1>11 DEF IsGenesis, IsTx
  <2>2. \A i \in 1..n : both[i] = 0
    BY <2>1 DEF Given
  <2>3. Total(both) = 0
    <3>. HIDE DEF both
    <3>. QED BY <1>1, <1>2, <2>2, TotalZero
  <2>. QED BY <1>5, <1>6, <1>7, <1>8, <1>9, <1>11, <2>3
<1>. QED BY <1>10, <1>11

\* A chain that begins with a genesis block and has no other.
GenesisFirst(c) == \A i \in 1..Len(c) : IsGenesis(c[i]) <=> i = 1

\* All the money of such a chain is what its first block gave out.
LEMMA MoneyOfChain ==
  ASSUME NEW c \in Seq(Block), GenesisFirst(c)
  PROVE  /\ [a \in Account |-> BalanceAfter(c, a)] \in [Account -> Int]
         /\ SumOf([a \in Account |-> BalanceAfter(c, a)], Account) =
              IF Len(c) = 0 THEN 0 ELSE GivenOut(c[1])
<1>. DEFINE n == Len(c)
            F(k) == [a \in Account |-> BalanceAfter(SubSeq(c, 1, k), a)]
            K == {k \in Nat : k <= n =>
                    /\ F(k) \in [Account -> Int]
                    /\ SumOf(F(k), Account) = IF k = 0 THEN 0 ELSE GivenOut(c[1])}
<1>1. n \in Nat
  OBVIOUS
<1>2. 0 \in K
  <2>1. SubSeq(c, 1, 0) = <<>>
    OBVIOUS
  <2>2. F(0) \in [Account -> Int] /\ \A a \in Account : F(0)[a] = F(0)[a] + F(0)[a]
    <3>1. \A a : BalanceAfter(SubSeq(c, 1, 0), a) = 0
      BY <2>1, BalanceAfterNone
    <3>2. F(0) = [a \in Account |-> 0]
      BY <3>1
    <3>. HIDE DEF F
    <3>. QED BY <3>2
  <2>3. SumOf(F(0), Account) = SumOf(F(0), Account) + SumOf(F(0), Account) /\ SumOf(F(0), Account) \in Int
    <3>. HIDE DEF F
    <3>. QED BY <2>2, MoneyAdds
  <2>. QED BY <2>2, <2>3
<1>3. ASSUME NEW k \in Nat, k \in K PROVE k + 1 \in K
  <2>1. SUFFICES ASSUME k + 1 <= n
                 PROVE  /\ F(k + 1) \in [Account -> Int]
                        /\ SumOf(F(k + 1), Account) = GivenOut(c[1])
    OBVIOUS
  <2>. DEFINE e == [a \in Account |-> BlockEffect(c[k + 1], a)]
  <2>2. /\ F(k) \in [Account -> Int]
        /\ SumOf(F(k), Account) = IF k = 0 THEN 0 ELSE GivenOut(c[1])
    BY <1>3, <2>1
  <2>3. c[k + 1] \in Block /\ (IsGenesis(c[k + 1]) <=> k = 0)
    BY <2>1 DEF GenesisFirst
  <2>4. /\ e \in [Account -> Int]
        /\ SumOf(e, Account) = IF k = 0 THEN GivenOut(c[1]) ELSE 0
    BY <2>3, EffectOfBlocks
  <2>5. ASSUME NEW a \in Account
        PROVE  F(k + 1)[a] = F(k)[a] + e[a]
    <3>1. /\ SubSeq(c, 1, k) \in Seq(Block) /\ Len(SubSeq(c, 1, k)) = k
          /\ \A i \in 1..k : SubSeq(c, 1, k)[i] = c[i]
      BY <1>1, <2>1, PrefixOf
    <3>2. /\ SubSeq(c, 1, k + 1) \in Seq(Block) /\ Len(SubSeq(c, 1, k + 1)) = k + 1
          /\ \A i \in 1..k + 1 : SubSeq(c, 1, k + 1)[i] = c[i]
      BY <1>1, <2>1, PrefixOf
    <3>3. BalanceAfter(SubSeq(c, 1, k + 1), a)
            = BalanceAfter(SubSeq(c, 1, k), a) + BlockEffect(c[k + 1], a)
      <4>. DEFINE s == SubSeq(c, 1, k)
                  t == SubSeq(c, 1, k + 1)
      <4>1. /\ s \in Seq(Block) /\ t \in Seq(Block) /\ Len(t) = Len(s) + 1
            /\ \A i \in 1..Len(s) : s[i] = t[i]
            /\ t[Len(t)] = c[k + 1]
        BY <3>1, <3>2
      <4>. HIDE DEF s, t
      <4>2. BalanceAfter(t, a) = BalanceAfter(s, a) + BlockEffect(c[k + 1], a)
        BY <4>1, BalanceAfterNext
      <4>. QED BY <4>2 DEF s, t
    <3>. QED BY <3>3
  <2>6. F(k + 1) \in [Account -> Int]
    <3>1. \A a \in Account : F(k + 1)[a] \in Int
      <4>. HIDE DEF F, e
      <4>. QED BY <2>2, <2>4, <2>5
    <3>. QED BY <3>1
  <2>. HIDE DEF F, e
  <2>7. SumOf(F(k + 1), Account) = SumOf(F(k), Account) + SumOf(e, Account) /\ SumOf(F(k), Account) \in Int
    BY <2>2, <2>4, <2>5, <2>6, MoneyAdds
  <2>8. SumOf(e, Account) \in Int
    BY <2>4, SumInt, FiniteAccounts
  <2>. QED BY <2>2, <2>4, <2>6, <2>7, <2>8
<1>. HIDE DEF K
<1>4. n \in K
  BY <1>1, <1>2, <1>3, Induction
<1>5. SubSeq(c, 1, n) = c
  OBVIOUS
<1>6. F(n) \in [Account -> Int] /\ SumOf(F(n), Account) = IF n = 0 THEN 0 ELSE GivenOut(c[1])
  BY <1>4 DEF K
<1>7. F(n) = [a \in Account |-> BalanceAfter(c, a)]
  BY <1>5
<1>. HIDE DEF F
<1>. QED BY <1>6, <1>7

\* What TLC adds up for MoneyConserved is that sum.
LEMMA BalancesAddedUp ==
  ASSUME [a \in Account |-> Balance(a)] \in [Account -> Int]
  PROVE  MapThenSumSet(Balance, Account) = SumOf([a \in Account |-> Balance(a)], Account)
<1>. DEFINE f == [a \in Account |-> Balance(a)]
            Step(g, S) == IF S = {} THEN 0 ELSE Balance(Pick(S)) + g[S \ {Pick(S)}]
            Iter(g) == g = [S \in SUBSET Account |-> Step(g, S)]
            F == CHOOSE g : Iter(g)
<1>1. MapThenSumSet(Balance, Account) = F[Account]
  BY DEF MapThenSumSet, MapThenFoldSet, Pick
<1>2. ASSUME NEW g PROVE Iter(g) <=> SumsOver(g, f, Account)
  <2>1. \A S \in SUBSET Account :
          Step(g, S) = IF S = {} THEN 0 ELSE f[Pick(S)] + g[S \ {Pick(S)}]
    BY PickIs, FiniteAccounts
  <2>. HIDE DEF Step, f
  <2>. QED BY <2>1 DEF SumsOver
<1>. HIDE DEF Iter, f
<1>3. PICK g : SumsOver(g, f, Account) /\ SumOf(f, Account) = g[Account]
  BY SumIs, FiniteAccounts DEF f
<1>4. SumsOver(F, f, Account)
  <2>1. Iter(F)
    BY <1>2, <1>3
  <2>. QED BY <1>2, <2>1
<1>5. F[Account] = g[Account]
  BY <1>3, <1>4, SumsOverUnique, FiniteAccounts
<1>. QED BY <1>1, <1>3, <1>5 DEF f

-----------------------------------------------------------------------------
(* Theorems *)

\* In every reachable state the rows are those of the blocks applied and the
\* included transactions theirs, each of them in one block only.
THEOREM RowsAreTheBlocks == StateSpec => []StateInv
BY InitStateInv, NextKeeps, PTL DEF StateSpec

\* The rows of an account always form one list from its newest row down, and no
\* balance is ever negative.
THEOREM TypesHold == StateSpec => []TypeOK
<1>1. StateInv => TypeOK
  <2>1. SUFFICES ASSUME StateInv, NEW a \in Account
                 PROVE  /\ DOMAIN rows[a] \subseteq 1..stateHeight
                        /\ lastStates[a] = Max({0} \cup DOMAIN rows[a])
                        /\ \A h \in DOMAIN rows[a] :
                             /\ rows[a][h].balance \in Nat
                             /\ rows[a][h].prev = Max({0} \cup {g \in DOMAIN rows[a] : g < h})
    BY DEF TypeOK, StateInv
  <2>2. lastStates[a] = Max({0} \cup DOMAIN rows[a])
    BY <2>1, Zenon DEF StateInv, RowsMatch
  <2>3. \A h \in DOMAIN rows[a] :
          rows[a][h].prev = Max({0} \cup {g \in DOMAIN rows[a] : g < h})
    BY <2>1, RowsOf, Zenon DEF Below
  <2>. QED BY <2>1, <2>2, <2>3, RowsOf
<1>. QED BY <1>1, RowsAreTheBlocks, PTL

\* However many blocks were rolled back, includedTx names the transactions of
\* the blocks applied, with their heights, and none that was undone.
THEOREM IncludedAlwaysMatches == StateSpec => []IncludedMatches
<1>1. StateInv => IncludedMatches
  <2>. SUFFICES ASSUME StateInv PROVE IncludedMatches
    OBVIOUS
  <2>1. DOMAIN applied = 1..stateHeight
    BY StoredStateAssumption DEF StateInv
  <2>2. /\ DOMAIN includedTx = UNION {ToSet(Txs[applied[h]]) : h \in 1..stateHeight}
        /\ \A h \in 1..stateHeight : \A t \in ToSet(Txs[applied[h]]) : includedTx[t] = h
    BY Zenon DEF StateInv, TransactionsOnce
  <2>3. ASSUME NEW t \in DOMAIN includedTx
        PROVE  t \in ToSet(Txs[applied[includedTx[t]]])
    <3>1. PICK h \in 1..stateHeight : t \in ToSet(Txs[applied[h]])
      BY <2>2
    <3>. QED BY <2>2, <3>1
  <2>. QED BY <2>1, <2>2, <2>3, Zenon DEF IncludedMatches
<1>. QED BY <1>1, RowsAreTheBlocks, PTL

LEMMA SinceHeight ==
  ASSUME NEW k \in Nat, k > 0, NEW n \in Nat
  PROVE  Max({1, k - n}) \in 1..k
<1>. DEFINE S == {1, k - n} \cap Nat
<1>1. CASE k - n >= 1
  <2>1. {1, k - n} \in SUBSET Nat /\ \A x \in {1, k - n} : x <= k - n
    BY <1>1
  <2>2. Max({1, k - n}) = k - n
    BY <2>1, MaxIs
  <2>. QED BY <1>1, <2>2
<1>2. CASE ~(k - n >= 1)
  <2>1. \A m \in {1, k - n} : (\A x \in {1, k - n} : m >= x) => m = 1
    BY <1>2
  <2>2. \A x \in {1, k - n} : 1 >= x
    BY <1>2
  <2>3. Max({1, k - n}) = 1
    BY <2>1, <2>2 DEF Max
  <2>. QED BY <2>3
<1>. QED BY <1>1, <1>2

\* balanceWithConfirmations always is the least balance the account had since
\* that many blocks ago, whatever was rolled back before.
THEOREM ConfirmedAlwaysMinimum == StateSpec => []ConfirmedIsMinimum
<1>1. StateInv => ConfirmedIsMinimum
  <2>1. SUFFICES ASSUME StateInv, stateHeight > 0, NEW a \in Account, NEW n \in 0..MaxHeight
                 PROVE  BalanceWithConfirmations(a, n) =
                          Min({BalanceAfterBlocks(a, h) :
                                 h \in Max({1, stateHeight - n})..stateHeight})
    BY Zenon DEF ConfirmedIsMinimum
  <2>2. PICK h : h = Max({1, stateHeight - n})
    OBVIOUS
  <2>3. h \in 0..stateHeight
    <3>1. stateHeight \in Nat /\ n \in Nat
      BY <2>1, StoredStateAssumption DEF StateInv
    <3>2. h \in 1..stateHeight
      BY <2>1, <2>2, <3>1, SinceHeight
    <3>. QED BY <3>1, <3>2
  <2>4. BalanceSince(a, h) = LeastOf(a, h, stateHeight)
    BY <2>1, <2>3, SinceIs
  <2>. QED BY <2>2, <2>4, Zenon DEF BalanceWithConfirmations, LeastOf
<1>. QED BY <1>1, RowsAreTheBlocks, PTL

\* The ledger counts money the way the state does.
LEMMA SameMoney ==
  /\ \A c, a : StoredLedger!BalanceAfter(c, a) = BalanceAfter(c, a)
  /\ \A b, a : StoredLedger!BlockEffect(b, a) = BlockEffect(b, a)
  /\ \A s : StoredLedger!ToSet(s) = ToSet(s)
BY DEF StoredLedger!BalanceAfter, StoredLedger!BlockEffect, StoredLedger!FeesOf,
     StoredLedger!NetEffect, StoredLedger!Effect, StoredLedger!Total, StoredLedger!ToSet,
     BalanceAfter, BlockEffect, FeesOf, NetEffect, Effect, Total, ToSet

\* The state implements the ledger: the linked rows, the walk along them and
\* deleteNewer never show in a balance.
THEOREM StateImplementsLedger == StateSpec => ImplementsLedger
<1>. DEFINE bal == [a \in Account |-> Balance(a)]
            now == [a \in Account |-> BalanceAfter(applied, a)]
<1>1. StateInv => bal = now /\ \A a \in Account : bal[a] \in Nat
  BY BalanceIs
<1>2. (StateInv => bal = now /\ \A a \in Account : bal[a] \in Nat)'
  BY <1>1, PTL
<1>3. StateInit => StoredLedger!Init
  <2>. SUFFICES ASSUME StateInit PROVE applied = <<>> /\ bal = [a \in Account |-> 0]
    BY DEF StoredLedger!Init
  <2>1. applied = <<>> /\ StateInv
    BY InitStateInv DEF StateInit
  <2>2. \A a \in Account : BalanceAfter(applied, a) = 0
    BY <2>1, BalanceAfterNone
  <2>. QED BY <1>1, <2>1, <2>2
<1>4. ASSUME StateInv, StateInv', [StateNext]_stateVars
      PROVE  [StoredLedger!Next]_<<applied, bal>>
  <2>1. bal = now /\ bal' = now'
    BY <1>1, <1>2, <1>4
  <2>2. ASSUME NEW b \in Block, stateHeight < MaxHeight, ProcessBlock(b)
        PROVE  StoredLedger!Extend(b)
    <3>0. Processable(b)
      BY <2>2 DEF ProcessBlock
    <3>1. \A i \in DOMAIN applied : ToSet(Txs[b]) \cap ToSet(Txs[applied[i]]) = {}
      <4>1. DOMAIN applied = 1..stateHeight
        BY <1>4, StoredStateAssumption DEF StateInv
      <4>2. DOMAIN includedTx = UNION {ToSet(Txs[applied[h]]) : h \in 1..stateHeight}
        BY <1>4, Zenon DEF StateInv, TransactionsOnce
      <4>. QED BY <3>0, <4>1, <4>2 DEF Processable, Included
    <3>2. applied' = Append(applied, b)
      BY <2>2 DEF ProcessBlock
    <3>3. ASSUME NEW a \in Account
          PROVE  BalanceAfter(applied', a) = BalanceAfter(applied, a) + BlockEffect(b, a)
      <4>1. /\ applied \in Seq(Block) /\ applied' \in Seq(Block)
            /\ Len(applied') = Len(applied) + 1 /\ applied'[Len(applied')] = b
            /\ \A i \in 1..Len(applied) : applied[i] = applied'[i]
        BY <1>4, <2>2, <3>2 DEF StateInv
      <4>. QED BY <4>1, BalanceAfterNext
    <3>4. bal' = [a \in Account |-> bal[a] + BlockEffect(b, a)]
      <4>1. now' = [a \in Account |-> BalanceAfter(applied', a)]
        OBVIOUS
      <4>2. now' = [a \in Account |-> now[a] + BlockEffect(b, a)]
        BY <3>3, <4>1
      <4>. HIDE DEF bal, now
      <4>. QED BY <2>1, <4>2
    <3>. HIDE DEF bal
    <3>5. \A a \in Account : bal'[a] >= 0
      BY <1>2, <1>4
    <3>. QED BY <3>1, <3>2, <3>4, <3>5, SameMoney DEF StoredLedger!Extend, bal
  <2>3. ASSUME NEW r \in 1..stateHeight, RollbackTo(r)
        PROVE  r \in 1..Len(applied) /\ StoredLedger!Cut(r)
    <3>1. Len(applied) = stateHeight
      BY <1>4 DEF StateInv
    <3>2. applied' = SubSeq(applied, 1, r)
      BY <1>4, <2>3, RollbackKeeps
    <3>3. bal' = [a \in Account |-> BalanceAfter(applied', a)]
      BY <2>1
    <3>4. StoredLedger!Cut(r)
      BY <3>2, <3>3, SameMoney DEF StoredLedger!Cut
    <3>. QED BY <3>1, <3>4
  <2>4. CASE UNCHANGED stateVars
    BY <2>1, <2>4 DEF stateVars
  <2>. QED BY <1>4, <2>2, <2>3, <2>4 DEF StateNext, StoredLedger!Next
<1>. QED BY <1>3, <1>4, RowsAreTheBlocks, PTL DEF StateSpec, ImplementsLedger, StoredLedger!Spec
\* No order of blocks and rollbacks creates or loses money: the balances always
\* add up to what the genesis block gave out.
THEOREM MoneyIsConserved == StateSpec => []MoneyConserved
<1>. DEFINE bal == [a \in Account |-> Balance(a)]
            now == [a \in Account |-> BalanceAfter(applied, a)]
<1>1. StateInit => GenesisFirst(applied)
  BY DEF StateInit, GenesisFirst
<1>2. StateInv /\ GenesisFirst(applied) /\ [StateNext]_stateVars => GenesisFirst(applied)'
  <2>. SUFFICES ASSUME StateInv, GenesisFirst(applied), [StateNext]_stateVars
                PROVE  GenesisFirst(applied')
    OBVIOUS
  <2>1. stateHeight \in Nat /\ applied \in Seq(Block) /\ Len(applied) = stateHeight
    BY StoredStateAssumption DEF StateInv
  <2>2. ASSUME NEW b \in Block, Offered(b), ProcessBlock(b)
        PROVE  GenesisFirst(applied')
    <3>1. applied' = Append(applied, b) /\ (IsGenesis(b) <=> stateHeight = 0)
      BY <2>2 DEF ProcessBlock, Offered, IsGenesis
    <3>. QED BY <2>1, <3>1 DEF GenesisFirst
  <2>3. ASSUME NEW r \in 1..stateHeight, RollbackTo(r)
        PROVE  GenesisFirst(applied')
    <3>1. applied' = SubSeq(applied, 1, r)
      BY <2>3, RollbackKeeps
    <3>2. Len(applied') = r /\ \A i \in 1..r : applied'[i] = applied[i]
      BY <2>1, <3>1, PrefixOf
    <3>. QED BY <2>1, <3>2 DEF GenesisFirst
  <2>4. CASE UNCHANGED stateVars
    BY <2>4 DEF stateVars
  <2>. QED BY <2>2, <2>3, <2>4 DEF StateNext
<1>3. StateInv /\ GenesisFirst(applied) => MoneyConserved
  <2>. SUFFICES ASSUME StateInv, GenesisFirst(applied) PROVE MoneyConserved
    OBVIOUS
  <2>1. applied \in Seq(Block) /\ Len(applied) = stateHeight
    BY DEF StateInv
  <2>2. bal = now
    BY BalanceIs
  <2>3. /\ now \in [Account -> Int]
        /\ SumOf(now, Account) = IF stateHeight = 0 THEN 0 ELSE GivenOut(applied[1])
    BY <2>1, MoneyOfChain
  <2>. HIDE DEF now
  <2>4. MapThenSumSet(Balance, Account) = SumOf(bal, Account)
    BY <2>2, <2>3, BalancesAddedUp
  <2>. HIDE DEF bal
  <2>. QED BY <2>2, <2>3, <2>4 DEF MoneyConserved, GivenOut
<1>. QED BY <1>1, <1>2, <1>3, RowsAreTheBlocks, PTL DEF StateSpec
-----------------------------------------------------------------------------
(* validate *)

LEMMA PoolIs ==
  ASSUME NEW s \in Pools
  PROVE  /\ s \in Seq(ToSet(s)) /\ Amounts(ToSet(s))
<1>. DEFINE T == UNION {ToSet(Txs[b]) : b \in Block}
<1>1. PICK n \in 1..3 : s \in [1..n -> T]
  BY DEF Pools
<1>2. s \in Seq(ToSet(s)) /\ ToSet(s) \subseteq T
  BY <1>1 DEF ToSet
<1>3. \A t \in T : t.amount \in Nat /\ t.fee \in Nat
  BY TransactionsAssumption DEF IsTx
<1>. QED BY <1>2, <1>3 DEF Amounts

LEMMA BalancesPay ==
  ASSUME NEW txs
  PROVE  Pays(txs, Balances) <=> Affordable(txs)
<1>1. \A a \in Involved(txs) : Balances[a] = Balance(a)
  BY DEF Balances, Involved
<1>. QED BY <1>1 DEF Pays, Affordable

\* Of transactions that are not included, validate answers some that can be applied
\* together, and all of them when all can (StoredState.scala:161-182).
THEOREM ValidateAnswersPayable == StateSpec => []ValidateFresh
<1>1. ASSUME StateInv PROVE ValidateFresh
  <2>1. SUFFICES ASSUME NEW s \in Pools, \A i \in DOMAIN s : Acceptable(s[i])
                 PROVE  /\ Affordable(Validate(s))
                        /\ Affordable(s) => Validate(s) = s
    BY DEF ValidateFresh
  <2>2. ToSet(s) \subseteq AcceptableOf(s)
    BY <2>1 DEF AcceptableOf, ToSet
  <2>3. \A a \in Account : Balances[a] \in Nat
    BY <1>1, BalanceIs DEF Balances
  <2>4. s \in Seq(ToSet(s)) /\ Amounts(ToSet(s))
    BY PoolIs
  <2>5. /\ Pays(Validate(s), Balances)
        /\ Pays(s, Balances) => Validate(s) = s
    BY <2>2, <2>3, <2>4, FreshValidates DEF Validate
  <2>. QED BY <2>5, BalancesPay
<1>. QED BY <1>1, RowsAreTheBlocks, PTL
-----------------------------------------------------------------------------
(* The history and its storage together with the state *)

\* The maps of a chain: the block at height i is i deep, so it is there once.
GoodMaps(sig, rev, sc) ==
  /\ sig \in Seq(Block)
  /\ \A i \in 1..Len(sig) : Depth[sig[i]] = i
  /\ \A i \in 1..Len(sig) : i \in DOMAIN sc /\ sc[i] \in Nat
  /\ Consistent(sig, rev, sc)

\* The cache may hold a block the chain no longer has, but only at its depth.
GoodCache(cache) ==
  \A h \in DOMAIN cache :
    cache[h] # None => cache[h] \in Block /\ Depth[cache[h]] = h

ChainInv ==
  /\ GoodMaps(signatures, signaturesReverse, scoreMap)
  /\ GoodMaps(saved.signatures, saved.signaturesReverse, saved.scoreMap)
  /\ GoodCache(blocksCache)

LEMMA InitInv == Init => ChainInv
BY DEF Init, ChainInit, Db, ChainInv, GoodMaps, GoodCache, Consistent

LEMMA CacheGood ==
  ASSUME ChainInv, NEW cache \in CacheBases
  PROVE  GoodCache(cache)
BY DEF ChainInv, CacheBases, GoodCache

LEMMA ReadGood ==
  ASSUME ChainInv, NEW cache \in CacheBases, NEW h \in Nat, ReadIn(cache, h) # None
  PROVE  ReadIn(cache, h) \in Block /\ Depth[ReadIn(cache, h)] = h
BY CacheGood DEF ChainInv, ReadIn, GoodCache, GoodMaps

LEMMA FilledGood ==
  ASSUME ChainInv, NEW cache \in CacheBases, NEW h \in Nat
  PROVE  GoodCache(Filled(cache, h))
<1>1. GoodCache(cache)
  BY CacheGood
<1>2. ReadIn(cache, h) # None =>
        ReadIn(cache, h) \in Block /\ Depth[ReadIn(cache, h)] = h
  BY ReadGood
<1> QED BY <1>1, <1>2 DEF Filled, PutAt, GoodCache

LEMMA HeightNat == ASSUME ChainInv PROVE Height \in Nat
BY DEF ChainInv, GoodMaps, Height

\* A valid block whose parent the cache shows as the last block is one deeper
\* than the chain: it is not stored yet and its parent really is the last.
LEMMA AppendedIsNext ==
  ASSUME ChainInv, NEW b \in Block, IsValid(b), Height > 0,
         NEW cache \in CacheBases, ParentIsLast(cache, b)
  PROVE  Depth[b] = Height + 1 /\ Ref[b] = signatures[Height]
<1>0. Height \in Nat /\ Height > 0
  BY HeightNat
<1>1. Ref[b] \in Block /\ Depth[Ref[b]] = Height
  BY <1>0, ReadGood DEF ParentIsLast, LastIn
<1>2. Depth[b] = Height + 1
  BY <1>1, BlockchainAssumption
<1>3. ASSUME NEW x, ContainsBlock(x)
      PROVE  \E i \in 1..Height : x = signatures[i] /\ Depth[x] = i
  BY <1>3 DEF ContainsBlock, ChainInv, GoodMaps, Consistent, Height
<1>4. ~ContainsBlock(b)
  BY <1>0, <1>2, <1>3
<1>5. ContainsBlock(Ref[b])
  BY <1>0, <1>4 DEF IsValid
<1>6. Ref[b] = signatures[Height]
  BY <1>1, <1>3, <1>5
<1> QED BY <1>2, <1>6

LEMMA AppendKeeps ==
  ASSUME ChainInv, NEW b \in Block, IsValid(b), AppendToHistory(b)
  PROVE  /\ GoodMaps(signatures, signaturesReverse, scoreMap)'
         /\ GoodCache(blocksCache)'
<1>0. Height \in Nat /\ signatures \in Seq(Block) /\ Height = Len(signatures)
  BY HeightNat DEF ChainInv, GoodMaps, Height
<1>1. /\ signatures' = Append(signatures, b)
      /\ signaturesReverse' = PutAt(signaturesReverse, b, Height + 1)
      /\ scoreMap' = PutAt(scoreMap, Height + 1, Score + BlockScore[b])
  BY DEF AppendToHistory
<1>2. PICK cache \in CacheBases :
        /\ ParentIsLast(cache, b)
        /\ blocksCache' = IF Height = 0 THEN blocksCache ELSE Filled(cache, Height)
  BY DEF AppendToHistory
<1>3. GoodCache(blocksCache)'
  BY <1>0, <1>2, FilledGood DEF ChainInv, GoodCache
<1>4. /\ Depth[b] = Height + 1
      /\ Height = 0 => b = Genesis
      /\ Height > 0 => Ref[b] = signatures[Height]
  BY <1>0, <1>2, AppendedIsNext, BlockchainAssumption DEF IsValid
<1>5. /\ signatures' \in Seq(Block) /\ Len(signatures') = Height + 1
      /\ \A i \in 1..Height : signatures'[i] = signatures[i]
      /\ signatures'[Height + 1] = b
  BY <1>0, <1>1
<1>6. \A i \in 1..Height : Depth[signatures[i]] = i /\ signatures[i] # b
  BY <1>0, <1>4 DEF ChainInv, GoodMaps
<1>7. \A i \in 1..Height + 1 : Depth[signatures'[i]] = i
  BY <1>0, <1>4, <1>5, <1>6
<1>8. Score \in Nat /\ BlockScore[b] \in Nat
      /\ Score = IF Height = 0 THEN 0 ELSE scoreMap[Height]
  BY <1>0, BlockchainAssumption DEF Score, ChainInv, GoodMaps
<1>9. /\ \A i \in 1..Height : scoreMap'[i] = scoreMap[i] /\ i \in DOMAIN scoreMap'
      /\ Height + 1 \in DOMAIN scoreMap'
      /\ scoreMap'[Height + 1] = Score + BlockScore[b]
  BY <1>0, <1>1 DEF PutAt, ChainInv, GoodMaps
<1>10. \A i \in 1..Height + 1 : i \in DOMAIN scoreMap' /\ scoreMap'[i] \in Nat
  BY <1>0, <1>8, <1>9 DEF ChainInv, GoodMaps
<1>11. Consistent(signatures, signaturesReverse, scoreMap)'
  <2>1. signatures'[1] = Genesis
    BY <1>0, <1>4, <1>5 DEF ChainInv, GoodMaps, Consistent
  <2>2. \A i \in 1..Height : Ref[signatures'[i + 1]] = signatures'[i]
    <3> TAKE i \in 1..Height
    <3>1. CASE i = Height
      BY <1>0, <1>4, <1>5, <3>1
    <3>2. CASE i # Height
      <4>1. i \in 1..Height - 1 /\ i + 1 \in 1..Height
        BY <1>0, <3>2
      <4>2. Ref[signatures[i + 1]] = signatures[i]
        BY <1>0, <4>1 DEF ChainInv, GoodMaps, Consistent
      <4> QED BY <1>5, <4>1, <4>2
    <3> QED BY <3>1, <3>2
  <2>3. DOMAIN signaturesReverse' = {signatures'[i] : i \in 1..Height + 1}
    <3>1. DOMAIN signaturesReverse = {signatures[i] : i \in 1..Height}
      BY <1>0 DEF ChainInv, GoodMaps, Consistent
    <3>2. DOMAIN signaturesReverse' = DOMAIN signaturesReverse \cup {b}
      BY <1>1 DEF PutAt
    <3> QED BY <1>0, <1>5, <3>1, <3>2
  <2>4. \A i \in 1..Height + 1 : signaturesReverse'[signatures'[i]] = i
    <3>1. \A i \in 1..Height : signatures[i] \in DOMAIN signaturesReverse
                               /\ signaturesReverse[signatures[i]] = i
      BY <1>0 DEF ChainInv, GoodMaps, Consistent
    <3> QED BY <1>0, <1>1, <1>5, <1>6, <3>1 DEF PutAt
  <2>5. \A i \in 1..Height + 1 :
          scoreMap'[i] = (IF i = 1 THEN 0 ELSE scoreMap'[i - 1]) + BlockScore[signatures'[i]]
    <3> TAKE i \in 1..Height + 1
    <3>1. CASE i = Height + 1
      BY <1>0, <1>5, <1>8, <1>9, <3>1
    <3>2. CASE i # Height + 1
      <4>1. i \in 1..Height /\ (i # 1 => i - 1 \in 1..Height)
        BY <1>0, <3>2
      <4>2. scoreMap[i] = (IF i = 1 THEN 0 ELSE scoreMap[i - 1]) + BlockScore[signatures[i]]
        BY <1>0, <4>1 DEF ChainInv, GoodMaps, Consistent
      <4> QED BY <1>5, <1>9, <4>1, <4>2
    <3> QED BY <3>1, <3>2
  <2> QED BY <1>0, <1>5, <2>1, <2>2, <2>3, <2>4, <2>5 DEF Consistent
<1> QED BY <1>3, <1>5, <1>7, <1>10, <1>11 DEF GoodMaps

LEMMA DiscardKeeps ==
  ASSUME ChainInv, NEW id, DiscardBlock(id)
  PROVE  /\ GoodMaps(signatures, signaturesReverse, scoreMap)'
         /\ GoodCache(blocksCache)'
<1>0. Height \in Nat /\ signatures \in Seq(Block) /\ Height = Len(signatures)
  BY HeightNat DEF ChainInv, GoodMaps, Height
<1>1. /\ Height > 1
      /\ signatures' = Front(signatures)
      /\ signaturesReverse' = Without(signaturesReverse, Last(signatures))
      /\ scoreMap' = scoreMap
  BY DEF DiscardBlock, ReverseWithoutTop
<1>2. PICK cache \in CacheBases :
        blocksCache' = Without(Filled(cache, Height), Height)
  BY DEF DiscardBlock
<1>3. GoodCache(blocksCache)'
  BY <1>0, <1>2, FilledGood DEF GoodCache, Without
<1>4. /\ signatures' \in Seq(Block) /\ Len(signatures') = Height - 1
      /\ \A i \in 1..Height - 1 : signatures'[i] = signatures[i]
      /\ Last(signatures) = signatures[Height]
  BY <1>0, <1>1 DEF Front, Last
<1>5. \A i \in 1..Height - 1 :
        /\ Depth[signatures'[i]] = i
        /\ i \in DOMAIN scoreMap' /\ scoreMap'[i] \in Nat
        /\ signatures[i] # signatures[Height]
  BY <1>0, <1>1, <1>4 DEF ChainInv, GoodMaps
<1>6. Consistent(signatures, signaturesReverse, scoreMap)'
  <2>1. signatures'[1] = Genesis
    BY <1>0, <1>1, <1>4 DEF ChainInv, GoodMaps, Consistent
  <2>2. \A i \in 1..Height - 2 : Ref[signatures'[i + 1]] = signatures'[i]
    <3> TAKE i \in 1..Height - 2
    <3>1. i \in 1..Height - 1 /\ i + 1 \in 1..Height - 1
      BY <1>0, <1>1
    <3>2. Ref[signatures[i + 1]] = signatures[i]
      BY <1>0, <3>1 DEF ChainInv, GoodMaps, Consistent
    <3> QED BY <1>4, <3>1, <3>2
  <2>3. /\ DOMAIN signaturesReverse = {signatures[i] : i \in 1..Height}
        /\ \A i \in 1..Height : signaturesReverse[signatures[i]] = i
    BY <1>0 DEF ChainInv, GoodMaps, Consistent
  <2>4. DOMAIN signaturesReverse' = {signatures'[i] : i \in 1..Height - 1}
    <3>1. DOMAIN signaturesReverse' = DOMAIN signaturesReverse \ {signatures[Height]}
      BY <1>1, <1>4 DEF Without
    <3>2. ASSUME NEW i \in 1..Height, signatures[i] # signatures[Height]
          PROVE  i \in 1..Height - 1 /\ signatures[i] = signatures'[i]
      BY <1>0, <1>1, <1>4, <3>2
    <3>3. \A i \in 1..Height - 1 :
            /\ signatures'[i] = signatures[i] /\ i \in 1..Height
            /\ signatures[i] # signatures[Height]
      BY <1>0, <1>4, <1>5
    <3> QED BY <2>3, <3>1, <3>2, <3>3
  <2>5. \A i \in 1..Height - 1 : signaturesReverse'[signatures'[i]] = i
    BY <1>0, <1>1, <1>4, <1>5, <2>3 DEF Without
  <2>6. \A i \in 1..Height - 1 :
          scoreMap'[i] = (IF i = 1 THEN 0 ELSE scoreMap'[i - 1]) + BlockScore[signatures'[i]]
    BY <1>0, <1>1, <1>4 DEF ChainInv, GoodMaps, Consistent
  <2> QED BY <1>0, <1>1, <1>4, <2>1, <2>2, <2>4, <2>5, <2>6 DEF Consistent
<1> QED BY <1>3, <1>4, <1>5, <1>6 DEF GoodMaps

LEMMA NextKeepsChain == ChainInv /\ [Next]_vars => ChainInv'
<1> SUFFICES ASSUME ChainInv, [Next]_vars
             PROVE  ChainInv'
  OBVIOUS
<1>0. Height \in Nat
  BY HeightNat
<1>1. ASSUME NEW b \in Block, AppendBlock(b) PROVE ChainInv'
  <2>1. saved' = saved
    BY <1>1 DEF AppendBlock
  <2> QED BY <1>1, <2>1, AppendKeeps DEF AppendBlock, ChainInv
<1>2. ASSUME NEW b \in Block, AppendRefused(b) PROVE ChainInv'
  <2>1. UNCHANGED <<chainMaps, saved>> /\ GoodCache(blocksCache)'
    BY <1>0, <1>2, FilledGood DEF AppendRefused, RefusedByHistory, GoodCache
  <2> QED BY <2>1 DEF ChainInv, chainMaps
<1>3. CASE StateApplied
  <2>1. UNCHANGED <<chainMaps, blocksCache>> /\ saved' = Db'
    BY <1>3 DEF StateApplied
  <2> QED BY <2>1 DEF ChainInv, chainMaps, Db, GoodCache
<1>4. CASE StateFailed
  <2>1. RollbackDb /\ UNCHANGED <<blocksCache, saved>>
    BY <1>4 DEF StateFailed
  <2> QED BY <2>1 DEF ChainInv, RollbackDb, GoodCache
<1>5. ASSUME NEW id \in Block, RemoveAfter(id) PROVE ChainInv'
  <2>1. UNCHANGED <<chainMaps, blocksCache, saved>>
    BY <1>5 DEF RemoveAfter
  <2> QED BY <2>1 DEF ChainInv, chainMaps, GoodCache
<1>6. CASE RemoveTop
  <2>1. DiscardBlock(target) /\ saved' = saved
    BY <1>6 DEF RemoveTop
  <2> QED BY <2>1, DiscardKeeps DEF ChainInv
<1>7. CASE RemoveDone
  <2>1. UNCHANGED <<chainMaps, saved>> /\ GoodCache(blocksCache)'
    BY <1>0, <1>7, FilledGood DEF RemoveDone, GoodCache
  <2> QED BY <2>1 DEF ChainInv, chainMaps
<1>8. CASE RemoveThrows
  <2>1. UNCHANGED <<chainMaps, saved>> /\ GoodCache(blocksCache)'
    BY <1>0, <1>8, FilledGood DEF RemoveThrows, GoodCache
  <2> QED BY <2>1 DEF ChainInv, chainMaps
<1>9. CASE Read
  <2>1. UNCHANGED <<chainMaps, saved>> /\ GoodCache(blocksCache)'
    BY <1>0, <1>9, FilledGood DEF Read, ReadBlock, GoodCache
  <2> QED BY <2>1 DEF ChainInv, chainMaps
<1>10. CASE CrashAndRestart
  <2>1. RollbackDb /\ saved' = saved /\ blocksCache' = <<>>
    BY <1>10 DEF CrashAndRestart
  <2> QED BY <2>1 DEF ChainInv, RollbackDb, GoodCache
<1>11. CASE AutoCommit
  <2>1. UNCHANGED <<chainMaps, blocksCache>> /\ saved' = Db
    BY <1>11 DEF AutoCommit
  <2> QED BY <2>1 DEF ChainInv, chainMaps, Db, GoodCache
<1>12. CASE UNCHANGED vars
  BY <1>12 DEF vars, chainMaps, ChainInv, GoodCache
<1> QED
  BY <1>1, <1>2, <1>3, <1>4, <1>5, <1>6, <1>7, <1>8, <1>9, <1>10, <1>11, <1>12
     DEF Next

\* With the store's own commits, failing writes, crashes at any point and a
\* cache that may be wrong, the stored chain is never broken.
THEOREM ChainStaysConsistent == Spec => []ChainConsistent
<1>1. ChainInv => ChainConsistent
  BY DEF ChainInv, GoodMaps, ChainConsistent
<1> QED BY <1>1, InitInv, NextKeepsChain, PTL DEF Spec
-----------------------------------------------------------------------------
(* Commits *)

\* A chain cut after n blocks, for some n.
CutOf(chain, n) == SubSeq(chain, 1, n)

\* Since the last commit, be it the store's own, the chain was only cut, and is one
\* block longer while that block is being applied.
SinceCommit ==
  /\ pc \in {"idle", "applying", "removing"}
  /\ pc # "applying" => \E n \in 0..Len(saved.signatures) :
                          signatures = CutOf(saved.signatures, n)
  /\ pc = "applying" => \E n \in 0..Len(saved.signatures), b \in Block :
                          signatures = Append(CutOf(saved.signatures, n), b)

LEMMA CutAll ==
  ASSUME NEW c \in Seq(Block)
  PROVE  Len(c) \in 0..Len(c) /\ CutOf(c, Len(c)) = c
BY DEF CutOf

LEMMA CutFront ==
  ASSUME NEW c \in Seq(Block), NEW n \in 0..Len(c), Len(CutOf(c, n)) > 1
  PROVE  n - 1 \in 0..Len(c) /\ Front(CutOf(c, n)) = CutOf(c, n - 1)
<1>1. Len(CutOf(c, n)) = n /\ \A i \in 1..n : CutOf(c, n)[i] = c[i]
  BY DEF CutOf
<1>2. n - 1 \in 0..Len(c)
  BY <1>1
<1>. QED BY <1>1, <1>2 DEF CutOf, Front

LEMMA CutAgain ==
  ASSUME NEW c \in Seq(Block), NEW n \in 0..Len(c), NEW b \in Block, NEW d,
         d = Append(CutOf(c, n), b)
  PROVE  n \in 0..Len(d) /\ d = Append(CutOf(d, n), b) /\ Front(d) = CutOf(c, n)
<1>1. CutOf(c, n) \in Seq(Block) /\ Len(CutOf(c, n)) = n
  BY DEF CutOf
<1>2. d \in Seq(Block) /\ Len(d) = n + 1 /\ n \in Nat
  BY <1>1
<1>3. \A i \in 1..n : d[i] = CutOf(c, n)[i]
  BY <1>1
<1>4. CutOf(d, n) \in Seq(Block) /\ Len(CutOf(d, n)) = n /\ \A i \in 1..n : CutOf(d, n)[i] = d[i]
  BY <1>2 DEF CutOf
<1>5. CutOf(d, n) = CutOf(c, n)
  BY <1>1, <1>3, <1>4
<1>6. Front(d) = CutOf(d, n)
  BY <1>2 DEF Front, CutOf
<1>. QED BY <1>2, <1>5, <1>6

LEMMA InitSinceCommit == Init => SinceCommit
BY DEF Init, ChainInit, SinceCommit, CutOf, Db

LEMMA NextSinceCommit == ChainInv /\ SinceCommit /\ [Next]_vars => SinceCommit'
<1>. SUFFICES ASSUME ChainInv, SinceCommit, [Next]_vars PROVE SinceCommit'
  OBVIOUS
<1>0. saved.signatures \in Seq(Block) /\ signatures \in Seq(Block)
  BY DEF ChainInv, GoodMaps
<1>1. ASSUME NEW b \in Block, AppendBlock(b) PROVE SinceCommit'
  <2>1. /\ pc = "idle" /\ pc' = "applying" /\ saved' = saved
        /\ signatures' = Append(signatures, b)
    BY <1>1 DEF AppendBlock, AppendToHistory
  <2>. QED BY <2>1 DEF SinceCommit
<1>2. ASSUME UNCHANGED <<signatures, saved>>, pc # "applying", pc' \in {"idle", "removing"}
      PROVE  SinceCommit'
  BY <1>2 DEF SinceCommit
<1>3. CASE StateApplied
  <2>1. pc' = "idle" /\ saved'.signatures = signatures' /\ signatures' = signatures
    BY <1>3 DEF StateApplied, Db, chainMaps
  <2>. QED BY <1>0, <2>1, CutAll DEF SinceCommit
<1>4. ASSUME RollbackDb, saved' = saved, pc' = "idle" PROVE SinceCommit'
  <2>1. signatures' = saved.signatures
    BY <1>4 DEF RollbackDb
  <2>. QED BY <1>0, <1>4, <2>1, CutAll DEF SinceCommit
<1>5. CASE RemoveTop
  <2>1. /\ pc = "removing" /\ pc' = pc /\ saved' = saved
        /\ signatures' = Front(signatures) /\ Len(signatures) > 1
    BY <1>5 DEF RemoveTop, DiscardBlock, Height
  <2>2. PICK n \in 0..Len(saved.signatures) : signatures = CutOf(saved.signatures, n)
    BY <2>1 DEF SinceCommit
  <2>3. n - 1 \in 0..Len(saved.signatures) /\ signatures' = CutOf(saved.signatures, n - 1)
    BY <1>0, <2>1, <2>2, CutFront
  <2>. QED BY <2>1, <2>3 DEF SinceCommit
<1>6. CASE UNCHANGED vars
  BY <1>6 DEF vars, chainMaps, SinceCommit
<1>7. ASSUME NEW b \in Block, AppendRefused(b) PROVE SinceCommit'
  BY <1>2, <1>7 DEF AppendRefused, RefusedByHistory, chainMaps
<1>8. CASE StateFailed
  BY <1>4, <1>8 DEF StateFailed
<1>9. ASSUME NEW id \in Block, RemoveAfter(id) PROVE SinceCommit'
  BY <1>2, <1>9 DEF RemoveAfter, chainMaps
<1>10. CASE RemoveDone
  BY <1>2, <1>10 DEF RemoveDone, chainMaps
<1>11. CASE RemoveThrows
  BY <1>2, <1>11 DEF RemoveThrows, chainMaps
<1>12. CASE Read
  BY <1>12 DEF Read, ReadBlock, chainMaps, SinceCommit
<1>13. CASE CrashAndRestart
  BY <1>4, <1>13 DEF CrashAndRestart
<1>14. CASE AutoCommit
  <2>1. saved'.signatures = signatures /\ signatures' = signatures /\ pc' = pc
    BY <1>14 DEF AutoCommit, Db, chainMaps
  <2>2. CASE pc # "applying"
    BY <1>0, <2>1, <2>2, CutAll DEF SinceCommit
  <2>3. CASE pc = "applying"
    <3>1. PICK n \in 0..Len(saved.signatures), b \in Block :
                 signatures = Append(CutOf(saved.signatures, n), b)
      BY <2>3 DEF SinceCommit
    <3>2. PICK m : m = n
      OBVIOUS
    <3>3. m \in 0..Len(signatures) /\ signatures = Append(CutOf(signatures, m), b)
      BY <1>0, <3>1, <3>2, CutAgain
    <3>. QED BY <2>1, <2>3, <3>3 DEF SinceCommit
  <2>. QED BY <2>2, <2>3
<1>. QED
  BY <1>1, <1>3, <1>5, <1>6, <1>7, <1>8, <1>9, <1>10, <1>11, <1>12, <1>13, <1>14 DEF Next

\* However blocks are appended, refused, removed and rolled back, and whenever the
\* store commits by itself, a rollback or a restart has every block that was
\* appended and not removed since.
THEOREM NoBlockIsLost == Spec => RollbackLosesNoBlock
<1>1. Spec => []ChainInv
  BY InitInv, NextKeepsChain, PTL DEF Spec
<1>2. Spec => []SinceCommit
  BY <1>1, InitSinceCommit, NextSinceCommit, PTL DEF Spec
<1>3. ASSUME ChainInv, SinceCommit, CrashAndRestart \/ StateFailed
      PROVE  IsPrefix(Settled, signatures')
  <2>1. signatures' = saved.signatures
    BY <1>3 DEF CrashAndRestart, StateFailed, RollbackDb
  <2>2. saved.signatures \in Seq(Block)
    BY <1>3 DEF ChainInv, GoodMaps
  <2>3. PICK n \in 0..Len(saved.signatures) : Settled = CutOf(saved.signatures, n)
    <3>1. CASE pc = "applying"
      <4>1. PICK n \in 0..Len(saved.signatures), b \in Block :
                   signatures = Append(CutOf(saved.signatures, n), b)
        BY <1>3, <3>1 DEF SinceCommit
      <4>2. Front(signatures) = CutOf(saved.signatures, n)
        BY <2>2, <4>1, CutAgain
      <4>. QED BY <3>1, <4>2 DEF Settled
    <3>2. CASE pc # "applying"
      BY <1>3, <3>2 DEF SinceCommit, Settled
    <3>. QED BY <3>1, <3>2
  <2>4. IsPrefix(CutOf(saved.signatures, n), saved.signatures)
    <3>1. /\ Len(CutOf(saved.signatures, n)) = n /\ n <= Len(saved.signatures)
          /\ CutOf(saved.signatures, n) \in Seq(Block)
      BY <2>2 DEF CutOf
    <3>2. SubSeq(CutOf(saved.signatures, n), 1, n) = CutOf(saved.signatures, n)
      BY <3>1
    <3>. QED BY <2>2, <3>1, <3>2 DEF IsPrefix, CutOf
  <2>. QED BY <2>1, <2>3, <2>4
<1>4. ChainInv /\ SinceCommit =>
        [CrashAndRestart \/ StateFailed => IsPrefix(Settled, signatures')]_vars
  BY <1>3
<1>. QED BY <1>1, <1>2, <1>4, PTL DEF Spec, RollbackLosesNoBlock
-----------------------------------------------------------------------------
(* History and state *)

\* The block removeAfter keeps is in the chain, or the loop has gone below it.
TargetInReach ==
  pc = "removing" =>
    /\ target \in Block
    /\ \/ \E i \in 1..Height : signatures[i] = target
       \/ Depth[target] > Height

LEMMA NextTarget == ChainInv /\ TargetInReach /\ [Next]_vars => TargetInReach'
<1>. SUFFICES ASSUME ChainInv, TargetInReach, [Next]_vars PROVE TargetInReach'
  OBVIOUS
<1>0. signatures \in Seq(Block) /\ Height \in Nat /\ Height = Len(signatures)
      /\ \A i \in 1..Height : Depth[signatures[i]] = i
  BY HeightNat DEF ChainInv, GoodMaps, Height
<1>1. CASE pc' # "removing"
  BY <1>1 DEF TargetInReach
<1>2. ASSUME NEW id \in Block, RemoveAfter(id) PROVE TargetInReach'
  <2>1. target' = id /\ signatures' = signatures /\ ContainsBlock(id)
    BY <1>2 DEF RemoveAfter, chainMaps
  <2>2. \E i \in 1..Height : signatures[i] = id
    BY <1>0, <2>1 DEF ContainsBlock, ChainInv, GoodMaps, Consistent
  <2>. QED BY <2>1, <2>2 DEF TargetInReach, Height
<1>3. CASE RemoveTop
  <2>1. /\ pc = "removing" /\ target' = target /\ Height > 1
        /\ signatures' = Front(signatures)
    BY <1>3 DEF RemoveTop, DiscardBlock
  <2>2. Len(signatures') = Height - 1 /\ \A i \in 1..Height - 1 : signatures'[i] = signatures[i]
    BY <1>0, <2>1 DEF Front
  <2>3. target \in Block /\ (\/ \E i \in 1..Height : signatures[i] = target
                             \/ Depth[target] > Height)
    BY <2>1 DEF TargetInReach
  <2>4. CASE \E i \in 1..Height : signatures[i] = target
    <3>1. PICK i \in 1..Height : signatures[i] = target
      BY <2>4
    <3>2. CASE i = Height
      BY <1>0, <2>1, <2>2, <2>3, <3>1, <3>2 DEF TargetInReach, Height
    <3>3. CASE i # Height
      <4>1. i \in 1..Height - 1 /\ signatures'[i] = target
        BY <1>0, <2>2, <3>1, <3>3
      <4>. QED BY <2>1, <2>2, <2>3, <4>1 DEF TargetInReach, Height
    <3>. QED BY <3>2, <3>3
  <2>5. CASE Depth[target] > Height
    <3>1. Depth[target] \in Nat
      BY <2>3, BlockchainAssumption
    <3>. QED BY <1>0, <2>1, <2>2, <2>3, <2>5, <3>1 DEF TargetInReach, Height
  <2>. QED BY <2>3, <2>4, <2>5
<1>4. CASE Read
  BY <1>4 DEF Read, ReadBlock, chainMaps, TargetInReach, Height
<1>5. CASE AutoCommit \/ UNCHANGED vars
  BY <1>5 DEF AutoCommit, vars, chainMaps, TargetInReach, Height
<1>6. CASE /\ pc' = "removing" /\ ~RemoveTop /\ ~Read /\ ~AutoCommit /\ ~UNCHANGED vars
           /\ \A id \in Block : ~RemoveAfter(id)
  <2>1. FALSE
    BY <1>6 DEF Next, AppendBlock, AppendRefused, StateApplied, StateFailed,
                RemoveDone, RemoveThrows, CrashAndRestart
  <2>. QED BY <2>1
<1>. QED BY <1>1, <1>2, <1>3, <1>4, <1>5, <1>6

LEMMA MinIsFirst ==
  ASSUME NEW x \in Nat, NEW y \in Nat, x <= y
  PROVE  Min({x, y}) = x
<1>1. \A n \in {x, y} : (\A z \in {x, y} : n <= z) => n = x
  OBVIOUS
<1>2. \A z \in {x, y} : x <= z
  OBVIOUS
<1>. QED BY <1>1, <1>2 DEF Min

LEMMA FrontIsPrefix ==
  ASSUME NEW s \in Seq(Block), NEW t \in Seq(Block), Len(s) > 1, IsPrefix(s, t)
  PROVE  IsPrefix(Front(s), t)
<1>1. Len(s) <= Len(t) /\ SubSeq(s, 1, Len(s)) = SubSeq(t, 1, Len(s))
  BY DEF IsPrefix
<1>2. \A i \in 1..Len(s) : s[i] = t[i]
  <2>1. ASSUME NEW i \in 1..Len(s)
        PROVE  SubSeq(s, 1, Len(s))[i] = s[i] /\ SubSeq(t, 1, Len(s))[i] = t[i]
    BY <1>1
  <2>. QED BY <1>1, <2>1
<1>3. Front(s) = SubSeq(s, 1, Len(s) - 1)
  BY DEF Front
<1>4. Len(Front(s)) = Len(s) - 1
  BY <1>3
<1>5. SubSeq(Front(s), 1, Len(s) - 1) = SubSeq(t, 1, Len(s) - 1)
  BY <1>1, <1>2, <1>3
<1>. QED BY <1>1, <1>4, <1>5 DEF IsPrefix

\* The loop of removeAfter ends when the block it keeps is the top of the chain.
LEMMA RemovedToTop ==
  ASSUME ChainInv, TargetInReach, RemoveDone
  PROVE  signaturesReverse[target] = Height /\ Height \in Nat
<1>1. signatures \in Seq(Block) /\ Height \in Nat /\ Height = Len(signatures)
      /\ \A i \in 1..Height : Depth[signatures[i]] = i
  BY HeightNat DEF ChainInv, GoodMaps, Height
<1>2. PICK cache \in CacheBases : LastIn(cache) = target
  BY DEF RemoveDone
<1>3. target \in Block /\ target # None
  BY NoneIsNoBlock DEF RemoveDone, TargetInReach
<1>4. Depth[target] = Height
  BY <1>1, <1>2, <1>3, ReadGood DEF LastIn
<1>5. PICK i \in 1..Height : signatures[i] = target
  BY <1>1, <1>4 DEF RemoveDone, TargetInReach
<1>6. i = Height
  BY <1>1, <1>4, <1>5
<1>. QED BY <1>1, <1>5, <1>6 DEF ChainInv, GoodMaps, Consistent

\* The state's record of its blocks is a sequence of blocks.
AppliedBlocks == applied \in Seq(Block) /\ saved.applied \in Seq(Block)

LEMMA NextAppliedBlocks ==
  ChainInv /\ SinceCommit /\ TargetInReach /\ AppliedBlocks /\ [Next]_vars => AppliedBlocks'
<1>. SUFFICES ASSUME ChainInv, SinceCommit, TargetInReach, AppliedBlocks, [Next]_vars
              PROVE  AppliedBlocks'
  OBVIOUS
<1>1. CASE StateApplied
  <2>1. /\ applied' = Append(applied, Last(signatures)) /\ saved'.applied = applied'
        /\ pc = "applying"
    BY <1>1 DEF StateApplied, ProcessBlock, Db
  <2>2. signatures \in Seq(Block) /\ saved.signatures \in Seq(Block)
    BY DEF ChainInv, GoodMaps
  <2>3. PICK n \in 0..Len(saved.signatures), b \in Block :
               signatures = Append(CutOf(saved.signatures, n), b)
    BY <2>1 DEF SinceCommit
  <2>4. CutOf(saved.signatures, n) \in Seq(Block)
    BY <2>2 DEF CutOf
  <2>5. Last(signatures) = b
    BY <2>3, <2>4 DEF Last
  <2>. QED BY <2>1, <2>5 DEF AppliedBlocks
<1>2. CASE RemoveDone
  <2>1. applied' = SubSeq(applied, 1, Min({signaturesReverse[target], Len(applied)}))
        /\ saved' = saved
    BY <1>2 DEF RemoveDone, RollbackState, RollbackTo
  <2>2. signaturesReverse[target] \in Nat /\ applied \in Seq(Block)
    BY <1>2, RemovedToTop DEF AppliedBlocks
  <2>3. PICK r : r = Min({signaturesReverse[target], Len(applied)})
    OBVIOUS
  <2>4. r \in 0..Len(applied)
    <3>1. Len(applied) \in Nat
      BY <2>2
    <3>2. CASE signaturesReverse[target] <= Len(applied)
      BY <2>2, <2>3, <3>1, <3>2, MinIsFirst
    <3>3. CASE Len(applied) <= signaturesReverse[target]
      <4>1. Min({Len(applied), signaturesReverse[target]}) = Len(applied)
        BY <2>2, <3>1, <3>3, MinIsFirst
      <4>2. {Len(applied), signaturesReverse[target]} = {signaturesReverse[target], Len(applied)}
        OBVIOUS
      <4>3. r = Len(applied)
        BY <2>3, <4>1, <4>2, Zenon
      <4>. QED BY <3>1, <4>3
    <3>. QED BY <2>2, <3>1, <3>2, <3>3
  <2>5. SubSeq(applied, 1, r) \in Seq(Block)
    BY <2>2, <2>4
  <2>. QED BY <2>1, <2>3, <2>5 DEF AppliedBlocks
<1>3. ASSUME UNCHANGED <<applied, saved>> PROVE AppliedBlocks'
  BY <1>3 DEF AppliedBlocks
<1>4. ASSUME RollbackDb, saved' = saved PROVE AppliedBlocks'
  BY <1>4 DEF RollbackDb, AppliedBlocks
<1>5. CASE AutoCommit
  <2>1. saved'.applied = applied /\ applied' = applied
    BY <1>5 DEF AutoCommit, Db, stateVars
  <2>. QED BY <2>1 DEF AppliedBlocks
<1>. QED
  BY <1>1, <1>2, <1>3, <1>4, <1>5
     DEF Next, vars, stateVars, AppendBlock, AppendRefused, StateFailed, RemoveAfter,
         RemoveTop, RemoveThrows, Read, CrashAndRestart

\* The loop of removeAfter ends at the block it keeps, and the state is rolled
\* back to that block's height.
LEMMA RemovedTogether ==
  ASSUME ChainInv, TargetInReach, AppliedBlocks, Together, RemoveDone
  PROVE  applied' = signatures
<1>1. /\ signatures \in Seq(Block) /\ applied \in Seq(Block)
      /\ Height \in Nat /\ Height = Len(signatures)
  BY HeightNat DEF ChainInv, GoodMaps, Height, AppliedBlocks
<1>2. Height <= Len(applied) /\ SubSeq(applied, 1, Height) = signatures
  <2>1. IsPrefix(signatures, applied)
    BY DEF RemoveDone, Together
  <2>2. SubSeq(signatures, 1, Len(signatures)) = signatures
    BY <1>1
  <2>. QED BY <1>1, <2>1, <2>2 DEF IsPrefix
<1>3. applied' = SubSeq(applied, 1, Min({Height, Len(applied)}))
  BY RemovedToTop DEF RemoveDone, RollbackState, RollbackTo
<1>4. Min({Height, Len(applied)}) = Height
  BY <1>1, <1>2, MinIsFirst
<1>. QED BY <1>2, <1>3, <1>4

\* Whatever is appended, refused, read, rolled back or lost in a crash, history
\* and state stay at the same block, unless a removeAfter throws or the store commits
\* by itself while they are apart.
THEOREM StateNeverParts == Spec => StateStaysWithHistory
<1>1. Spec => []ChainInv
  BY InitInv, NextKeepsChain, PTL DEF Spec
<1>2. Spec => []TargetInReach
  <2>1. Init => TargetInReach
    BY DEF Init, TargetInReach
  <2>. QED BY <1>1, <2>1, NextTarget, PTL DEF Spec
<1>3. Spec => []SinceCommit
  BY <1>1, InitSinceCommit, NextSinceCommit, PTL DEF Spec
<1>4. Spec => []AppliedBlocks
  <2>1. Init => AppliedBlocks
    BY DEF Init, StateInit, Db, AppliedBlocks
  <2>. QED BY <1>1, <1>2, <1>3, <2>1, NextAppliedBlocks, PTL DEF Spec
<1>5. ASSUME ChainInv, TargetInReach, AppliedBlocks, Together, Next, ~RemoveThrows,
             ~CommitsApart
      PROVE  Together'
  <2>0. signatures \in Seq(Block) /\ saved.signatures \in Seq(Block)
        /\ applied \in Seq(Block)
    BY <1>5 DEF ChainInv, GoodMaps, AppliedBlocks
  <2>1. ASSUME NEW b \in Block, AppendBlock(b) PROVE Together'
    <3>1. /\ pc = "idle" /\ pc' = "applying" /\ saved' = saved /\ applied' = applied
          /\ signatures' = Append(signatures, b)
      BY <2>1 DEF AppendBlock, AppendToHistory, stateVars
    <3>2. Last(Append(signatures, b)) = b
      BY <2>0 DEF Last
    <3>. QED BY <1>5, <3>1, <3>2 DEF Together
  <2>2. CASE StateApplied
    <3>1. /\ pc = "applying" /\ pc' = "idle" /\ signatures' = signatures
          /\ applied' = Append(applied, Last(signatures))
          /\ saved'.applied = applied' /\ saved'.signatures = signatures'
      BY <2>2 DEF StateApplied, ProcessBlock, Db, chainMaps
    <3>. QED BY <1>5, <3>1 DEF Together
  <2>3. ASSUME RollbackDb, saved' = saved, pc' = "idle" PROVE Together'
    BY <1>5, <2>3 DEF RollbackDb, Together
  <2>4. ASSUME NEW id \in Block, RemoveAfter(id) PROVE Together'
    <3>1. /\ pc = "idle" /\ pc' = "removing" /\ saved' = saved
          /\ signatures' = signatures /\ applied' = applied
      BY <2>4 DEF RemoveAfter, chainMaps, stateVars
    <3>2. IsPrefix(signatures, signatures)
      BY <2>0 DEF IsPrefix
    <3>. QED BY <1>5, <3>1, <3>2 DEF Together
  <2>5. CASE RemoveTop
    <3>1. /\ pc = "removing" /\ pc' = pc /\ saved' = saved /\ applied' = applied
          /\ signatures' = Front(signatures) /\ Len(signatures) > 1
      BY <2>5 DEF RemoveTop, DiscardBlock, Height, stateVars
    <3>2. IsPrefix(signatures, applied)
      BY <1>5, <3>1 DEF Together
    <3>3. IsPrefix(Front(signatures), applied)
      BY <1>5, <2>0, <3>1, <3>2, FrontIsPrefix
    <3>. QED BY <1>5, <3>1, <3>3 DEF Together
  <2>6. CASE RemoveDone
    <3>1. pc' = "idle" /\ signatures' = signatures /\ saved' = saved
      BY <2>6 DEF RemoveDone, chainMaps
    <3>2. applied' = signatures
      BY <1>5, <2>6, RemovedTogether
    <3>. QED BY <1>5, <3>1, <3>2 DEF Together
  <2>7. ASSUME UNCHANGED <<signatures, applied, pc, saved>> PROVE Together'
    BY <1>5, <2>7 DEF Together
  <2>8. CASE StateFailed
    BY <2>3, <2>8 DEF StateFailed
  <2>9. CASE CrashAndRestart
    BY <2>3, <2>9 DEF CrashAndRestart
  <2>10. ASSUME NEW b \in Block, AppendRefused(b) PROVE Together'
    BY <2>7, <2>10 DEF AppendRefused, RefusedByHistory, chainMaps, stateVars
  <2>11. CASE Read
    BY <2>7, <2>11 DEF Read, ReadBlock, chainMaps, stateVars
  <2>12. CASE AutoCommit
    <3>1. /\ saved'.applied = applied /\ saved'.signatures = signatures
          /\ UNCHANGED <<signatures, applied, pc>>
      BY <2>12 DEF AutoCommit, Db, chainMaps, stateVars
    <3>2. applied = signatures
      BY <1>5, <2>12 DEF CommitsApart
    <3>. QED BY <1>5, <3>1, <3>2 DEF Together
  <2>. QED
    BY <1>5, <2>1, <2>2, <2>4, <2>5, <2>6, <2>8, <2>9, <2>10, <2>11, <2>12 DEF Next
<1>6. ChainInv /\ TargetInReach /\ AppliedBlocks /\ [Next]_vars =>
        [Together /\ ~RemoveThrows /\ ~CommitsApart => Together']_vars
  BY <1>5
<1>. QED BY <1>1, <1>2, <1>6, <1>4, PTL DEF Spec, StateStaysWithHistory
=============================================================================
