------------------------ MODULE UnconfirmedPoolProofs ------------------------
(* For any number of threads and transactions, and whoever clears the pool   *)
(* meanwhile: the pool grows beyond its limit by less than there are threads, *)
(* and what is packed from it never makes the chain repeat or owe anything.   *)
EXTENDS UnconfirmedPool, PaymentsProofs, FiniteSetTheorems

\* A thread that is about to put was told of room: the two sets share the limit.
RoomInv ==
  /\ IsFiniteSet(transactions) /\ IsFiniteSet(submitting)
  /\ Cardinality(transactions) + Cardinality(submitting) < SizeLimit + Threads

\* Whoever clears only takes away.
LEMMA FewerTransactions ==
  ASSUME RoomInv, transactions' \subseteq transactions, UNCHANGED submitting
  PROVE  RoomInv'
<1>1. /\ IsFiniteSet(transactions')
      /\ Cardinality(transactions') <= Cardinality(transactions)
  BY FS_Subset DEF RoomInv
<1>2. {Cardinality(transactions), Cardinality(transactions'), Cardinality(submitting)} \subseteq Nat
  BY <1>1, FS_CardinalityType DEF RoomInv
<1>. QED
  BY <1>1, <1>2, UnconfirmedPoolAssumption DEF RoomInv

LEMMA OneElementMore ==
  ASSUME NEW S, IsFiniteSet(S), NEW x
  PROVE  IsFiniteSet(S \cup {x}) /\ Cardinality(S \cup {x}) <= Cardinality(S) + 1
<1>1. Cardinality(S) \in Nat
  BY FS_CardinalityType
<1>. QED
  BY <1>1, FS_AddElement

LEMMA AcceptsInv ==
  ASSUME RoomInv, NEW t, Accepts(t)
  PROVE  RoomInv'
<1>1. /\ Cardinality(transactions) < SizeLimit /\ Cardinality(submitting) < Threads
      /\ submitting' = submitting \cup {t} /\ UNCHANGED transactions
  BY DEF Accepts, HasRoom
<1>2. IsFiniteSet(submitting') /\ Cardinality(submitting') <= Cardinality(submitting) + 1
  BY <1>1, OneElementMore DEF RoomInv
<1>3. {Cardinality(transactions), Cardinality(submitting), Cardinality(submitting')} \subseteq Nat
  BY <1>2, FS_CardinalityType DEF RoomInv
<1>. QED
  BY <1>1, <1>2, <1>3, UnconfirmedPoolAssumption DEF RoomInv

LEMMA PutInv ==
  ASSUME RoomInv, NEW t, PutIfAbsent(t)
  PROVE  RoomInv'
<1>1. /\ t \in submitting /\ submitting' = submitting \ {t}
      /\ transactions' = transactions \cup {t}
  BY DEF PutIfAbsent
<1>2. IsFiniteSet(submitting') /\ Cardinality(submitting') = Cardinality(submitting) - 1
  BY <1>1, FS_RemoveElement DEF RoomInv
<1>3. IsFiniteSet(transactions') /\ Cardinality(transactions') <= Cardinality(transactions) + 1
  BY <1>1, OneElementMore DEF RoomInv
<1>4. {Cardinality(transactions), Cardinality(submitting), Cardinality(transactions')} \subseteq Nat
  BY <1>3, FS_CardinalityType DEF RoomInv
<1>. QED
  BY <1>2, <1>3, <1>4, UnconfirmedPoolAssumption DEF RoomInv

LEMMA ClearingTakesAway ==
  ASSUME NEW p, NEW next, NEW after, Clears(p, next, after)
  PROVE  transactions' \subseteq transactions
BY DEF Clears, Removes

LEMMA NextKeepsRoom ==
  ASSUME RoomInv, [Next]_vars
  PROVE  RoomInv'
<1>1. ASSUME NEW t \in Tx, Accepts(t) \/ PutIfAbsent(t) PROVE RoomInv'
  BY <1>1, AcceptsInv, PutInv
<1>2. CASE MinerStep
  <2>1. transactions' \subseteq transactions /\ UNCHANGED submitting
    BY <1>2, ClearingTakesAway
       DEF MinerStep, ReadsLastBlock, NoBlockYet, MinerClears, MinerThrows, PackUnconfirmed
  <2>. QED BY <2>1, FewerTransactions
<1>3. CASE CoordinatorStep
  <2>1. transactions' \subseteq transactions /\ UNCHANGED submitting
    BY <1>3, ClearingTakesAway
       DEF CoordinatorStep, AddOwnBlock, CoordinatorClears, AddBlockOfPeer, RemoveAfter,
           ChangesAccount
  <2>. QED BY <2>1, FewerTransactions
<1>4. CASE UNCHANGED vars
  BY <1>4, FewerTransactions DEF vars
<1>. QED
  BY <1>1, <1>2, <1>3, <1>4 DEF Next

LEMMA InitHasRoom == Init => RoomInv
<1>1. IsFiniteSet({}) /\ Cardinality({}) = 0
  BY FS_EmptySet
<1>. QED
  BY <1>1, UnconfirmedPoolAssumption DEF Init, RoomInv

\* The limit of the pool is exceeded by less than the threads that put
\* (UnconfirmedTransactionsDatabaseImpl.scala:20-25).
THEOREM LimitIsHeld == Spec => []LimitHolds
<1>1. RoomInv => LimitHolds
  BY FS_CardinalityType, UnconfirmedPoolAssumption DEF RoomInv, LimitHolds
<1>. QED
  BY <1>1, InitHasRoom, NextKeepsRoom, PTL DEF Spec
-----------------------------------------------------------------------------
(* The chain *)

Entries == [time : Nat, txs : Seq(Tx)]

Messages == [time : Nat, txs : Seq(Tx), on : Seq(Entries)]

Stages == {"idle", "applying", "rollingBack", "clearing", "reading", "dropping",
           "validating", "removing", "packing"}

Miners == [at : Stages, now : Nat, pool : SUBSET Tx, young : SUBSET Tx, gone : SUBSET Tx,
           on : Seq(Entries)]

Coordinators == [at : Stages, now : Nat, pool : SUBSET Tx, young : SUBSET Tx,
                 gone : SUBSET Tx, block : SUBSET Tx, left : SUBSET Account,
                 open : SUBSET Account]

\* The chain consists of blocks of known transactions, and so does everything that
\* may become one.
KnownInv ==
  /\ chain \in Seq(Entries)
  /\ transactions \subseteq Tx /\ submitting \subseteq Tx
  /\ miner \in Miners /\ generated \in Seq(Messages)

\* The balance of a after the blocks of c.
BalanceOn(c, a) == Start[a] + Total([i \in DOMAIN c |-> NetEffect(c[i].txs, a)])

\* No two blocks of c share a transaction, and after none of them an account owes:
\* that is what a removal of the later ones leaves.
SoundChain(c) ==
  /\ \A i, j \in DOMAIN c : ToSet(c[i].txs) \cap ToSet(c[j].txs) # {} => i = j
  /\ \A n \in 0..Len(c), a \in Account : BalanceOn(SubSeq(c, 1, n), a) >= 0

SoundInv == KnownInv /\ SoundChain(chain)

\* What the state says of an account that the Coordinator has not left to change is
\* what the chain says of it.
BalanceSet(a) ==
  a \notin coordinator.left \/ (a \in coordinator.open /\ coordinator.at = "applying")

NotesSet(a) ==
  a \notin coordinator.left \/ (a \in coordinator.open /\ coordinator.at = "rollingBack")

StateInv ==
  /\ coordinator \in Coordinators
  /\ coordinator.left = {} \/ Changing
  /\ balances \in [Account -> Int]
  /\ \A a \in Account : BalanceSet(a) => balances[a] = BalanceOf(a)
  /\ \A a \in Account : NotesSet(a) =>
       \A t \in Tx : a \in {t.from, t.to} => (t \in included <=> t \in Included)

LEMMA TxAmounts == Amounts(Tx)
BY UnconfirmedPoolAssumption DEF Amounts

LEMMA Involves ==
  ASSUME NEW txs \in Seq(Tx), NEW a \in Account, a \notin Involved(txs)
  PROVE  NetEffect(txs, a) = 0
<1>. DEFINE s == [i \in DOMAIN txs |-> Effect(txs[i], a)]
<1>1. Len(s) = Len(txs) /\ Len(txs) \in Nat
  OBVIOUS
<1>2. ASSUME NEW i \in 1..Len(txs) PROVE s[i] = 0
  <2>1. txs[i] \in ToSet(txs)
    BY DEF ToSet
  <2>2. a # txs[i].from /\ a # txs[i].to
    BY <2>1 DEF Involved
  <2>. QED BY <2>2 DEF Effect
<1>. HIDE DEF s
<1>3. Total(s) = 0
  BY <1>1, <1>2, TotalZero
<1>. QED BY <1>3 DEF NetEffect, s

LEMMA EntryTxs ==
  ASSUME NEW c \in Seq(Entries), NEW i \in 1..Len(c)
  PROVE  c[i].txs \in Seq(Tx)
<1>1. c[i] \in Entries
  OBVIOUS
<1>. QED BY <1>1 DEF Entries

LEMMA BalanceOnInt ==
  ASSUME NEW c \in Seq(Entries), NEW a \in Account
  PROVE  BalanceOn(c, a) \in Int
<1>. DEFINE s == [i \in DOMAIN c |-> NetEffect(c[i].txs, a)]
<1>1. Len(s) = Len(c) /\ Len(c) \in Nat /\ \A i \in 1..Len(c) : s[i] \in Int
  <2>1. ASSUME NEW i \in 1..Len(c) PROVE NetEffect(c[i].txs, a) \in Int
    <3>1. c[i].txs \in Seq(Tx)
      BY EntryTxs
    <3>. QED BY <3>1, TxAmounts, NetEffectInt
  <2>. QED BY <2>1
<1>. HIDE DEF s
<1>2. Total(s) \in Int
  BY <1>1, TotalInt
<1>. QED BY <1>2, UnconfirmedPoolAssumption DEF BalanceOn, s

\* One block more.
LEMMA BalanceOnNext ==
  ASSUME NEW c \in Seq(Entries), NEW e \in Entries, NEW a \in Account
  PROVE  BalanceOn(Append(c, e), a) = BalanceOn(c, a) + NetEffect(e.txs, a)
<1>. DEFINE d == Append(c, e)
            s == [i \in DOMAIN c |-> NetEffect(c[i].txs, a)]
            t == [i \in DOMAIN d |-> NetEffect(d[i].txs, a)]
<1>1. d \in Seq(Entries) /\ Len(d) = Len(c) + 1 /\ d[Len(d)] = e /\ Len(c) \in Nat
      /\ \A i \in 1..Len(c) : d[i] = c[i]
  OBVIOUS
<1>. HIDE DEF d
<1>2. Len(s) = Len(c) /\ Len(t) = Len(d) /\ t[Len(d)] = NetEffect(e.txs, a)
  BY <1>1
<1>3. \A i \in 1..Len(d) : t[i] \in Int
  <2> TAKE i \in 1..Len(d)
  <2>1. d[i].txs \in Seq(Tx)
    BY <1>1, EntryTxs
  <2>2. NetEffect(d[i].txs, a) \in Int
    BY <2>1, TxAmounts, NetEffectInt
  <2>. QED BY <1>1, <2>2
<1>4. \A i \in 1..Len(c) : s[i] = t[i]
  BY <1>1
<1>. HIDE DEF s, t
<1>5. Total(t) = Total(s) + t[Len(t)]
  BY <1>1, <1>2, <1>3, <1>4, TotalNext
<1>6. Total(s) \in Int /\ NetEffect(e.txs, a) \in Int
  <2>1. Total(s) \in Int
    BY <1>1, <1>2, <1>3, <1>4, TotalInt
  <2>. QED BY <1>1, <1>2, <1>3, <2>1
<1>7. BalanceOn(c, a) = Start[a] + Total(s) /\ BalanceOn(d, a) = Start[a] + Total(t)
  BY DEF BalanceOn, s, t
<1>8. BalanceOn(d, a) = BalanceOn(c, a) + NetEffect(e.txs, a)
  BY <1>1, <1>2, <1>5, <1>6, <1>7, UnconfirmedPoolAssumption
<1>. QED BY <1>8 DEF d

\* Between two changes the state is that of the chain.
LEMMA StateSettled ==
  ASSUME StateInv, ~Changing
  PROVE  /\ \A a \in Account : balances[a] = BalanceOf(a)
         /\ \A t \in Tx : t \in included <=> t \in Included
<1>1. \A a \in Account : a \notin coordinator.left
  BY DEF StateInv
<1>2. \A t \in Tx : t.from \in Account
  BY UnconfirmedPoolAssumption
<1>. QED BY <1>1, <1>2 DEF StateInv, BalanceSet, NotesSet

\* A valid block repeats nothing and nobody owes after it.
LEMMA ValidBlockKeeps ==
  ASSUME SoundInv, StateInv, ~Changing, NEW txs \in Seq(Tx), IsValidBlock(txs),
         NEW time \in Nat
  PROVE  LET c == Append(chain, [time |-> time, txs |-> txs])
         IN  c \in Seq(Entries) /\ SoundChain(c)
<1>. DEFINE e == [time |-> time, txs |-> txs]
            c == Append(chain, e)
<1>1. /\ chain \in Seq(Entries) /\ e \in Entries
      /\ \A i, j \in DOMAIN chain : ToSet(chain[i].txs) \cap ToSet(chain[j].txs) # {} => i = j
      /\ \A n \in 0..Len(chain), a \in Account : BalanceOn(SubSeq(chain, 1, n), a) >= 0
  BY Zenon DEF SoundInv, KnownInv, SoundChain, Entries
<1>2. /\ c \in Seq(Entries) /\ Len(c) = Len(chain) + 1 /\ c[Len(c)] = e
      /\ \A i \in 1..Len(chain) : c[i] = chain[i]
      /\ Len(chain) \in Nat
  BY <1>1
<1>3. ASSUME NEW a \in Account PROVE BalanceOf(a) = BalanceOn(chain, a) /\ BalanceOf(a) \in Nat
  <2>1. SubSeq(chain, 1, Len(chain)) = chain
    BY <1>1
  <2>2. BalanceOn(chain, a) >= 0
    <3>1. Len(chain) \in 0..Len(chain)
      BY <1>2
    <3>2. BalanceOn(SubSeq(chain, 1, Len(chain)), a) >= 0
      BY <1>1, <3>1, Zenon
    <3>. QED BY <2>1, <3>2
  <2>3. BalanceOn(chain, a) \in Int
    BY <1>1, BalanceOnInt
  <2>. QED BY <2>2, <2>3 DEF BalanceOf, BalanceOn
<1>4. ToSet(txs) \subseteq ToSet(txs) \ Included /\ Pays(txs, balances)
  <2>1. \A a \in Account : balances[a] = BalanceOf(a)
    BY StateSettled
  <2>2. Len(ValidateAll(txs, balances, ToSet(txs) \ included)) = Len(txs)
    BY DEF IsValidBlock, IsValidTxs, Validate
  <2>3. ToSet(txs) \subseteq ToSet(txs) \ included /\ Pays(txs, balances)
    <3>1. \A a \in Account : balances[a] \in Nat
      BY <1>3, <2>1
    <3>. QED BY <2>2, <3>1, TxAmounts, ValidatesWhole
  <2>4. ToSet(txs) \subseteq Tx
    BY DEF ToSet
  <2>. QED BY <2>3, <2>4, StateSettled
<1>5. ASSUME NEW i \in DOMAIN c, NEW j \in DOMAIN c, i # j
      PROVE  ToSet(c[i].txs) \cap ToSet(c[j].txs) = {}
  <2>1. i \in 1..Len(chain) \/ i = Len(c)
    BY <1>2
  <2>2. j \in 1..Len(chain) \/ j = Len(c)
    BY <1>2
  <2>3. \A k \in 1..Len(chain) : ToSet(chain[k].txs) \cap ToSet(txs) = {}
    BY <1>1, <1>4 DEF Included
  <2>4. CASE i \in 1..Len(chain) /\ j \in 1..Len(chain)
    <3>1. c[i] = chain[i] /\ c[j] = chain[j] /\ i \in DOMAIN chain /\ j \in DOMAIN chain
      BY <1>1, <1>2, <2>4
    <3>2. ToSet(chain[i].txs) \cap ToSet(chain[j].txs) # {} => i = j
      BY <1>1, <3>1, Zenon
    <3>. QED BY <1>5, <3>1, <3>2
  <2>5. CASE i \in 1..Len(chain) /\ j = Len(c)
    BY <1>2, <2>3, <2>5
  <2>6. CASE i = Len(c) /\ j \in 1..Len(chain)
    BY <1>2, <2>3, <2>6
  <2>. QED BY <1>5, <2>1, <2>2, <2>4, <2>5, <2>6
<1>6. ASSUME NEW a \in Account PROVE BalanceOn(c, a) >= 0
  <2>1. BalanceOn(c, a) = BalanceOn(chain, a) + NetEffect(txs, a)
    BY <1>1, BalanceOnNext
  <2>2. CASE a \in Involved(txs)
    BY <1>3, <1>4, <2>1, <2>2, StateSettled DEF Pays
  <2>3. CASE a \notin Involved(txs)
    BY <1>3, <2>1, <2>3, Involves
  <2>. QED BY <2>2, <2>3
<1>7. ASSUME NEW n \in 0..Len(c), NEW a \in Account PROVE BalanceOn(SubSeq(c, 1, n), a) >= 0
  <2>1. CASE n = Len(c)
    <3>1. SubSeq(c, 1, n) = c
      BY <1>2, <2>1
    <3>. QED BY <1>6, <3>1
  <2>2. CASE n # Len(c)
    <3>1. n \in 0..Len(chain)
      BY <1>2, <2>2
    <3>2. SubSeq(c, 1, n) = SubSeq(chain, 1, n)
      BY <1>1, <1>2, <3>1
    <3>. QED BY <1>1, <3>1, <3>2
  <2>. QED BY <2>1, <2>2
<1>8. SoundChain(c)
  <2>. HIDE DEF c
  <2>. QED BY <1>5, <1>7 DEF SoundChain
<1>. QED BY <1>2, <1>8

\* What is cut off a sound chain from its end leaves a sound chain.
LEMMA CutKeeps ==
  ASSUME NEW c \in Seq(Entries), SoundChain(c), NEW n \in 0..Len(c)
  PROVE  SubSeq(c, 1, n) \in Seq(Entries) /\ SoundChain(SubSeq(c, 1, n))
<1>. DEFINE d == SubSeq(c, 1, n)
<1>1. d \in Seq(Entries) /\ Len(d) = n /\ n <= Len(c) /\ \A i \in 1..n : d[i] = c[i]
  OBVIOUS
<1>2. /\ \A i, j \in DOMAIN c : ToSet(c[i].txs) \cap ToSet(c[j].txs) # {} => i = j
      /\ \A k \in 0..Len(c), a \in Account : BalanceOn(SubSeq(c, 1, k), a) >= 0
  BY Zenon DEF SoundChain
<1>3. ASSUME NEW k \in 0..n PROVE k \in 0..Len(c) /\ SubSeq(d, 1, k) = SubSeq(c, 1, k)
  BY <1>1
<1>. HIDE DEF d
<1>4. ASSUME NEW i \in DOMAIN d, NEW j \in DOMAIN d,
             ToSet(d[i].txs) \cap ToSet(d[j].txs) # {}
      PROVE  i = j
  <2>1. i \in DOMAIN c /\ j \in DOMAIN c /\ d[i] = c[i] /\ d[j] = c[j]
    BY <1>1
  <2>2. ToSet(c[i].txs) \cap ToSet(c[j].txs) # {}
    BY <1>4, <2>1
  <2>. QED BY <1>2, <2>1, <2>2, Zenon
<1>5. ASSUME NEW k \in 0..Len(d), NEW a \in Account PROVE BalanceOn(SubSeq(d, 1, k), a) >= 0
  <2>1. k \in 0..n
    BY <1>1
  <2>2. k \in 0..Len(c) /\ SubSeq(d, 1, k) = SubSeq(c, 1, k)
    BY <1>3, <2>1
  <2>3. BalanceOn(SubSeq(c, 1, k), a) >= 0
    BY <1>2, <2>2, Zenon
  <2>. QED BY <2>2, <2>3
<1>6. SoundChain(d)
  BY <1>4, <1>5, Zenon DEF SoundChain
<1>. QED BY <1>1, <1>6 DEF d

LEMMA TimeIs ==
  ASSUME NEW c \in Seq(Entries)
  PROVE  TimeOf(c) \in Nat
<1>1. CASE c = <<>>
  BY <1>1 DEF TimeOf
<1>2. CASE c # <<>>
  <2>1. c[Len(c)] \in Entries
    BY <1>2
  <2>2. Last(c) = c[Len(c)]
    BY DEF Last
  <2>. QED BY <1>2, <2>1, <2>2 DEF TimeOf, Entries
<1>. QED BY <1>1, <1>2

\* A packed block is made of transactions of the pool.
LEMMA PackedIs ==
  ASSUME IsFiniteSet(transactions), transactions \subseteq Tx,
         NEW dearest \in ByFee(transactions)
  PROVE  Packed(dearest) \in Seq(Tx)
<1>. DEFINE m == Min({Len(dearest), MaxTransactionsPerBlock})
<1>1. Cardinality(transactions) \in Nat
  BY FS_CardinalityType
<1>2. dearest \in [1..Cardinality(transactions) -> transactions]
  BY DEF ByFee, SetToSeqs
<1>3. dearest \in Seq(Tx) /\ Len(dearest) \in Nat
  BY <1>1, <1>2
<1>4. m \in 0..Len(dearest)
  <2>1. MaxTransactionsPerBlock \in Nat
    BY UnconfirmedPoolAssumption
  <2>. QED BY <1>3, <2>1, MinOfTwo
<1>. HIDE DEF m
<1>5. SubSeq(dearest, 1, m) \in Seq(Tx)
  BY <1>3, <1>4
<1>6. Packed(dearest) = Validate(SubSeq(dearest, 1, m))
  BY DEF Packed, FirstOf, m
<1>7. ASSUME NEW q \in Seq(Tx) PROVE Validate(q) \in Seq(Tx)
  <2>. DEFINE ok == ToSet(q) \ included
  <2>1. Validate(q) = ValidateAll(q, balances, ok)
    BY DEF Validate
  <2>. HIDE DEF ok
  <2>. QED BY <2>1, ValidatesPart
<1>. QED BY <1>5, <1>6, <1>7

LEMMA SoundInit == Init => SoundInv
<1>1. SUFFICES ASSUME Init PROVE SoundInv
  OBVIOUS
<1>2. KnownInv
  BY <1>1 DEF Init, KnownInv, IdleMiner, Miners, Stages
<1>3. chain = <<>>
  BY <1>1 DEF Init
<1>4. ASSUME NEW a \in Account PROVE BalanceOn(<<>>, a) >= 0
  <2>. DEFINE s == [i \in DOMAIN <<>> |-> NetEffect(<<>>[i].txs, a)]
  <2>1. Len(s) = 0
    OBVIOUS
  <2>. HIDE DEF s
  <2>2. Total(s) = 0
    BY <2>1, TotalEmpty
  <2>. QED BY <2>2, UnconfirmedPoolAssumption DEF BalanceOn, s
<1>5. SoundChain(<<>>)
  <2>1. ASSUME NEW n \in 0..Len(<<>>), NEW a \in Account
        PROVE  BalanceOn(SubSeq(<<>>, 1, n), a) >= 0
    <3>1. SubSeq(<<>>, 1, n) = <<>>
      OBVIOUS
    <3>. QED BY <1>4, <3>1
  <2>. QED BY <2>1 DEF SoundChain
<1>. QED BY <1>2, <1>3, <1>5 DEF SoundInv

\* Steps that leave the chain take what they handle from what is known.
LEMMA KnownKeeps ==
  ASSUME SoundInv, UNCHANGED chain, transactions' \subseteq Tx, submitting' \subseteq Tx,
         miner' \in Miners, generated' \in Seq(Messages)
  PROVE  SoundInv'
<1>1. KnownInv'
  BY DEF SoundInv, KnownInv
<1>2. SoundChain(chain)'
  BY Zenon DEF SoundInv, SoundChain, BalanceOn
<1>. QED BY <1>1, <1>2 DEF SoundInv

\* The chain changes, and nothing of what may become a block.
LEMMA ChainKeeps ==
  ASSUME SoundInv, chain' \in Seq(Entries), SoundChain(chain'),
         UNCHANGED <<transactions, submitting, miner>>, generated' \in Seq(Messages)
  PROVE  SoundInv'
<1>1. KnownInv'
  BY DEF SoundInv, KnownInv
<1>2. SoundChain(chain)'
  BY Zenon DEF SoundChain, BalanceOn
<1>. QED BY <1>1, <1>2 DEF SoundInv

-----------------------------------------------------------------------------
(* What a step of clearing the pool makes of a cleaner *)

Kind(p) == p \in Miners \/ p \in Coordinators

\* Nothing but the clearing goes on.
SameCleaner(p, next) ==
  /\ Kind(next)
  /\ p \in Miners => next \in Miners /\ next.on = p.on
  /\ p \in Coordinators =>
       /\ next \in Coordinators
       /\ next.block = p.block /\ next.left = p.left /\ next.open = p.open

LEMMA OneKind ==
  ASSUME NEW p, p \in Miners
  PROVE  p \notin Coordinators
<1>1. SUFFICES ASSUME p \in Coordinators PROVE FALSE
  OBVIOUS
<1>2. "block" \in DOMAIN p
  BY <1>1 DEF Coordinators
<1>3. "block" \notin DOMAIN p
  BY DEF Miners
<1>. QED BY <1>2, <1>3

LEMMA GoesIs ==
  ASSUME NEW p, Kind(p), NEW stage \in Stages
  PROVE  LET next == Goes(p, stage) IN
         /\ next.at = IF p.gone = {} THEN stage ELSE p.at
         /\ next.now = p.now /\ next.pool = p.pool /\ next.young = p.young /\ next.gone = p.gone
         /\ SameCleaner(p, next)
<1>1. CASE p \in Miners
  BY <1>1, OneKind DEF Goes, Kind, SameCleaner, Miners
<1>2. CASE p \in Coordinators
  BY <1>2, OneKind DEF Goes, Kind, SameCleaner, Coordinators
<1>. QED BY <1>1, <1>2 DEF Kind

LEMMA SameTwice ==
  ASSUME NEW p, NEW q, NEW next, SameCleaner(p, q), SameCleaner(q, next)
  PROVE  SameCleaner(p, next)
BY DEF SameCleaner

LEMMA ReadsTimeIs ==
  ASSUME NEW p, Kind(p), NEW next, ReadsTime(p, next), LastBlockTs \in Nat
  PROVE  /\ next.at = "reading" /\ next.now = LastBlockTs /\ SameCleaner(p, next)
<1>1. CASE p \in Miners
  BY <1>1, OneKind DEF ReadsTime, SameCleaner, Kind, Miners, Stages
<1>2. CASE p \in Coordinators
  BY <1>2, OneKind DEF ReadsTime, SameCleaner, Kind, Coordinators, Stages
<1>. QED BY <1>1, <1>2 DEF Kind

LEMMA ReadsPoolIs ==
  ASSUME NEW p, Kind(p), NEW next, ReadsPool(p, next), transactions \subseteq Tx
  PROVE  /\ p.at = "reading" /\ next.at \in {"dropping", "validating"}
         /\ next.young \subseteq next.pool /\ next.pool = transactions
         /\ next.gone = {t \in transactions : ~(p.now - t.time <= MaxTimeForUnconfirmed)}
         /\ SameCleaner(p, next)
<1>. DEFINE young == YoungEnough(transactions, p.now)
            q == [p EXCEPT !.at = "dropping", !.now = 0, !.pool = transactions,
                           !.young = young, !.gone = transactions \ young]
<1>1. p.at = "reading" /\ next = Goes(q, "validating")
  BY DEF ReadsPool
<1>2. young \subseteq transactions
      /\ transactions \ young = {t \in transactions : ~(p.now - t.time <= MaxTimeForUnconfirmed)}
  BY DEF YoungEnough
<1>. HIDE DEF young
<1>3. /\ q.at = "dropping" /\ q.pool = transactions /\ q.young = young
      /\ q.gone = transactions \ young /\ SameCleaner(p, q)
  <2>1. young \in SUBSET Tx /\ transactions \ young \in SUBSET Tx
    BY <1>2
  <2>2. CASE p \in Miners
    BY <2>1, <2>2, OneKind DEF SameCleaner, Kind, Miners, Stages
  <2>3. CASE p \in Coordinators
    BY <2>1, <2>3, OneKind DEF SameCleaner, Kind, Coordinators, Stages
  <2>. QED BY <2>2, <2>3 DEF Kind
<1>. HIDE DEF q
<1>4. /\ next.at = IF q.gone = {} THEN "validating" ELSE q.at
      /\ next.pool = q.pool /\ next.young = q.young /\ next.gone = q.gone
      /\ SameCleaner(q, next)
  BY <1>1, <1>3, GoesIs DEF SameCleaner, Stages
<1>5. SameCleaner(p, next)
  BY <1>3, <1>4, SameTwice
<1>. QED BY <1>1, <1>2, <1>3, <1>4, <1>5

LEMMA FindsInvalidIs ==
  ASSUME NEW p, Kind(p), NEW after \in Stages, NEW next, FindsInvalid(p, next, after)
  PROVE  /\ p.at = "validating" /\ next.at \in {"removing", after}
         /\ \E txs \in SetToSeqs(p.pool) : next.gone = p.young \ ValidOf(txs)
         /\ SameCleaner(p, next)
<1>1. PICK txs \in SetToSeqs(p.pool) :
        /\ p.at = "validating"
        /\ next = Goes([p EXCEPT !.at = "removing", !.pool = {}, !.young = {},
                                 !.gone = p.young \ ValidOf(txs)], after)
  BY DEF FindsInvalid
<1>. DEFINE gone == p.young \ ValidOf(txs)
            q == [p EXCEPT !.at = "removing", !.pool = {}, !.young = {}, !.gone = gone]
<1>2. gone \in SUBSET Tx
  BY DEF Kind, Miners, Coordinators
<1>3. next = Goes(q, after)
  BY <1>1
<1>. HIDE DEF gone
<1>4. q.at = "removing" /\ q.gone = gone /\ SameCleaner(p, q)
  <2>1. CASE p \in Miners
    BY <1>2, <2>1, OneKind DEF SameCleaner, Kind, Miners, Stages
  <2>2. CASE p \in Coordinators
    BY <1>2, <2>2, OneKind DEF SameCleaner, Kind, Coordinators, Stages
  <2>. QED BY <2>1, <2>2 DEF Kind
<1>. HIDE DEF q
<1>5. /\ next.at = IF q.gone = {} THEN after ELSE q.at
      /\ next.gone = q.gone /\ SameCleaner(q, next)
  BY <1>3, <1>4, GoesIs DEF SameCleaner
<1>6. SameCleaner(p, next)
  BY <1>4, <1>5, SameTwice
<1>. QED BY <1>1, <1>4, <1>5, <1>6 DEF gone

LEMMA RemovesIs ==
  ASSUME NEW p, Kind(p), NEW after \in Stages, NEW next, Removes(p, next, after)
  PROVE  /\ p.at \in {"dropping", "removing"}
         /\ next.at \in {p.at, IF p.at = "dropping" THEN "validating" ELSE after}
         /\ next.gone \subseteq p.gone /\ next.pool = p.pool /\ next.young = p.young
         /\ \E t \in p.gone : transactions' = transactions \ {t}
         /\ SameCleaner(p, next)
<1>. DEFINE stage == IF p.at = "dropping" THEN "validating" ELSE after
<1>1. PICK t \in p.gone :
        /\ p.at \in {"dropping", "removing"} /\ transactions' = transactions \ {t}
        /\ next = Goes([p EXCEPT !.gone = p.gone \ {t}], stage)
  BY DEF Removes
<1>. DEFINE q == [p EXCEPT !.gone = p.gone \ {t}]
<1>2. /\ q.at = p.at /\ q.pool = p.pool /\ q.young = p.young /\ q.gone = p.gone \ {t}
      /\ SameCleaner(p, q)
  <2>1. CASE p \in Miners
    BY <2>1, OneKind DEF SameCleaner, Kind, Miners
  <2>2. CASE p \in Coordinators
    BY <2>2, OneKind DEF SameCleaner, Kind, Coordinators
  <2>. QED BY <2>1, <2>2 DEF Kind
<1>3. next = Goes(q, stage)
  BY <1>1
<1>. HIDE DEF q
<1>4. /\ next.at = IF q.gone = {} THEN stage ELSE q.at
      /\ next.pool = q.pool /\ next.young = q.young /\ next.gone = q.gone
      /\ SameCleaner(q, next)
  BY <1>2, <1>3, GoesIs DEF SameCleaner, Stages
<1>5. SameCleaner(p, next)
  BY <1>2, <1>4, SameTwice
<1>. QED BY <1>1, <1>2, <1>4, <1>5

\* Clearing is the cleaner's alone.
LEMMA ClearsIs ==
  ASSUME NEW p, Kind(p), NEW after \in Stages, NEW next, Clears(p, next, after),
         transactions \subseteq Tx
  PROVE  SameCleaner(p, next)
BY ReadsPoolIs, FindsInvalidIs, RemovesIs DEF Clears
-----------------------------------------------------------------------------
(* The state follows the chain *)

LEMMA ChangedIs ==
  ASSUME NEW c \in Coordinators, c.at \in {"applying", "rollingBack"}
  PROVE  /\ Changed(c) \in Coordinators
         /\ Changed(c).block = c.block /\ Changed(c).left = c.left /\ Changed(c).open = c.open
         /\ IF c.left # {} THEN Changed(c).at = c.at ELSE Changed(c).at \in {"clearing", "idle"}
BY DEF Changed, Coordinators, Stages

\* A block of c more: the accounts that it does not name keep their balances.
LEMMA BalanceStays ==
  ASSUME NEW c \in Seq(Entries), NEW n \in 0..Len(c), NEW a \in Account,
         \A i \in n + 1..Len(c) : a \notin Involved(c[i].txs)
  PROVE  BalanceOn(SubSeq(c, 1, n), a) = BalanceOn(c, a)
<1>. DEFINE S == {k \in Nat : n + k <= Len(c) =>
                    BalanceOn(SubSeq(c, 1, n + k), a) = BalanceOn(SubSeq(c, 1, n), a)}
<1>0. PICK len \in Nat : len = Len(c)
  OBVIOUS
<1>1. 0 \in S
  BY <1>0
<1>2. ASSUME NEW k \in Nat, k \in S PROVE k + 1 \in S
  <2>1. SUFFICES ASSUME n + (k + 1) <= Len(c)
                 PROVE  BalanceOn(SubSeq(c, 1, n + (k + 1)), a) = BalanceOn(SubSeq(c, 1, n), a)
    OBVIOUS
  <2>. DEFINE m == n + k
              d == SubSeq(c, 1, m)
              e == c[m + 1]
  <2>2. m \in Nat /\ m + 1 \in 1..Len(c) /\ m + 1 \in n + 1..Len(c) /\ n + (k + 1) = m + 1
    BY <1>0, <2>1
  <2>3. d \in Seq(Entries) /\ e \in Entries
    BY <1>0, <2>2
  <2>4. SubSeq(c, 1, m + 1) = Append(d, e)
    BY <1>0, <2>2, <2>3
  <2>5. NetEffect(e.txs, a) = 0
    <3>1. e.txs \in Seq(Tx) /\ a \notin Involved(e.txs)
      BY <2>2, EntryTxs
    <3>. QED BY <3>1, Involves
  <2>6. BalanceOn(d, a) \in Int
    BY <2>3, BalanceOnInt
  <2>. HIDE DEF d, e, m
  <2>7. BalanceOn(Append(d, e), a) = BalanceOn(d, a)
    BY <2>3, <2>5, <2>6, BalanceOnNext
  <2>8. BalanceOn(d, a) = BalanceOn(SubSeq(c, 1, n), a)
    BY <1>0, <1>2, <2>1, <2>2 DEF d, m
  <2>. QED BY <2>2, <2>4, <2>7, <2>8
<1>. HIDE DEF S
<1>3. Nat \subseteq S
  BY <1>1, <1>2, Induction
<1>4. PICK k \in Nat : n + k = Len(c)
  <2>1. Len(c) - n \in Nat /\ n + (Len(c) - n) = Len(c)
    BY <1>0
  <2>. QED BY <2>1
<1>5. k \in S
  BY <1>3
<1>6. BalanceOn(SubSeq(c, 1, n + k), a) = BalanceOn(SubSeq(c, 1, n), a)
  BY <1>0, <1>4, <1>5 DEF S
<1>7. SubSeq(c, 1, Len(c)) = c
  BY <1>0
<1>. QED BY <1>4, <1>6, <1>7

\* A transaction is in a block that names its accounts.
LEMMA InInvolved ==
  ASSUME NEW t \in Tx, NEW txs, t \in ToSet(txs)
  PROVE  {t.from, t.to} \subseteq Involved(txs)
BY UnconfirmedPoolAssumption DEF Involved

\* The chain has become another: what the Coordinator is to change are the accounts
\* that the difference names.
LEMMA ChainChanges ==
  ASSUME StateInv, ~Changing, UNCHANGED <<balances, included>>,
         coordinator' \in Coordinators, coordinator'.open = {},
         coordinator'.left = {} \/ Changing',
         \A a \in Account \ coordinator'.left : BalanceOf(a)' = BalanceOf(a),
         \A t \in Tx : t \in Included' \/ t \in Included =>
           \/ {t.from, t.to} \subseteq coordinator'.left
           \/ t \in Included' /\ t \in Included
  PROVE  StateInv'
<1>1. /\ \A a \in Account : balances[a] = BalanceOf(a)
      /\ \A t \in Tx : t \in included <=> t \in Included
  BY StateSettled
<1>2. ASSUME NEW a \in Account, BalanceSet(a)' PROVE (balances[a] = BalanceOf(a))'
  <2>1. a \notin coordinator'.left
    BY <1>2 DEF BalanceSet
  <2>. QED BY <1>1, <2>1
<1>3. ASSUME NEW a \in Account, NotesSet(a)', NEW t \in Tx, a \in {t.from, t.to}
      PROVE  (t \in included <=> t \in Included)'
  <2>1. a \notin coordinator'.left
    BY <1>3 DEF NotesSet
  <2>. QED BY <1>1, <1>3, <2>1
<1>4. (balances \in [Account -> Int])'
  BY DEF StateInv
<1>. QED BY <1>2, <1>3, <1>4 DEF StateInv

LEMMA AppendKeepsState ==
  ASSUME SoundInv, StateInv, ~Changing, UNCHANGED <<balances, included>>,
         NEW txs \in Seq(Tx), NEW time \in Nat, Appends(time, txs)
  PROVE  /\ StateInv'
         /\ coordinator'.block \subseteq Included'
         /\ coordinator'.at \in {"applying", "clearing"}
<1>. DEFINE e == [time |-> time, txs |-> txs]
            c == [IdleCoordinator EXCEPT !.at = "applying", !.block = ToSet(txs),
                                         !.left = Involved(txs)]
<1>1. chain' = Append(chain, e) /\ coordinator' = Changed(c)
  BY DEF Appends
<1>2. /\ c \in Coordinators /\ c.at = "applying" /\ c.block = ToSet(txs)
      /\ c.left = Involved(txs) /\ c.open = {}
  <2>1. ToSet(txs) \subseteq Tx /\ Involved(txs) \subseteq Account
    BY DEF ToSet, Involved
  <2>. QED BY <2>1 DEF IdleCoordinator, Coordinators, Stages
<1>. HIDE DEF c
<1>3. /\ coordinator' \in Coordinators /\ coordinator'.open = {}
      /\ coordinator'.block = ToSet(txs) /\ coordinator'.left = Involved(txs)
      /\ coordinator'.left = {} \/ Changing'
      /\ coordinator'.at \in {"applying", "clearing"}
  <2>1. Changed(c).at \in {"applying", "clearing"}
    BY <1>2 DEF Changed, Coordinators
  <2>. QED BY <1>1, <1>2, <2>1, ChangedIs DEF Changing
<1>4. chain \in Seq(Entries) /\ e \in Entries
  BY DEF SoundInv, KnownInv, Entries
<1>5. ASSUME NEW a \in Account \ coordinator'.left PROVE BalanceOf(a)' = BalanceOf(a)
  <2>1. NetEffect(e.txs, a) = 0
    BY <1>3, <1>5, Involves
  <2>2. BalanceOn(chain', a) = BalanceOn(chain, a) + NetEffect(e.txs, a)
    BY <1>1, <1>4, BalanceOnNext
  <2>3. BalanceOn(chain, a) \in Int
    BY <1>4, BalanceOnInt
  <2>4. BalanceOf(a)' = BalanceOn(chain', a) /\ BalanceOf(a) = BalanceOn(chain, a)
    BY DEF BalanceOn, BalanceOf
  <2>. HIDE DEF e
  <2>. QED BY <2>1, <2>2, <2>3, <2>4
<1>6. Included' = Included \cup ToSet(txs)
  <2>1. /\ DOMAIN chain' = DOMAIN chain \cup {Len(chain) + 1}
        /\ \A i \in DOMAIN chain : chain'[i] = chain[i]
        /\ chain'[Len(chain) + 1] = e
    BY <1>1, <1>4
  <2>. QED BY <2>1 DEF Included
<1>7. ASSUME NEW t \in Tx, t \in Included' \/ t \in Included
      PROVE  \/ {t.from, t.to} \subseteq coordinator'.left
             \/ t \in Included' /\ t \in Included
  BY <1>3, <1>6, <1>7, InInvolved
<1>8. StateInv'
  BY <1>3, <1>5, <1>7, ChainChanges
<1>. QED BY <1>3, <1>6, <1>8

LEMMA RemovalKeepsState ==
  ASSUME SoundInv, StateInv, NEW n \in Nat, RemoveAfter(n)
  PROVE  /\ StateInv' /\ coordinator'.block = {}
         /\ coordinator'.at \in {"rollingBack", "clearing", "idle"}
<1>. DEFINE left == UNION {Involved(chain[i].txs) : i \in n + 1..Len(chain)}
            c == [IdleCoordinator EXCEPT !.at = "rollingBack", !.left = left]
<1>1. /\ n \in 0..Len(chain) /\ chain' = SubSeq(chain, 1, n) /\ coordinator' = Changed(c)
      /\ coordinator.at = "idle" /\ UNCHANGED <<balances, included>>
      /\ chain \in Seq(Entries)
  BY DEF RemoveAfter, state, SoundInv, KnownInv
<1>2. /\ c \in Coordinators /\ c.at = "rollingBack" /\ c.block = {}
      /\ c.left = left /\ c.open = {}
  <2>1. left \subseteq Account
    BY DEF Involved
  <2>. HIDE DEF left
  <2>. QED BY <2>1 DEF IdleCoordinator, Coordinators, Stages
<1>. HIDE DEF c, left
<1>3. /\ coordinator' \in Coordinators /\ coordinator'.open = {} /\ coordinator'.left = left
      /\ coordinator'.block = {}
      /\ coordinator'.left = {} \/ Changing'
      /\ coordinator'.at \in {"rollingBack", "clearing", "idle"}
  BY <1>1, <1>2, ChangedIs DEF Changing
<1>4. ASSUME NEW a \in Account \ coordinator'.left PROVE BalanceOf(a)' = BalanceOf(a)
  <2>1. \A i \in n + 1..Len(chain) : a \notin Involved(chain[i].txs)
    BY <1>3, <1>4 DEF left
  <2>2. BalanceOn(chain', a) = BalanceOn(chain, a)
    BY <1>1, <2>1, BalanceStays
  <2>. QED BY <2>2 DEF BalanceOn, BalanceOf
<1>5. ASSUME NEW t \in Tx, t \in Included' \/ t \in Included
      PROVE  \/ {t.from, t.to} \subseteq coordinator'.left
             \/ t \in Included' /\ t \in Included
  <2>1. \A i \in DOMAIN chain' : i \in DOMAIN chain /\ chain'[i] = chain[i]
    BY <1>1
  <2>2. t \in Included
    BY <1>5, <2>1 DEF Included
  <2>3. PICK i \in DOMAIN chain : t \in ToSet(chain[i].txs)
    BY <2>2 DEF Included
  <2>4. CASE i \in n + 1..Len(chain)
    BY <1>3, <2>3, <2>4, InInvolved DEF left
  <2>5. CASE i \notin n + 1..Len(chain)
    <3>1. i \in DOMAIN chain' /\ chain'[i] = chain[i]
      BY <1>1, <2>3, <2>5
    <3>. QED BY <2>2, <2>3, <3>1 DEF Included
  <2>. QED BY <2>4, <2>5
<1>6. ~Changing
  BY <1>1 DEF Changing
<1>. QED BY <1>1, <1>3, <1>4, <1>5, <1>6, ChainChanges

\* Account by account the state gets to where the chain is.
LEMMA AccountKeepsState ==
  ASSUME SoundInv, StateInv, NEW a \in Account, ChangesAccount(a)
  PROVE  /\ StateInv' /\ coordinator'.block = coordinator.block
         /\ coordinator'.at \in {"applying", "rollingBack", "clearing", "idle"}
<1>0. /\ coordinator \in Coordinators /\ UNCHANGED chain /\ chain \in Seq(Entries)
      /\ balances \in [Account -> Int]
      /\ coordinator.at \in {"applying", "rollingBack"}
  BY DEF StateInv, ChangesAccount, SoundInv, KnownInv
<1>1. /\ Included' = Included
      /\ \A b \in Account : BalanceOf(b)' = BalanceOf(b) /\ BalanceOf(b) \in Int
  <2>1. \A b \in Account : BalanceOn(chain, b) \in Int /\ BalanceOf(b) = BalanceOn(chain, b)
    BY <1>0, BalanceOnInt DEF BalanceOn, BalanceOf
  <2>. QED BY <1>0, <2>1 DEF Included, BalanceOf
<1>2. SetBalance(a) => /\ balances' \in [Account -> Int]
                       /\ balances'[a] = BalanceOf(a)
                       /\ \A b \in Account \ {a} : balances'[b] = balances[b]
  BY <1>0, <1>1 DEF SetBalance
<1>3. NoteIncluded(a) => \A t \in Tx :
        t \in included' <=> IF a \in {t.from, t.to} THEN t \in Included ELSE t \in included
  BY DEF NoteIncluded
<1>4. CASE Opens(a)
  <2>1. /\ a \in coordinator.left /\ coordinator' \in Coordinators
        /\ coordinator'.open = {a} /\ coordinator'.left = coordinator.left
        /\ coordinator'.at = coordinator.at /\ coordinator'.block = coordinator.block
        /\ coordinator.open = {}
    BY <1>0, <1>4 DEF Opens, Coordinators
  <2>2. ~Closes(a)
    BY <2>1 DEF Closes
  <2>3. \/ coordinator.at = "applying" /\ SetBalance(a) /\ UNCHANGED included
        \/ coordinator.at = "rollingBack" /\ NoteIncluded(a) /\ UNCHANGED balances
    BY <2>2 DEF ChangesAccount
  <2>4. balances' \in [Account -> Int]
    BY <1>0, <1>2, <2>3
  <2>5. ASSUME NEW b \in Account, BalanceSet(b)' PROVE (balances[b] = BalanceOf(b))'
    <3>1. \/ b = a /\ coordinator.at = "applying"
          \/ b # a /\ BalanceSet(b)
      BY <2>1, <2>5 DEF BalanceSet
    <3>. QED BY <1>1, <1>2, <2>3, <3>1 DEF StateInv
  <2>6. ASSUME NEW b \in Account, NotesSet(b)', NEW t \in Tx, b \in {t.from, t.to}
        PROVE  (t \in included <=> t \in Included)'
    <3>1. \/ b = a /\ coordinator.at = "rollingBack"
          \/ b # a /\ NotesSet(b)
      BY <2>1, <2>6 DEF NotesSet
    <3>. QED BY <1>1, <1>3, <2>3, <2>6, <3>1 DEF StateInv
  <2>7. coordinator'.left = {} \/ Changing'
    BY <1>0, <2>1 DEF Changing
  <2>8. StateInv'
    BY <2>1, <2>4, <2>5, <2>6, <2>7 DEF StateInv
  <2>. QED BY <1>0, <2>1, <2>8
<1>5. CASE Closes(a)
  <2>. DEFINE c == [coordinator EXCEPT !.open = {}, !.left = coordinator.left \ {a}]
  <2>1. a \in coordinator.open /\ coordinator' = Changed(c)
    BY <1>5 DEF Closes
  <2>2. /\ c \in Coordinators /\ c.at = coordinator.at /\ c.block = coordinator.block
        /\ c.left = coordinator.left \ {a} /\ c.open = {}
    BY <1>0 DEF Coordinators
  <2>. HIDE DEF c
  <2>3. /\ coordinator' \in Coordinators /\ coordinator'.block = coordinator.block
        /\ coordinator'.left = coordinator.left \ {a} /\ coordinator'.open = {}
        /\ coordinator'.left = {} \/ Changing'
        /\ coordinator'.at \in {"applying", "rollingBack", "clearing", "idle"}
    BY <1>0, <2>1, <2>2, ChangedIs DEF Changing
  <2>4. ~Opens(a)
    BY <2>1 DEF Opens
  <2>5. \/ coordinator.at = "applying" /\ NoteIncluded(a) /\ UNCHANGED balances
        \/ coordinator.at = "rollingBack" /\ SetBalance(a) /\ UNCHANGED included
    BY <2>4 DEF ChangesAccount
  <2>6. balances' \in [Account -> Int]
    BY <1>0, <1>2, <2>5
  <2>7. ASSUME NEW b \in Account, BalanceSet(b)' PROVE (balances[b] = BalanceOf(b))'
    <3>1. b \notin coordinator.left \/ b = a
      BY <2>3, <2>7 DEF BalanceSet
    <3>2. b = a /\ coordinator.at = "applying" => BalanceSet(b)
      BY <2>1 DEF BalanceSet
    <3>3. b \notin coordinator.left => BalanceSet(b)
      BY DEF BalanceSet
    <3>. QED BY <1>1, <1>2, <2>5, <3>1, <3>2, <3>3 DEF StateInv
  <2>8. ASSUME NEW b \in Account, NotesSet(b)', NEW t \in Tx, b \in {t.from, t.to}
        PROVE  (t \in included <=> t \in Included)'
    <3>1. b \notin coordinator.left \/ b = a
      BY <2>3, <2>8 DEF NotesSet
    <3>2. b = a /\ coordinator.at = "rollingBack" => NotesSet(b)
      BY <2>1 DEF NotesSet
    <3>3. b \notin coordinator.left => NotesSet(b)
      BY DEF NotesSet
    <3>. QED BY <1>1, <1>3, <2>5, <2>8, <3>1, <3>2, <3>3 DEF StateInv
  <2>9. StateInv'
    BY <2>3, <2>6, <2>7, <2>8 DEF StateInv
  <2>. QED BY <2>3, <2>9
<1>. QED BY <1>4, <1>5 DEF ChangesAccount

LEMMA MinerKeeps ==
  ASSUME SoundInv, RoomInv, MinerStep
  PROVE  SoundInv'
<1>0. /\ transactions \subseteq Tx /\ submitting \subseteq Tx /\ chain \in Seq(Entries)
      /\ miner \in Miners /\ generated \in Seq(Messages)
  BY DEF SoundInv, KnownInv
<1>1. Kind(miner) /\ "packing" \in Stages /\ IdleMiner \in Miners
  BY <1>0 DEF Kind, Stages, IdleMiner, Miners
<1>2. CASE ReadsLastBlock
  <2>1. miner' \in Miners
    BY <1>0, <1>2 DEF ReadsLastBlock, Miners, Stages
  <2>. QED BY <1>0, <1>2, <2>1, KnownKeeps DEF ReadsLastBlock
<1>3. CASE MinerClears
  <2>1. /\ UNCHANGED <<chain, submitting, generated>>
        /\ \/ ReadsTime(miner, miner') /\ UNCHANGED transactions
           \/ Clears(miner, miner', "packing")
    BY <1>3 DEF MinerClears
  <2>2. transactions' \subseteq Tx
    BY <1>0, <2>1, ClearingTakesAway
  <2>3. SameCleaner(miner, miner')
    <3>1. LastBlockTs \in Nat
      BY <1>0, TimeIs DEF LastBlockTs
    <3>. QED BY <1>0, <1>1, <2>1, <3>1, ReadsTimeIs, ClearsIs
  <2>4. miner' \in Miners
    BY <1>0, <2>3 DEF SameCleaner
  <2>. QED BY <1>0, <2>1, <2>2, <2>4, KnownKeeps
<1>4. CASE PackUnconfirmed
  <2>1. PICK dearest \in ByFee(transactions) :
          generated' = Append(generated,
            [time |-> TimeOf(miner.on) + 1, txs |-> Packed(dearest), on |-> miner.on])
    BY <1>4 DEF PackUnconfirmed
  <2>2. miner.on \in Seq(Entries)
    BY <1>0 DEF Miners
  <2>3. Packed(dearest) \in Seq(Tx) /\ TimeOf(miner.on) + 1 \in Nat
    BY <1>0, <2>2, PackedIs, TimeIs DEF RoomInv
  <2>4. generated' \in Seq(Messages)
    BY <1>0, <2>1, <2>2, <2>3 DEF Messages
  <2>5. miner' \in Miners /\ UNCHANGED <<transactions, chain, submitting>>
    BY <1>1, <1>4 DEF PackUnconfirmed
  <2>. QED BY <1>0, <2>4, <2>5, KnownKeeps
<1>5. CASE NoBlockYet \/ MinerThrows
  <2>1. miner' \in Miners /\ UNCHANGED <<transactions, chain, submitting, generated>>
    BY <1>1, <1>5 DEF NoBlockYet, MinerThrows
  <2>. QED BY <1>0, <2>1, KnownKeeps
<1>. QED BY <1>2, <1>3, <1>4, <1>5 DEF MinerStep

LEMMA CoordinatorKeeps ==
  ASSUME SoundInv, StateInv, CoordinatorStep
  PROVE  SoundInv'
<1>0. /\ transactions \subseteq Tx /\ submitting \subseteq Tx /\ chain \in Seq(Entries)
      /\ miner \in Miners /\ generated \in Seq(Messages) /\ SoundChain(chain)
  BY DEF SoundInv, KnownInv
<1>1. ASSUME coordinator.at = "idle",
             NEW txs \in Seq(Tx), NEW time \in Nat, IsValidBlock(txs), Appends(time, txs),
             UNCHANGED <<transactions, submitting, miner>>, generated' \in Seq(Messages)
      PROVE  SoundInv'
  <2>1. chain' = Append(chain, [time |-> time, txs |-> txs])
    BY <1>1 DEF Appends
  <2>2. chain' \in Seq(Entries) /\ SoundChain(chain')
    BY <1>1, <2>1, ValidBlockKeeps DEF Changing
  <2>. QED BY <1>1, <2>2, ChainKeeps
<1>2. CASE AddOwnBlock
  <2>. DEFINE b == Head(generated)
  <2>1. b \in Messages /\ generated' \in Seq(Messages)
    BY <1>0, <1>2 DEF AddOwnBlock
  <2>2. UNCHANGED <<transactions, submitting, miner>> /\ coordinator.at = "idle"
    BY <1>2 DEF AddOwnBlock
  <2>3. \/ IsValidBlock(b.txs) /\ Appends(b.time, b.txs)
        \/ UNCHANGED chain
    BY <1>2 DEF AddOwnBlock
  <2>4. b.txs \in Seq(Tx) /\ b.time \in Nat
    BY <2>1 DEF Messages
  <2>. HIDE DEF b
  <2>5. CASE IsValidBlock(b.txs) /\ Appends(b.time, b.txs)
    BY <1>1, <2>1, <2>2, <2>4, <2>5
  <2>6. CASE UNCHANGED chain
    BY <1>0, <2>1, <2>2, <2>6, ChainKeeps
  <2>. QED BY <2>3, <2>5, <2>6
<1>3. CASE CoordinatorClears
  <2>1. /\ UNCHANGED <<chain, submitting, miner, generated>>
        /\ transactions' \subseteq transactions
    BY <1>3, ClearingTakesAway DEF CoordinatorClears
  <2>. QED BY <1>0, <2>1, KnownKeeps
<1>4. ASSUME NEW n \in 0..MaxTransactionsPerBlock, NEW txs \in [1..n -> Tx],
             AddBlockOfPeer(txs)
      PROVE  SoundInv'
  <2>1. txs \in Seq(Tx)
    OBVIOUS
  <2>2. LastBlockTs + 1 \in Nat
    BY <1>0, TimeIs DEF LastBlockTs
  <2>3. /\ coordinator.at = "idle" /\ IsValidBlock(txs) /\ Appends(LastBlockTs + 1, txs)
        /\ UNCHANGED <<transactions, submitting, miner, generated>>
    BY <1>4 DEF AddBlockOfPeer
  <2>. QED BY <1>0, <1>1, <2>1, <2>2, <2>3
<1>5. ASSUME NEW n \in 0..MaxBlocks, RemoveAfter(n) PROVE SoundInv'
  <2>1. /\ n \in 0..Len(chain) /\ chain' = SubSeq(chain, 1, n)
        /\ UNCHANGED <<transactions, submitting, miner, generated>>
    BY <1>0, <1>5 DEF RemoveAfter
  <2>2. chain' \in Seq(Entries) /\ SoundChain(chain')
    BY <1>0, <2>1, CutKeeps
  <2>. QED BY <1>0, <2>1, <2>2, ChainKeeps
<1>6. CASE \E a \in Account : ChangesAccount(a)
  BY <1>0, <1>6, KnownKeeps DEF ChangesAccount
<1>. QED BY <1>2, <1>3, <1>4, <1>5, <1>6 DEF CoordinatorStep

LEMMA NextKeepsSound ==
  ASSUME SoundInv, StateInv, RoomInv, [Next]_vars
  PROVE  SoundInv'
<1>0. /\ transactions \subseteq Tx /\ submitting \subseteq Tx
      /\ miner \in Miners /\ generated \in Seq(Messages)
  BY DEF SoundInv, KnownInv
<1>1. ASSUME NEW t \in Tx, Accepts(t) PROVE SoundInv'
  BY <1>0, <1>1, KnownKeeps DEF Accepts
<1>2. ASSUME NEW t \in Tx, PutIfAbsent(t) PROVE SoundInv'
  BY <1>0, <1>2, KnownKeeps DEF PutIfAbsent
<1>3. CASE MinerStep
  BY <1>3, MinerKeeps
<1>4. CASE CoordinatorStep
  BY <1>4, CoordinatorKeeps
<1>5. CASE UNCHANGED vars
  BY <1>0, <1>5, KnownKeeps DEF vars
<1>. QED BY <1>1, <1>2, <1>3, <1>4, <1>5 DEF Next

\* Nobody but the Coordinator changes the state, or has part in a change.
LEMMA OthersKeepState ==
  ASSUME StateInv, UNCHANGED <<chain, balances, included, coordinator>>
  PROVE  StateInv'
BY DEF StateInv, BalanceSet, NotesSet, Changing, BalanceOf, Included

LEMMA StateInit == Init => StateInv
<1>1. SUFFICES ASSUME Init PROVE StateInv
  OBVIOUS
<1>2. /\ coordinator = IdleCoordinator /\ balances = Start /\ included = {} /\ chain = <<>>
  BY <1>1 DEF Init
<1>3. coordinator \in Coordinators /\ coordinator.left = {}
  BY <1>2 DEF IdleCoordinator, Coordinators, Stages
<1>4. ASSUME NEW a \in Account PROVE balances[a] = BalanceOf(a) /\ Start[a] \in Nat
  <2>. DEFINE s == [i \in DOMAIN <<>> |-> NetEffect(<<>>[i].txs, a)]
  <2>1. Len(s) = 0
    OBVIOUS
  <2>. HIDE DEF s
  <2>2. Total(s) = 0
    BY <2>1, TotalEmpty
  <2>. QED BY <1>2, <2>2, UnconfirmedPoolAssumption DEF BalanceOf, s
<1>5. Included = {}
  BY <1>2 DEF Included
<1>6. balances \in [Account -> Int]
  BY <1>2, UnconfirmedPoolAssumption
<1>. QED BY <1>2, <1>3, <1>4, <1>5, <1>6 DEF StateInv

\* The Coordinator changes the state until it is that of the chain; then it clears.
LEMMA CoordinatorKeepsState ==
  ASSUME SoundInv, StateInv, CoordinatorStep
  PROVE  StateInv'
<1>0. /\ transactions \subseteq Tx /\ chain \in Seq(Entries) /\ generated \in Seq(Messages)
      /\ coordinator \in Coordinators
  BY DEF SoundInv, KnownInv, StateInv
<1>1. CASE AddOwnBlock
  <2>. DEFINE b == Head(generated)
  <2>1. b \in Messages /\ UNCHANGED <<balances, included>> /\ ~Changing
    BY <1>0, <1>1 DEF AddOwnBlock, Changing, state
  <2>2. Appends(b.time, b.txs) \/ UNCHANGED <<chain, coordinator>>
    BY <1>1 DEF AddOwnBlock
  <2>. HIDE DEF b
  <2>3. b.txs \in Seq(Tx) /\ b.time \in Nat
    BY <2>1 DEF Messages
  <2>. QED BY <2>1, <2>2, <2>3, AppendKeepsState, OthersKeepState
<1>2. CASE CoordinatorClears
  <2>1. UNCHANGED <<chain, balances, included>>
    BY <1>2 DEF CoordinatorClears, state
  <2>2. coordinator' \in Coordinators /\ coordinator'.left = coordinator.left /\ ~Changing
    <3>. DEFINE c == [coordinator EXCEPT !.block = {}]
    <3>1. CASE ReadsTime(c, coordinator')
      <4>1. c \in Coordinators /\ c.left = coordinator.left /\ c.at = coordinator.at
        BY <1>0 DEF Coordinators
      <4>2. c.at = "clearing"
        BY <3>1 DEF ReadsTime
      <4>. HIDE DEF c
      <4>3. LastBlockTs \in Nat
        BY <1>0, TimeIs DEF LastBlockTs
      <4>. QED BY <3>1, <4>1, <4>2, <4>3, ReadsTimeIs DEF SameCleaner, Kind, Changing
    <3>2. CASE Clears(coordinator, coordinator', "idle")
      <4>1. coordinator.at \in {"reading", "validating", "dropping", "removing"}
        BY <3>2 DEF Clears, ReadsPool, FindsInvalid, Removes
      <4>2. SameCleaner(coordinator, coordinator')
        BY <1>0, <3>2, ClearsIs DEF Kind, Stages
      <4>. QED BY <1>0, <4>1, <4>2 DEF SameCleaner, Changing
    <3>. QED BY <1>2, <3>1, <3>2 DEF CoordinatorClears
  <2>3. coordinator.left = {} /\ balances \in [Account -> Int]
    BY <2>2 DEF StateInv
  <2>4. /\ \A a \in Account : BalanceOf(a)' = BalanceOf(a)
        /\ Included' = Included
    BY <2>1 DEF BalanceOf, Included
  <2>. QED BY <2>1, <2>2, <2>3, <2>4, StateSettled DEF StateInv
<1>3. ASSUME NEW n \in 0..MaxTransactionsPerBlock, NEW txs \in [1..n -> Tx],
             AddBlockOfPeer(txs)
      PROVE  StateInv'
  <2>1. txs \in Seq(Tx)
    OBVIOUS
  <2>2. LastBlockTs + 1 \in Nat
    BY <1>0, TimeIs DEF LastBlockTs
  <2>3. Appends(LastBlockTs + 1, txs) /\ UNCHANGED <<balances, included>> /\ ~Changing
    BY <1>3 DEF AddBlockOfPeer, Changing, state
  <2>. QED BY <2>1, <2>2, <2>3, AppendKeepsState
<1>4. ASSUME NEW n \in 0..MaxBlocks, RemoveAfter(n) PROVE StateInv'
  BY <1>4, RemovalKeepsState
<1>5. CASE \E a \in Account : ChangesAccount(a)
  BY <1>5, AccountKeepsState
<1>. QED BY <1>1, <1>2, <1>3, <1>4, <1>5 DEF CoordinatorStep

LEMMA NextKeepsState ==
  ASSUME SoundInv, StateInv, [Next]_vars
  PROVE  StateInv'
<1>1. CASE UNCHANGED vars
  BY <1>1, OthersKeepState DEF vars, state
<1>2. ASSUME NEW t \in Tx, Accepts(t) \/ PutIfAbsent(t) PROVE StateInv'
  BY <1>2, OthersKeepState DEF Accepts, PutIfAbsent, state
<1>3. CASE MinerStep
  <2>1. UNCHANGED <<chain, balances, included, coordinator>>
    BY <1>3 DEF MinerStep, ReadsLastBlock, NoBlockYet, MinerClears, MinerThrows,
       PackUnconfirmed, state
  <2>. QED BY <2>1, OthersKeepState
<1>. QED BY <1>1, <1>2, <1>3, CoordinatorKeepsState DEF Next

\* No two blocks of the chain hold the same transaction and no account is overdrawn, however
\* the pool, the blocks that were packed from it and the removals of blocks come
\* together (Coordinator.scala:133-144, SimpleTransactionModule.scala:150-155).
THEOREM ChainStaysSound == Spec => []ChainIsSound
<1>1. SoundInv => ChainIsSound
  <2>1. SUFFICES ASSUME SoundInv PROVE ChainIsSound
    OBVIOUS
  <2>2. /\ chain \in Seq(Entries)
        /\ \A i, j \in DOMAIN chain : ToSet(chain[i].txs) \cap ToSet(chain[j].txs) # {} => i = j
        /\ \A n \in 0..Len(chain), a \in Account : BalanceOn(SubSeq(chain, 1, n), a) >= 0
    BY <2>1, Zenon DEF SoundInv, KnownInv, SoundChain
  <2>3. ASSUME NEW a \in Account PROVE BalanceOf(a) >= 0
    <3>1. Len(chain) \in 0..Len(chain) /\ SubSeq(chain, 1, Len(chain)) = chain
      BY <2>2
    <3>2. BalanceOn(SubSeq(chain, 1, Len(chain)), a) >= 0
      BY <2>2, <3>1, Zenon
    <3>. QED BY <3>1, <3>2 DEF BalanceOn, BalanceOf
  <2>. QED BY <2>2, <2>3, Zenon DEF ChainIsSound
<1>2. RoomInv /\ SoundInv /\ StateInv /\ [Next]_vars => RoomInv' /\ SoundInv' /\ StateInv'
  BY NextKeepsRoom, NextKeepsSound, NextKeepsState
<1>. QED
  BY <1>1, <1>2, InitHasRoom, SoundInit, StateInit, PTL DEF Spec
-----------------------------------------------------------------------------
(* Who clears the pool *)

\* The account cannot pay for all it sends, or the transaction is in the chain.
NotPayable(t) == t \in Included \/ Spent(t.from, Tx \ Included) > BalanceOf(t.from)

\* What a cleaner knows of the chain is so, and what it is about to remove is to go.
CleanerInv(p) ==
  /\ p.at = "reading" => p.now = LastBlockTs
  /\ p.at = "dropping" => \A t \in p.gone : TooOld(t)
  /\ p.at \in {"dropping", "validating"} => p.young \subseteq p.pool
  /\ p.at = "removing" => \A t \in p.gone : NotPayable(t)

\* That holds of the Coordinator, which alone changes the chain, and of a miner
\* that is not overlapped.
CleanersInv ==
  /\ coordinator.block \subseteq Included
  /\ CleanerInv(coordinator)
  /\ overlapped \/ CleanerInv(miner)
  /\ overlapped \/ ~ClearingPool(miner) \/ ~Changing

\* What TLC adds up for Spent is a sum.
LEMMA SpentAddedUp ==
  ASSUME NEW D \in SUBSET Tx, NEW a
  PROVE  Spent(a, D) = SumOf([t \in D |-> Cost(t, a)], D)
<1>. DEFINE f == [t \in D |-> Cost(t, a)]
            Step(g, S) == IF S = {} THEN 0 ELSE Cost(Pick(S), a) + g[S \ {Pick(S)}]
            Iter(g) == g = [S \in SUBSET D |-> Step(g, S)]
            F == CHOOSE g : Iter(g)
<1>0. IsFiniteSet(D)
  BY UnconfirmedPoolAssumption, FS_Subset
<1>1. Spent(a, D) = F[D]
  BY DEF Spent, MapThenSumSet, MapThenFoldSet, Pick, Cost
<1>2. ASSUME NEW g PROVE Iter(g) <=> SumsOver(g, f, D)
  <2>1. \A S \in SUBSET D :
          Step(g, S) = IF S = {} THEN 0 ELSE f[Pick(S)] + g[S \ {Pick(S)}]
    BY <1>0, PickIs
  <2>. HIDE DEF Step, f
  <2>. QED BY <2>1 DEF SumsOver
<1>3. f \in [D -> Int]
  BY UnconfirmedPoolAssumption DEF Cost
<1>. HIDE DEF Iter, f
<1>4. PICK g : SumsOver(g, f, D) /\ SumOf(f, D) = g[D]
  BY <1>0, <1>3, SumIs
<1>5. SumsOver(F, f, D)
  <2>1. Iter(F)
    BY <1>2, <1>4
  <2>. QED BY <1>2, <2>1
<1>6. F[D] = g[D]
  BY <1>0, <1>4, <1>5, SumsOverUnique
<1>. QED BY <1>1, <1>4, <1>6 DEF f

\* all() in some order: nothing is left out and nothing comes twice.
LEMMA AllInOrder ==
  ASSUME NEW S \in SUBSET Tx, NEW q \in SetToSeqs(S)
  PROVE  q \in Seq(Tx) /\ Distinct(q) /\ ToSet(q) = S
<1>. DEFINE n == Cardinality(S)
<1>1. IsFiniteSet(S) /\ n \in Nat
  BY UnconfirmedPoolAssumption, FS_Subset, FS_CardinalityType
<1>2. q \in [1..n -> S] /\ \A i, j \in 1..n : i # j => q[i] # q[j]
  BY DEF SetToSeqs
<1>. HIDE DEF n
<1>3. q \in Injection(1..n, S)
  BY <1>2 DEF Injection, IsInjective
<1>4. Cardinality(1..n) = n
  BY <1>1, FS_Interval
<1>5. q \in Surjection(1..n, S)
  BY <1>1, <1>3, <1>4, FS_Injection DEF n
<1>6. ToSet(q) = S
  BY <1>2, <1>5 DEF ToSet, Surjection
<1>7. q \in Seq(Tx) /\ DOMAIN q = 1..n
  BY <1>1, <1>2
<1>8. Distinct(q)
  BY <1>2, <1>7 DEF Distinct
<1>. QED BY <1>6, <1>7, <1>8

\* Whom validate does not let through cannot pay, if the state is that of the chain.
LEMMA InvalidCannotPay ==
  ASSUME SoundInv, StateInv, ~Changing, NEW S \in SUBSET Tx, NEW txs \in SetToSeqs(S),
         NEW t \in S, t \notin ValidOf(txs)
  PROVE  NotPayable(t)
<1>. DEFINE D == Tx \ Included
<1>1. txs \in Seq(Tx) /\ Distinct(txs) /\ ToSet(txs) = S
  BY AllInOrder
<1>2. SUFFICES ASSUME t \notin Included, ~ (Spent(t.from, D) > BalanceOf(t.from))
               PROVE  FALSE
  BY DEF NotPayable
<1>3. t.from \in Account /\ BalanceOf(t.from) \in Int /\ balances[t.from] = BalanceOf(t.from)
  <2>1. t.from \in Account
    BY UnconfirmedPoolAssumption
  <2>2. BalanceOf(t.from) = BalanceOn(chain, t.from)
    BY DEF BalanceOf, BalanceOn
  <2>3. chain \in Seq(Entries)
    BY DEF SoundInv, KnownInv
  <2>. QED BY <2>1, <2>2, <2>3, BalanceOnInt, StateSettled
<1>4. D \in SUBSET Tx /\ IsFiniteSet(D)
  BY UnconfirmedPoolAssumption, FS_Subset
<1>5. ToSet(txs) \cap (ToSet(txs) \ included) \subseteq D
      /\ t \in ToSet(txs) \cap (ToSet(txs) \ included)
  BY <1>1, <1>2, StateSettled
<1>. HIDE DEF D
<1>6. Spent(t.from, D) = SumOf([x \in D |-> Cost(x, t.from)], D)
  BY <1>4, SpentAddedUp
<1>7. [x \in D |-> Cost(x, t.from)] \in [D -> Int]
  BY <1>4, UnconfirmedPoolAssumption DEF Cost
<1>8. SumOf([x \in D |-> Cost(x, t.from)], D) \in Int
  BY <1>4, <1>7, SumInt
<1>9. SumOf([x \in D |-> Cost(x, t.from)], D) <= balances[t.from]
  BY <1>2, <1>3, <1>6, <1>8
<1>10. balances[t.from] \in Int
  BY <1>3
<1>11. t \in ToSet(ValidateAll(txs, balances, ToSet(txs) \ included))
  BY <1>1, <1>4, <1>5, <1>9, <1>10, TxAmounts, ValidateSpares
<1>. QED BY <1>11 DEF ValidOf, Validate

\* A step of clearing while the chain and the state are at rest.
LEMMA CleanerKeeps ==
  ASSUME SoundInv, StateInv, ~Changing, NEW p, Kind(p), CleanerInv(p),
         NEW after \in {"packing", "idle"}, NEW next, Clears(p, next, after), UNCHANGED chain
  PROVE  /\ CleanerInv(next)
         /\ \A t \in transactions \ transactions' : NotPayable(t) \/ TooOld(t)
<1>0. /\ transactions \subseteq Tx /\ after \in Stages /\ p.pool \subseteq Tx
      /\ LastBlockTs \in Nat
  BY TimeIs DEF SoundInv, KnownInv, Stages, Kind, Miners, Coordinators, LastBlockTs
<1>1. CASE ReadsPool(p, next) /\ UNCHANGED transactions
  <2>1. /\ p.at = "reading" /\ next.at \in {"dropping", "validating"}
        /\ next.young \subseteq next.pool
        /\ next.gone = {t \in transactions : ~(p.now - t.time <= MaxTimeForUnconfirmed)}
    BY <1>0, <1>1, ReadsPoolIs
  <2>2. p.now = LastBlockTs
    BY <2>1 DEF CleanerInv
  <2>3. next.gone = {t \in transactions : ~(LastBlockTs - t.time <= MaxTimeForUnconfirmed)}
    BY <2>1, <2>2
  <2>4. \A t \in next.gone : TooOld(t)
    <3>1. \A t \in next.gone : t.time \in Int /\ ~(LastBlockTs - t.time <= MaxTimeForUnconfirmed)
      BY <1>0, <2>3, UnconfirmedPoolAssumption
    <3>2. MaxTimeForUnconfirmed \in Nat
      BY UnconfirmedPoolAssumption
    <3>. QED BY <1>0, <3>1, <3>2 DEF TooOld
  <2>. QED BY <1>1, <2>1, <2>4 DEF CleanerInv
<1>2. CASE FindsInvalid(p, next, after) /\ UNCHANGED transactions
  <2>1. PICK txs \in SetToSeqs(p.pool) :
          /\ p.at = "validating" /\ next.at \in {"removing", after}
          /\ next.gone = p.young \ ValidOf(txs)
    BY <1>0, <1>2, FindsInvalidIs
  <2>2. p.young \subseteq p.pool
    BY <2>1 DEF CleanerInv
  <2>3. \A t \in next.gone : NotPayable(t)
    BY <1>0, <2>1, <2>2, InvalidCannotPay
  <2>. QED BY <1>2, <2>1, <2>3 DEF CleanerInv
<1>3. CASE Removes(p, next, after)
  <2>1. /\ p.at \in {"dropping", "removing"}
        /\ next.at \in {p.at, IF p.at = "dropping" THEN "validating" ELSE after}
        /\ next.gone \subseteq p.gone /\ next.pool = p.pool /\ next.young = p.young
    BY <1>0, <1>3, RemovesIs
  <2>2. PICK t \in p.gone : transactions' = transactions \ {t}
    BY <1>0, <1>3, RemovesIs
  <2>3. NotPayable(t) \/ TooOld(t)
    BY <2>1 DEF CleanerInv
  <2>. QED BY <2>1, <2>2, <2>3 DEF CleanerInv
<1>. QED BY <1>1, <1>2, <1>3 DEF Clears

\* What is said of a cleaner is said of the chain.
LEMMA SameChain ==
  ASSUME UNCHANGED chain
  PROVE  /\ Included' = Included /\ LastBlockTs' = LastBlockTs
         /\ \A t : TooOld(t)' = TooOld(t) /\ NotPayable(t)' = NotPayable(t)
BY DEF Included, LastBlockTs, TooOld, NotPayable, BalanceOf

LEMMA CleanersInit == Init => CleanersInv
BY DEF Init, IdleMiner, IdleCoordinator, CleanersInv, CleanerInv, Changing

\* Who may lose a transaction of the pool in this step.
Kept ==
  \A t \in transactions \ transactions' :
    \/ t \in Included \/ TooOld(t)
    \/ Spent(t.from, Tx \ Included) > BalanceOf(t.from)
    \/ overlapped /\ MinerStep

LEMMA MinerKeepsCleaners ==
  ASSUME SoundInv, StateInv, CleanersInv, MinerStep
  PROVE  CleanersInv' /\ Kept
<1>0. UNCHANGED <<chain, coordinator>> /\ Kind(miner) /\ LastBlockTs \in Nat
  BY TimeIs DEF MinerStep, ReadsLastBlock, NoBlockYet, MinerClears, MinerThrows,
     PackUnconfirmed, SoundInv, KnownInv, Kind, LastBlockTs
<1>1. /\ coordinator'.block \subseteq Included' /\ CleanerInv(coordinator)'
      /\ Changing' = Changing
  BY <1>0, SameChain DEF CleanersInv, CleanerInv, Changing
<1>2. SUFFICES /\ overlapped' \/ CleanerInv(miner)'
               /\ overlapped' \/ ~ClearingPool(miner') \/ ~Changing
               /\ Kept
  BY <1>1 DEF CleanersInv, ClearingPool
<1>3. ASSUME miner'.at \in {"idle", "clearing", "packing"}
      PROVE  ~ClearingPool(miner') /\ CleanerInv(miner)'
  BY <1>3 DEF ClearingPool, CleanerInv
<1>4. CASE ReadsLastBlock \/ NoBlockYet \/ MinerThrows \/ PackUnconfirmed
  <2>1. miner'.at \in {"idle", "clearing"} /\ UNCHANGED transactions
    <3>1. CASE ReadsLastBlock
      <4>1. miner \in Miners /\ miner' = [miner EXCEPT !.at = "clearing", !.on = chain]
        BY <3>1 DEF ReadsLastBlock, SoundInv, KnownInv
      <4>. QED BY <3>1, <4>1 DEF ReadsLastBlock, Miners
    <3>2. CASE NoBlockYet \/ MinerThrows \/ PackUnconfirmed
      BY <3>2 DEF NoBlockYet, MinerThrows, PackUnconfirmed, IdleMiner
    <3>. QED BY <1>4, <3>1, <3>2
  <2>. QED BY <1>3, <2>1 DEF Kept
<1>5. CASE /\ ReadsTime(miner, miner') /\ UNCHANGED transactions
           /\ overlapped' = Changing
  <2>1. miner'.at = "reading" /\ miner'.now = LastBlockTs
    BY <1>0, <1>5, ReadsTimeIs
  <2>2. CleanerInv(miner)'
    BY <1>0, <2>1, SameChain DEF CleanerInv
  <2>. QED BY <1>5, <2>2 DEF Kept
<1>6. CASE /\ Clears(miner, miner', "packing")
           /\ overlapped' = (overlapped /\ miner'.at # "packing")
  <2>1. CASE overlapped
    <3>1. overlapped' \/ miner'.at = "packing"
      BY <1>6, <2>1
    <3>2. Kept
      BY <2>1 DEF Kept
    <3>. QED BY <1>3, <3>1, <3>2
  <2>2. CASE ~overlapped
    <3>1. CleanerInv(miner) /\ ClearingPool(miner)
      BY <1>6, <2>2 DEF CleanersInv, ClearingPool, Clears, ReadsPool, FindsInvalid, Removes
    <3>2. ~Changing
      BY <2>2, <3>1 DEF CleanersInv
    <3>3. CleanerInv(miner') /\ \A t \in transactions \ transactions' : NotPayable(t) \/ TooOld(t)
      BY <1>0, <1>6, <3>1, <3>2, CleanerKeeps
    <3>4. CleanerInv(miner)'
      BY <1>0, <3>3, SameChain DEF CleanerInv
    <3>. QED BY <3>2, <3>3, <3>4 DEF Kept, NotPayable
  <2>. QED BY <2>1, <2>2
<1>. QED BY <1>4, <1>5, <1>6 DEF MinerStep, MinerClears

LEMMA CoordinatorKeepsCleaners ==
  ASSUME SoundInv, StateInv, CleanersInv, CoordinatorStep
  PROVE  CleanersInv' /\ Kept
<1>0. UNCHANGED miner /\ Kind(coordinator) /\ LastBlockTs \in Nat /\ generated \in Seq(Messages)
  BY TimeIs DEF CoordinatorStep, AddOwnBlock, CoordinatorClears, AddBlockOfPeer, RemoveAfter,
     ChangesAccount, SoundInv, KnownInv, StateInv, Kind, LastBlockTs
<1>1. ASSUME overlapped' = ClearingPool(miner), coordinator'.block \subseteq Included',
             coordinator'.at \in {"applying", "rollingBack", "clearing", "idle"},
             UNCHANGED transactions
      PROVE  CleanersInv' /\ Kept
  <2>1. CleanerInv(coordinator)'
    BY <1>1 DEF CleanerInv
  <2>2. ~overlapped' => CleanerInv(miner)' /\ ~ClearingPool(miner)'
    BY <1>0, <1>1 DEF CleanerInv, ClearingPool
  <2>. QED BY <1>1, <2>1, <2>2 DEF CleanersInv, Kept
<1>2. ASSUME NEW txs \in Seq(Tx), NEW time \in Nat, Appends(time, txs), UNCHANGED transactions,
             UNCHANGED <<balances, included>>, coordinator.at = "idle"
      PROVE  CleanersInv' /\ Kept
  <2>1. /\ coordinator'.block \subseteq Included'
        /\ coordinator'.at \in {"applying", "clearing"}
    BY <1>2, AppendKeepsState DEF Changing
  <2>2. overlapped' = ClearingPool(miner)
    BY <1>2 DEF Appends
  <2>. QED BY <1>1, <1>2, <2>1, <2>2
<1>3. CASE AddOwnBlock
  <2>. DEFINE b == Head(generated)
  <2>1. /\ b \in Messages /\ UNCHANGED <<balances, included, transactions>>
        /\ coordinator.at = "idle"
    BY <1>0, <1>3 DEF AddOwnBlock, state
  <2>2. Appends(b.time, b.txs) \/ UNCHANGED <<chain, coordinator, overlapped>>
    BY <1>3 DEF AddOwnBlock
  <2>. HIDE DEF b
  <2>3. b.txs \in Seq(Tx) /\ b.time \in Nat
    BY <2>1 DEF Messages
  <2>4. CASE Appends(b.time, b.txs)
    BY <1>2, <2>1, <2>3, <2>4
  <2>5. CASE UNCHANGED <<chain, coordinator, overlapped>>
    BY <1>0, <2>1, <2>5, SameChain DEF CleanersInv, CleanerInv, Changing, ClearingPool, Kept
  <2>. QED BY <2>2, <2>4, <2>5
<1>4. ASSUME NEW n \in 0..MaxTransactionsPerBlock, NEW txs \in [1..n -> Tx],
             AddBlockOfPeer(txs)
      PROVE  CleanersInv' /\ Kept
  <2>1. txs \in Seq(Tx) /\ LastBlockTs + 1 \in Nat
    BY <1>0
  <2>2. /\ Appends(LastBlockTs + 1, txs) /\ UNCHANGED <<balances, included, transactions>>
        /\ coordinator.at = "idle"
    BY <1>4 DEF AddBlockOfPeer, state
  <2>. QED BY <1>2, <2>1, <2>2
<1>5. ASSUME NEW n \in 0..MaxBlocks, RemoveAfter(n) PROVE CleanersInv' /\ Kept
  <2>1. coordinator'.block = {} /\ coordinator'.at \in {"rollingBack", "clearing", "idle"}
    BY <1>5, RemovalKeepsState
  <2>2. overlapped' = ClearingPool(miner) /\ UNCHANGED transactions
    BY <1>5 DEF RemoveAfter
  <2>. QED BY <1>1, <2>1, <2>2
<1>6. ASSUME NEW a \in Account, ChangesAccount(a) PROVE CleanersInv' /\ Kept
  <2>1. /\ coordinator'.block = coordinator.block
        /\ coordinator'.at \in {"applying", "rollingBack", "clearing", "idle"}
    BY <1>6, AccountKeepsState
  <2>2. UNCHANGED <<chain, transactions, overlapped>> /\ Changing
    BY <1>6 DEF ChangesAccount, Changing
  <2>3. CleanerInv(coordinator)'
    BY <2>1 DEF CleanerInv
  <2>4. overlapped \/ (CleanerInv(miner)' /\ ~ClearingPool(miner)')
    BY <1>0, <2>2, SameChain DEF CleanersInv, CleanerInv, ClearingPool
  <2>. QED BY <2>1, <2>2, <2>3, <2>4, SameChain DEF CleanersInv, Kept
<1>7. CASE CoordinatorClears
  <2>1. UNCHANGED <<chain, overlapped>>
    BY <1>7 DEF CoordinatorClears
  <2>2. overlapped \/ CleanerInv(miner)'
    BY <1>0, <2>1, SameChain DEF CleanersInv, CleanerInv
  <2>. DEFINE c == [coordinator EXCEPT !.block = {}]
  <2>3. CASE ReadsTime(c, coordinator') /\ transactions' = transactions \ coordinator.block
    <3>1. c \in Coordinators /\ c.block = {}
      BY <1>0, OneKind DEF StateInv, Coordinators
    <3>2. Kind(c)
      BY <3>1 DEF Kind
    <3>. HIDE DEF c
    <3>3. /\ coordinator'.at = "reading" /\ coordinator'.now = LastBlockTs
          /\ coordinator'.block = {}
      BY <1>0, <2>3, <3>1, <3>2, ReadsTimeIs DEF SameCleaner
    <3>4. CleanerInv(coordinator)' /\ ~Changing'
      BY <2>1, <3>3, SameChain DEF CleanerInv, Changing
    <3>5. Kept
      BY <2>3 DEF Kept, CleanersInv
    <3>. QED BY <2>1, <2>2, <3>3, <3>4, <3>5 DEF CleanersInv
  <2>4. CASE Clears(coordinator, coordinator', "idle")
    <3>1. coordinator.at \in {"reading", "validating", "dropping", "removing"}
      BY <2>4 DEF Clears, ReadsPool, FindsInvalid, Removes
    <3>2. ~Changing
      BY <3>1 DEF Changing
    <3>3. /\ CleanerInv(coordinator')
          /\ \A t \in transactions \ transactions' : NotPayable(t) \/ TooOld(t)
      BY <1>0, <2>1, <2>4, <3>2, CleanerKeeps DEF CleanersInv
    <3>4. SameCleaner(coordinator, coordinator')
      BY <1>0, <2>4, ClearsIs DEF SoundInv, KnownInv, Stages
    <3>5. coordinator' \in Coordinators /\ coordinator'.block = coordinator.block
          /\ coordinator'.left = {}
      BY <3>2, <3>4 DEF SameCleaner, StateInv
    <3>6. CleanerInv(coordinator)'
      BY <2>1, <3>3, SameChain DEF CleanerInv
    <3>7. ~Changing'
      <4>1. coordinator'.at \in {"dropping", "validating", "removing", "idle"}
        BY <1>0, <2>4, ReadsPoolIs, FindsInvalidIs, RemovesIs
           DEF Clears, SoundInv, KnownInv, Stages
      <4>. QED BY <4>1 DEF Changing
    <3>8. Kept
      BY <3>3 DEF Kept, NotPayable
    <3>. QED BY <2>1, <2>2, <3>5, <3>6, <3>7, <3>8, SameChain DEF CleanersInv
  <2>. QED BY <1>7, <2>3, <2>4 DEF CoordinatorClears
<1>. QED BY <1>3, <1>4, <1>5, <1>6, <1>7 DEF CoordinatorStep

LEMMA NextKeepsCleaners ==
  ASSUME SoundInv, StateInv, CleanersInv, [Next]_vars
  PROVE  CleanersInv' /\ (Next => Kept)
<1>1. ASSUME UNCHANGED <<chain, miner, coordinator, overlapped>>,
             transactions \subseteq transactions'
      PROVE  CleanersInv' /\ Kept
  BY <1>1, SameChain DEF CleanersInv, CleanerInv, Changing, ClearingPool, Kept
<1>2. CASE UNCHANGED vars
  BY <1>1, <1>2 DEF vars
<1>3. ASSUME NEW t \in Tx, Accepts(t) \/ PutIfAbsent(t) PROVE CleanersInv' /\ Kept
  BY <1>1, <1>3 DEF Accepts, PutIfAbsent
<1>. QED BY <1>2, <1>3, MinerKeepsCleaners, CoordinatorKeepsCleaners DEF Next

\* Whoever clears the pool, a transaction leaves it only when it is in the chain, too
\* old, or of an account that cannot pay for all it sends, unless a change of the chain
\* has overlapped the clearing of the miner that removes it
\* (SimpleTransactionModule.scala:98-109, StoredState.scala:51-79 and 161-182).
THEOREM SolventAreKept == Spec => SolventKept
<1>1. SoundInv /\ StateInv /\ CleanersInv /\ [Next]_vars => [Kept]_vars
  BY NextKeepsCleaners
<1>2. RoomInv /\ SoundInv /\ StateInv /\ CleanersInv /\ [Next]_vars
        => RoomInv' /\ SoundInv' /\ StateInv' /\ CleanersInv'
  BY NextKeepsRoom, NextKeepsSound, NextKeepsState, NextKeepsCleaners
<1>3. SolventKept <=> [][Kept]_vars
  BY PTL DEF SolventKept, Kept
<1>. QED
  BY <1>1, <1>2, <1>3, InitHasRoom, SoundInit, StateInit, CleanersInit, PTL DEF Spec
=============================================================================
