----------------------------- MODULE NodeProofs -----------------------------
(* The safety of a node among its peers, for any blocks, chains, peers and   *)
(* bounds.  NodeInv says what the messages, the behaviours and the fork      *)
(* storage are; WorkInv what every behaviour that is at work on a fork, or   *)
(* will be when a timeout is handled, has to do with it.  Both hold with the *)
(* ScoreObserver of ScoredNode too.                                          *)
EXTENDS ScoredNode, SequenceTheorems, FiniteSetTheorems, WellFoundedInduction, TLAPS

-----------------------------------------------------------------------------
(* Numbers and recursion *)

Less == {ss \in Nat \X Nat : ss[1] < ss[2]}

LEMMA SmallestExists ==
  ASSUME NEW S \in SUBSET Nat, S # {}
  PROVE  \E m \in S : \A x \in S : m <= x
<1>1. IsWellFoundedOn(Less, Nat)
  BY Zenon, NatLessThanWellFounded DEF OpToRel, Less
<1>2. PICK m \in S : \A x \in S : ~ (<<x, m>> \in Less)
  BY <1>1, WFMin, Zenon
<1>3. ASSUME NEW x \in S PROVE m <= x
  <2>1. x < m => <<x, m>> \in Less
    BY DEF Less
  <2>. QED BY <1>2, <2>1
<1>. QED
  BY <1>3

\* Induction: a set of natural numbers with 0 and every successor is Nat.
LEMMA Induction ==
  ASSUME NEW S, 0 \in S, \A n \in Nat : n \in S => n + 1 \in S
  PROVE  Nat \subseteq S
<1>1. SUFFICES ASSUME Nat \ S # {} PROVE FALSE
  OBVIOUS
<1>2. PICK m \in Nat \ S : \A x \in Nat \ S : m <= x
  <2>1. Nat \ S \in SUBSET Nat
    OBVIOUS
  <2>. QED BY <1>1, <2>1, SmallestExists
<1>3. m # 0
  OBVIOUS
<1>4. m - 1 \in Nat /\ m - 1 \in S
  BY <1>2, <1>3
<1>. QED BY <1>4

Steps(n, V, base, step) ==
  n \in Nat /\ base \in V /\ \A k \in 1..n : \A v \in V : step[<<k, v>>] \in V

\* A recursion over 0..n exists, step by step.
LEMMA Recursion ==
  ASSUME NEW n, NEW V, NEW base, NEW step, Steps(n, V, base, step)
  PROVE  \E f \in [0..n -> V] :
           f[0] = base /\ \A k \in 1..n : f[k] = step[<<k, f[k - 1]>>]
<1>. DEFINE On(f, m) == f[0] = base /\ \A k \in 1..m : f[k] = step[<<k, f[k - 1]>>]
            S == {m \in Nat : m <= n => \E f \in [0..m -> V] : On(f, m)}
<1>0. n \in Nat /\ base \in V /\ \A k \in 1..n : \A v \in V : step[<<k, v>>] \in V
  BY DEF Steps
<1>1. 0 \in S
  <2>. DEFINE f == [k \in 0..0 |-> base]
  <2>1. f \in [0..0 -> V] /\ On(f, 0)
    BY <1>0
  <2>. QED BY <2>1
<1>2. ASSUME NEW m \in Nat, m \in S PROVE m + 1 \in S
  <2>1. SUFFICES ASSUME m + 1 <= n PROVE \E f \in [0..m + 1 -> V] : On(f, m + 1)
    OBVIOUS
  <2>2. PICK f \in [0..m -> V] : On(f, m)
    BY <1>0, <1>2, <2>1
  <2>. DEFINE v == step[<<m + 1, f[m]>>]
              g == [k \in 0..m + 1 |-> IF k = m + 1 THEN v ELSE f[k]]
  <2>3. v \in V
    BY <1>0, <2>1, <2>2
  <2>. HIDE DEF v
  <2>4. g \in [0..m + 1 -> V] /\ g[m + 1] = v /\ \A k \in 0..m : g[k] = f[k]
    BY <2>3
  <2>. HIDE DEF g
  <2>5. ASSUME NEW k \in 1..m + 1 PROVE g[k] = step[<<k, g[k - 1]>>]
    <3>1. CASE k = m + 1
      BY <2>4, <3>1 DEF v
    <3>2. CASE k # m + 1
      <4>1. k \in 1..m /\ k \in 0..m /\ k - 1 \in 0..m
        BY <3>2
      <4>. QED BY <2>2, <2>4, <4>1
    <3>. QED BY <3>1, <3>2
  <2>6. g[0] = base
    BY <2>2, <2>4
  <2>. QED BY <2>4, <2>5, <2>6
<1>. HIDE DEF S
<1>3. n \in S
  BY <1>0, <1>1, <1>2, Induction
<1>. QED BY <1>3 DEF S

-----------------------------------------------------------------------------
(* The score of a chain *)

Sum(sum, chain, n) == IF n = 0 THEN 0 ELSE sum[n - 1] + BlockScore[chain[n]]

Sums(sum, chain) == sum = [n \in 0..Len(chain) |-> Sum(sum, chain, n)]

\* Sums from the first block on.
LEMMA ScoreSums ==
  ASSUME NEW chain \in Seq(Block)
  PROVE  \E sum \in [0..Len(chain) -> Nat] :
           /\ Score(chain) = sum[Len(chain)] /\ sum[0] = 0
           /\ \A n \in 1..Len(chain) : sum[n] = sum[n - 1] + BlockScore[chain[n]]
<1>. DEFINE step == [p \in (1..Len(chain)) \X Nat |-> p[2] + BlockScore[chain[p[1]]]]
            F == CHOOSE sum : Sums(sum, chain)
<1>1. Len(chain) \in Nat /\ \A n \in 1..Len(chain) : BlockScore[chain[n]] \in Nat
  BY ChainsAssumption
<1>2. \A n \in 1..Len(chain) : \A v \in Nat :
        step[<<n, v>>] = v + BlockScore[chain[n]] /\ step[<<n, v>>] \in Nat
  BY <1>1
<1>. HIDE DEF step
<1>3. PICK f \in [0..Len(chain) -> Nat] :
        f[0] = 0 /\ \A n \in 1..Len(chain) : f[n] = step[<<n, f[n - 1]>>]
  <2>1. \A n \in 1..Len(chain) : \A v \in Nat : step[<<n, v>>] \in Nat
    BY <1>2
  <2>2. Steps(Len(chain), Nat, 0, step)
    BY <1>1, <2>1 DEF Steps
  <2>. QED BY <2>2, Recursion
<1>4. ASSUME NEW n \in 0..Len(chain) PROVE f[n] = Sum(f, chain, n)
  <2>1. CASE n = 0
    BY <1>3, <2>1 DEF Sum
  <2>2. CASE n # 0
    <3>1. n \in 1..Len(chain) /\ n - 1 \in 0..Len(chain)
      BY <1>1, <2>2
    <3>. QED BY <1>2, <1>3, <2>2, <3>1 DEF Sum
  <2>. QED BY <2>1, <2>2
<1>5. f = [n \in 0..Len(chain) |-> f[n]]
  OBVIOUS
<1>6. Sums(f, chain)
  BY <1>4, <1>5, Zenon DEF Sums
<1>7. Sums(F, chain)
  BY <1>6, Zenon
<1>8. Score(chain) = F[Len(chain)]
  BY Zenon DEF Score, Sums, Sum
<1>. HIDE DEF F
<1>9. \A n \in 0..Len(chain) : F[n] = Sum(F, chain, n)
  BY <1>7, Zenon DEF Sums
<1>10. F[0] = 0 /\ \A n \in 1..Len(chain) : F[n] = F[n - 1] + BlockScore[chain[n]]
  <2>1. 0 \in 0..Len(chain)
    BY <1>1
  <2>2. \A n \in 1..Len(chain) : n \in 0..Len(chain) /\ n # 0
    BY <1>1
  <2>. QED BY <1>9, <2>1, <2>2 DEF Sum
<1>11. \A n \in 0..Len(chain) : F[n] \in Nat
  <2>. DEFINE S == {n \in Nat : n <= Len(chain) => F[n] \in Nat}
  <2>1. 0 \in S
    BY <1>10
  <2>2. ASSUME NEW n \in Nat, n \in S PROVE n + 1 \in S
    <3>1. SUFFICES ASSUME n + 1 <= Len(chain) PROVE F[n + 1] \in Nat
      OBVIOUS
    <3>2. n + 1 \in 1..Len(chain) /\ n + 1 - 1 = n /\ F[n] \in Nat
      BY <1>1, <2>2, <3>1
    <3>3. F[n + 1] = F[n] + BlockScore[chain[n + 1]] /\ BlockScore[chain[n + 1]] \in Nat
      BY <1>1, <1>10, <3>2
    <3>. QED BY <3>2, <3>3
  <2>. HIDE DEF S
  <2>3. Nat \subseteq S
    BY <2>1, <2>2, Induction
  <2>. QED BY <1>1, <2>3 DEF S
<1>12. F = [n \in 0..Len(chain) |-> F[n]]
  BY <1>7, <1>9, Zenon DEF Sums
<1>13. F \in [0..Len(chain) -> Nat]
  BY <1>11, <1>12
<1>. QED BY <1>8, <1>10, <1>13

LEMMA ScoreIsNat ==
  ASSUME NEW chain \in Seq(Block)
  PROVE  Score(chain) \in Nat
BY ScoreSums

\* The score of a chain is that of its beginning and of the rest together.
LEMMA ScoreOfConcat ==
  ASSUME NEW s \in Seq(Block), NEW t \in Seq(Block)
  PROVE  Score(s \o t) = Score(s) + Score(t)
<1>. DEFINE st == s \o t
            m == Len(s)
            n == Len(t)
<1>1. /\ st \in Seq(Block) /\ m \in Nat /\ n \in Nat /\ Len(st) = m + n
      /\ \A i \in 1..m : st[i] = s[i]
      /\ \A i \in 1..n : st[m + i] = t[i]
  OBVIOUS
<1>. HIDE DEF st, m, n
<1>2. PICK f \in [0..m -> Nat] :
        Score(s) = f[m] /\ f[0] = 0 /\ \A i \in 1..m : f[i] = f[i - 1] + BlockScore[s[i]]
  BY ScoreSums DEF m
<1>3. PICK g \in [0..n -> Nat] :
        Score(t) = g[n] /\ g[0] = 0 /\ \A i \in 1..n : g[i] = g[i - 1] + BlockScore[t[i]]
  BY ScoreSums DEF n
<1>4. PICK h \in [0..m + n -> Nat] :
        /\ Score(st) = h[m + n] /\ h[0] = 0
        /\ \A i \in 1..m + n : h[i] = h[i - 1] + BlockScore[st[i]]
  <2>1. st \in Seq(Block) /\ Len(st) = m + n
    BY <1>1
  <2>2. \E h \in [0..Len(st) -> Nat] :
          /\ Score(st) = h[Len(st)] /\ h[0] = 0
          /\ \A i \in 1..Len(st) : h[i] = h[i - 1] + BlockScore[st[i]]
    BY <2>1, ScoreSums
  <2>. QED BY <2>1, <2>2, Zenon
<1>5. h[m] = f[m]
  <2>. DEFINE S == {i \in Nat : i <= m => h[i] = f[i]}
  <2>1. 0 \in S
    BY <1>2, <1>4
  <2>2. ASSUME NEW i \in Nat, i \in S PROVE i + 1 \in S
    <3>1. SUFFICES ASSUME i + 1 <= m PROVE h[i + 1] = f[i + 1]
      OBVIOUS
    <3>2. i + 1 \in 1..m /\ i + 1 \in 1..m + n /\ i + 1 - 1 = i /\ h[i] = f[i]
      BY <1>1, <2>2, <3>1
    <3>3. h[i + 1] = h[i] + BlockScore[st[i + 1]] /\ f[i + 1] = f[i] + BlockScore[s[i + 1]]
      BY <1>2, <1>4, <3>2
    <3>4. st[i + 1] = s[i + 1]
      BY <1>1, <3>2
    <3>. QED BY <3>2, <3>3, <3>4
  <2>. HIDE DEF S
  <2>3. m \in S
    BY <1>1, <2>1, <2>2, Induction
  <2>. QED BY <1>1, <2>3 DEF S
<1>6. h[m + n] = f[m] + g[n]
  <2>. DEFINE S == {i \in Nat : i <= n => h[m + i] = f[m] + g[i]}
  <2>0. f[m] \in Nat
    BY <1>1, <1>2
  <2>1. 0 \in S
    BY <1>1, <1>3, <1>5, <2>0
  <2>2. ASSUME NEW i \in Nat, i \in S PROVE i + 1 \in S
    <3>1. SUFFICES ASSUME i + 1 <= n PROVE h[m + (i + 1)] = f[m] + g[i + 1]
      OBVIOUS
    <3>2. /\ i + 1 \in 1..n /\ m + (i + 1) \in 1..m + n /\ i + 1 - 1 = i
          /\ (m + (i + 1)) - 1 = m + i /\ h[m + i] = f[m] + g[i]
      <4>1. m \in Nat /\ n \in Nat /\ i + 1 <= n
        BY <1>1, <3>1
      <4>2. h[m + i] = f[m] + g[i]
        BY <2>2, <4>1
      <4>. QED BY <4>1, <4>2
    <3>3. /\ h[m + (i + 1)] = h[m + i] + BlockScore[st[m + (i + 1)]]
          /\ g[i + 1] = g[i] + BlockScore[t[i + 1]]
      <4>1. h[m + (i + 1)] = h[(m + (i + 1)) - 1] + BlockScore[st[m + (i + 1)]]
        <5>1. PICK k \in 1..m + n : k = m + (i + 1)
          BY <3>2
        <5>2. h[k] = h[k - 1] + BlockScore[st[k]]
          BY <1>4
        <5>. QED BY <5>1, <5>2, Zenon
      <4>2. g[i + 1] = g[i + 1 - 1] + BlockScore[t[i + 1]]
        BY <1>3, <3>2
      <4>. QED BY <3>2, <4>1, <4>2, Zenon
    <3>4. st[m + (i + 1)] = t[i + 1]
      BY <1>1, <3>2
    <3>5. g[i] \in Nat /\ BlockScore[t[i + 1]] \in Nat
      <4>1. i \in 0..n /\ t[i + 1] \in Block
        BY <1>1, <3>1, <3>2, ElementOfSeq DEF n
      <4>. QED BY <4>1, ChainsAssumption
    <3>. QED BY <2>0, <3>2, <3>3, <3>4, <3>5
  <2>. HIDE DEF S
  <2>3. n \in S
    BY <1>1, <2>1, <2>2, Induction
  <2>. QED BY <1>1, <2>3 DEF S
<1>. QED BY <1>2, <1>3, <1>4, <1>6 DEF st

-----------------------------------------------------------------------------
(* Parts of chains *)

LEMMA PartSeq ==
  ASSUME NEW S, NEW s \in Seq(S), NEW a \in Nat \ {0}, NEW b \in 0..Len(s)
  PROVE  /\ SubSeq(s, a, b) \in Seq(S)
         /\ Len(SubSeq(s, a, b)) = IF a <= b THEN b - a + 1 ELSE 0
         /\ \A i \in 1..Len(SubSeq(s, a, b)) :
              SubSeq(s, a, b)[i] = s[a + i - 1] /\ a + i - 1 \in a..b
<1>1. a \in Int /\ b \in Int /\ \A i \in a..b : s[i] \in S
  OBVIOUS
<1>2. /\ SubSeq(s, a, b) \in Seq(S)
      /\ Len(SubSeq(s, a, b)) = IF a <= b THEN b - a + 1 ELSE 0
      /\ \A i \in 1..b - a + 1 : SubSeq(s, a, b)[i] = s[a + i - 1]
  BY <1>1, SubSeqProperties
<1>. QED BY <1>1, <1>2

\* The first n of a sequence, or all of it.
LEMMA TakeOf ==
  ASSUME NEW S, NEW s \in Seq(S), NEW n \in Nat
  PROVE  \E k \in 0..Len(s) :
           /\ k <= n /\ (k = n \/ k = Len(s))
           /\ Take(s, n) \in Seq(S) /\ Len(Take(s, n)) = k
           /\ \A i \in 1..k : Take(s, n)[i] = s[i]
<1>1. Len(s) \in Nat
  OBVIOUS
<1>2. PICK k \in Nat : k = Min({n, Len(s)}) /\ k <= n /\ k <= Len(s) /\ (k = n \/ k = Len(s))
  <2>1. \E k \in {n, Len(s)} : \A y \in {n, Len(s)} : k <= y
    BY <1>1
  <2>2. Min({n, Len(s)}) \in {n, Len(s)} /\ \A y \in {n, Len(s)} : Min({n, Len(s)}) <= y
    BY <2>1, Zenon DEF Min
  <2>. QED BY <1>1, <2>2
<1>3. k \in 0..Len(s) /\ Take(s, n) = SubSeq(s, 1, k)
  BY <1>1, <1>2 DEF Take
<1>4. /\ SubSeq(s, 1, k) \in Seq(S) /\ Len(SubSeq(s, 1, k)) = k
      /\ \A i \in 1..k : SubSeq(s, 1, k)[i] = s[i]
  BY <1>1, <1>3, PartSeq
<1>. QED BY <1>2, <1>3, <1>4

\* ids follow common: every one is the child of the one before it.
Attached(ids, common) ==
  \A i \in 1..Len(ids) : Ref[ids[i]] = IF i = 1 THEN common ELSE ids[i - 1]

LEMMA AttachedTake ==
  ASSUME NEW ids \in Seq(Block), NEW common, Attached(ids, common), NEW n \in Nat
  PROVE  Attached(Take(ids, n), common)
<1>1. PICK k \in 0..Len(ids) : Len(Take(ids, n)) = k /\ \A i \in 1..k : Take(ids, n)[i] = ids[i]
  BY TakeOf
<1>2. ASSUME NEW i \in 1..Len(Take(ids, n))
      PROVE  Ref[Take(ids, n)[i]] = IF i = 1 THEN common ELSE Take(ids, n)[i - 1]
  <2>1. i \in 1..k /\ i \in 1..Len(ids) /\ (i # 1 => i - 1 \in 1..k)
    BY <1>1
  <2>2. Take(ids, n)[i] = ids[i] /\ (i # 1 => Take(ids, n)[i - 1] = ids[i - 1])
    BY <1>1, <2>1
  <2>. QED BY <2>1, <2>2 DEF Attached
<1>. QED BY <1>2 DEF Attached

LEMMA AttachedMore ==
  ASSUME NEW ids \in Seq(Block), NEW common, Attached(ids, common), NEW tail \in Seq(Block),
         Attached(tail, IF ids = <<>> THEN common ELSE ids[Len(ids)])
  PROVE  ids \o tail \in Seq(Block) /\ Attached(ids \o tail, common)
<1>1. /\ Len(ids) \in Nat /\ Len(tail) \in Nat /\ Len(ids \o tail) = Len(ids) + Len(tail)
      /\ ids \o tail \in Seq(Block) /\ (ids = <<>> <=> Len(ids) = 0)
      /\ \A i \in 1..Len(ids) : (ids \o tail)[i] = ids[i]
      /\ \A i \in 1..Len(tail) : (ids \o tail)[Len(ids) + i] = tail[i]
  OBVIOUS
<1>. DEFINE all == ids \o tail
<1>. HIDE DEF all
<1>2. ASSUME NEW i \in 1..Len(all)
      PROVE  Ref[all[i]] = IF i = 1 THEN common ELSE all[i - 1]
  <2>1. CASE i <= Len(ids)
    <3>1. i \in 1..Len(ids) /\ (i # 1 => i - 1 \in 1..Len(ids))
      BY <1>1, <2>1 DEF all
    <3>2. all[i] = ids[i] /\ (i # 1 => all[i - 1] = ids[i - 1])
      BY <1>1, <3>1 DEF all
    <3>. QED BY <3>1, <3>2 DEF Attached
  <2>2. CASE i = Len(ids) + 1
    <3>1. 1 \in 1..Len(tail) /\ all[i] = tail[1]
      BY <1>1, <2>2 DEF all
    <3>2. Ref[all[i]] = IF ids = <<>> THEN common ELSE ids[Len(ids)]
      BY <3>1 DEF Attached
    <3>3. CASE ids = <<>>
      BY <1>1, <2>2, <3>2, <3>3
    <3>4. CASE ids # <<>>
      <4>1. i # 1 /\ i - 1 = Len(ids) /\ Len(ids) \in 1..Len(ids)
        BY <1>1, <2>2, <3>4
      <4>2. all[i - 1] = ids[Len(ids)]
        BY <1>1, <4>1 DEF all
      <4>. QED BY <3>2, <3>4, <4>1, <4>2
    <3>. QED BY <3>3, <3>4
  <2>3. CASE i > Len(ids) + 1
    <3>1. PICK m \in Nat, n \in Nat : m = Len(ids) /\ n = Len(tail) /\ i \in 1..m + n
      BY <1>1 DEF all
    <3>3. i \in Nat /\ i > m + 1
      BY <2>3, <3>1
    <3>2. PICK j \in Nat : j = i - m
      BY <3>3
    <3>4. /\ j \in 1..n /\ j # 1 /\ j - 1 \in 1..n /\ i # 1
          /\ i = m + j /\ i - 1 = m + (j - 1)
      BY <3>1, <3>2, <3>3
    <3>5. all[i] = tail[j] /\ all[i - 1] = tail[j - 1]
      BY <1>1, <3>1, <3>4 DEF all
    <3>. QED BY <3>1, <3>4, <3>5 DEF Attached
  <2>. QED BY <1>1, <2>1, <2>2, <2>3 DEF all
<1>. QED BY <1>1, <1>2 DEF Attached, all

\* What is left of a chain follows the block before it.
LEMMA LinkedRest ==
  ASSUME NEW ids \in Seq(Block), Linked(ids), NEW n \in 1..Len(ids)
  PROVE  /\ SubSeq(ids, n + 1, Len(ids)) \in Seq(Block)
         /\ Len(SubSeq(ids, n + 1, Len(ids))) = Len(ids) - n
         /\ Attached(SubSeq(ids, n + 1, Len(ids)), ids[n])
<1>. DEFINE rest == SubSeq(ids, n + 1, Len(ids))
<1>1. Len(ids) \in Nat /\ n + 1 \in Nat \ {0} /\ Len(ids) \in 0..Len(ids)
  OBVIOUS
<1>2. /\ rest \in Seq(Block) /\ Len(rest) = Len(ids) - n
      /\ \A i \in 1..Len(rest) : rest[i] = ids[(n + 1) + i - 1]
  BY <1>1, PartSeq
<1>. HIDE DEF rest
<1>3. ASSUME NEW i \in 1..Len(rest)
      PROVE  Ref[rest[i]] = IF i = 1 THEN ids[n] ELSE rest[i - 1]
  <2>1. PICK k \in Nat : k = n + i
    OBVIOUS
  <2>2. /\ k \in 2..Len(ids) /\ (n + 1) + i - 1 = k /\ (i = 1 => k - 1 = n)
        /\ (i # 1 => i - 1 \in 1..Len(rest) /\ (n + 1) + (i - 1) - 1 = k - 1)
    BY <1>1, <1>2, <2>1
  <2>3. rest[i] = ids[k] /\ (i # 1 => rest[i - 1] = ids[k - 1])
    BY <1>2, <2>2
  <2>4. Ref[ids[k]] = ids[k - 1]
    BY <2>2 DEF Linked
  <2>. QED BY <2>2, <2>3, <2>4
<1>. QED BY <1>2, <1>3 DEF Attached, rest

\* No block of a line of descent occurs in it twice.
LEMMA NoCircle ==
  ASSUME NEW s \in Seq(Block), NEW i \in 1..Len(s), NEW j \in 1..Len(s), i < j,
         \A k \in i + 1..j : Ref[s[k]] = s[k - 1]
  PROVE  s[i] # s[j]
<1>. SUFFICES ASSUME s[i] = s[j] PROVE FALSE
  OBVIOUS
<1>. DEFINE S == {s[k] : k \in i + 1..j}
<1>1. i \in Nat /\ j \in Nat /\ j \in i + 1..j
  OBVIOUS
<1>2. S \in SUBSET Block /\ S # {}
  <2>1. \A k \in i + 1..j : s[k] \in Block
    BY <1>1
  <2>. QED BY <1>1, <2>1
<1>3. PICK b \in S : Ref[b] \notin S
  BY <1>2, RefIsWellFounded
<1>4. PICK k \in i + 1..j : b = s[k]
  OBVIOUS
<1>5. Ref[b] = s[k - 1]
  BY <1>4
<1>6. CASE k = i + 1
  BY <1>1, <1>3, <1>5, <1>6
<1>7. CASE k # i + 1
  <2>1. k - 1 \in i + 1..j
    BY <1>1, <1>7
  <2>. QED BY <1>3, <1>5, <2>1
<1>. QED BY <1>6, <1>7

LEMMA AttachedInjective ==
  ASSUME NEW ids \in Seq(Block), NEW common, Attached(ids, common)
  PROVE  IsInjective(ids)
<1>1. ASSUME NEW i \in 1..Len(ids), NEW j \in 1..Len(ids), i < j PROVE ids[i] # ids[j]
  <2>1. \A k \in i + 1..j : Ref[ids[k]] = ids[k - 1]
    BY <1>1 DEF Attached
  <2>. QED BY <1>1, <2>1, NoCircle
<1>2. DOMAIN ids = 1..Len(ids) /\ \A i, j \in 1..Len(ids) : i < j \/ j < i \/ i = j
  OBVIOUS
<1>. QED BY <1>1, <1>2 DEF IsInjective

-----------------------------------------------------------------------------
(* What is asked of chains *)

LEMMA HeightIs ==
  ASSUME NEW chain \in Seq(Block), NEW id, Has(chain, id)
  PROVE  HeightOf(chain, id) \in 1..Len(chain) /\ chain[HeightOf(chain, id)] = id
<1>1. \E h \in DOMAIN chain : chain[h] = id
  BY DEF Has, ToSet
<1>2. HeightOf(chain, id) \in DOMAIN chain /\ chain[HeightOf(chain, id)] = id
  BY <1>1, Zenon DEF HeightOf
<1>. QED BY <1>2

\* A chain from the genesis block on.
IsChain(chain) ==
  chain \in Seq(Block) /\ chain # <<>> /\ chain[1] = Genesis /\ Linked(chain)

LEMMA UpToIsChain ==
  ASSUME NEW chain, IsChain(chain), NEW id, Has(chain, id)
  PROVE  IsChain(UpTo(chain, id)) /\ UpTo(chain, id)[Len(UpTo(chain, id))] = id
<1>1. PICK h \in 1..Len(chain) : h = HeightOf(chain, id) /\ chain[h] = id
  BY HeightIs DEF IsChain
<1>2. chain \in Seq(Block) /\ Len(chain) \in Nat /\ h \in Nat \ {0} /\ h \in 0..Len(chain)
  BY DEF IsChain
<1>. DEFINE part == SubSeq(chain, 1, h)
<1>3. part \in Seq(Block) /\ Len(part) = h /\ \A i \in 1..h : part[i] = chain[i]
  BY <1>2, PartSeq
<1>. HIDE DEF part
<1>4. part # <<>> /\ part[1] = Genesis /\ part[h] = id
  BY <1>1, <1>2, <1>3 DEF IsChain
<1>5. Linked(part)
  <2>1. ASSUME NEW i \in 2..h PROVE Ref[part[i]] = part[i - 1]
    <3>1. i \in 1..h /\ i - 1 \in 1..h /\ i \in 2..Len(chain)
      BY <1>2
    <3>. QED BY <1>3, <3>1 DEF IsChain, Linked
  <2>. QED BY <1>3, <2>1 DEF Linked
<1>. QED BY <1>1, <1>3, <1>4, <1>5 DEF IsChain, UpTo, part

LEMMA AppendIsChain ==
  ASSUME NEW chain, IsChain(chain), NEW b \in Block, Ref[b] = Last(chain)
  PROVE  IsChain(Append(chain, b))
<1>1. chain \in Seq(Block) /\ Len(chain) \in Nat \ {0} /\ Ref[b] = chain[Len(chain)]
  BY DEF IsChain, Last
<1>. DEFINE more == Append(chain, b)
<1>2. /\ more \in Seq(Block) /\ Len(more) = Len(chain) + 1 /\ more[Len(chain) + 1] = b
      /\ \A i \in 1..Len(chain) : more[i] = chain[i]
  BY <1>1
<1>. HIDE DEF more
<1>3. ASSUME NEW i \in 2..Len(more) PROVE Ref[more[i]] = more[i - 1]
  <2>1. CASE i = Len(chain) + 1
    <3>1. i - 1 = Len(chain) /\ Len(chain) \in 1..Len(chain)
      BY <1>1, <2>1
    <3>. QED BY <1>1, <1>2, <2>1, <3>1
  <2>2. CASE i # Len(chain) + 1
    <3>1. i \in 2..Len(chain) /\ i \in 1..Len(chain) /\ i - 1 \in 1..Len(chain)
      BY <1>1, <1>2, <2>2
    <3>. QED BY <1>2, <3>1 DEF IsChain, Linked
  <2>. QED BY <2>1, <2>2
<1>4. more # <<>> /\ more[1] = Genesis
  BY <1>1, <1>2 DEF IsChain
<1>. QED BY <1>2, <1>3, <1>4 DEF IsChain, Linked, more

\* Two chains with a block in common are the same up to it.
LEMMA OneChainTo ==
  ASSUME NEW s, IsChain(s), NEW t, IsChain(t), s[Len(s)] = t[Len(t)]
  PROVE  s = t
<1>. DEFINE m == Len(s)
            n == Len(t)
<1>1. s \in Seq(Block) /\ t \in Seq(Block) /\ m \in Nat \ {0} /\ n \in Nat \ {0}
  BY DEF IsChain
<1>. HIDE DEF m, n
<1>2. /\ s[1] = Genesis /\ t[1] = Genesis /\ s[m] = t[n]
      /\ \A i \in 2..m : Ref[s[i]] = s[i - 1]
      /\ \A i \in 2..n : Ref[t[i]] = t[i - 1]
  BY DEF IsChain, Linked, m, n
<1>3. ASSUME NEW k \in Nat, k < m, k < n PROVE s[m - k] = t[n - k]
  <2>. DEFINE S == {d \in Nat : d < m /\ d < n => s[m - d] = t[n - d]}
  <2>1. 0 \in S
    BY <1>1, <1>2
  <2>2. ASSUME NEW d \in Nat, d \in S PROVE d + 1 \in S
    <3>1. SUFFICES ASSUME d + 1 < m, d + 1 < n PROVE s[m - (d + 1)] = t[n - (d + 1)]
      OBVIOUS
    <3>2. /\ m - d \in 2..m /\ n - d \in 2..n /\ (m - d) - 1 = m - (d + 1)
          /\ (n - d) - 1 = n - (d + 1) /\ s[m - d] = t[n - d]
      BY <1>1, <2>2, <3>1
    <3>3. Ref[s[m - d]] = s[(m - d) - 1] /\ Ref[t[n - d]] = t[(n - d) - 1]
      BY <1>2, <3>2
    <3>. QED BY <3>2, <3>3
  <2>. HIDE DEF S
  <2>3. k \in S
    BY <2>1, <2>2, Induction
  <2>. QED BY <1>3, <2>3 DEF S
<1>4. ~(m < n)
  <2>. SUFFICES ASSUME m < n PROVE FALSE
    OBVIOUS
  <2>1. m - 1 \in Nat /\ m - 1 < m /\ m - 1 < n /\ m - (m - 1) = 1
    BY <1>1
  <2>2. PICK j \in 2..n : j = n - (m - 1)
    BY <1>1
  <2>3. t[1] = t[j]
    BY <1>2, <1>3, <2>1, <2>2
  <2>4. 1 \in 1..Len(t) /\ j \in 1..Len(t) /\ 1 < j
    BY <1>1, <2>2 DEF n
  <2>5. \A k \in 1 + 1..j : Ref[t[k]] = t[k - 1]
    BY <1>1, <1>2, <2>2
  <2>. QED BY <1>1, <2>3, <2>4, <2>5, NoCircle
<1>5. ~(n < m)
  <2>. SUFFICES ASSUME n < m PROVE FALSE
    OBVIOUS
  <2>1. n - 1 \in Nat /\ n - 1 < m /\ n - 1 < n /\ n - (n - 1) = 1
    BY <1>1
  <2>2. PICK j \in 2..m : j = m - (n - 1)
    BY <1>1
  <2>3. s[1] = s[j]
    BY <1>2, <1>3, <2>1, <2>2
  <2>4. 1 \in 1..Len(s) /\ j \in 1..Len(s) /\ 1 < j
    BY <1>1, <2>2 DEF m
  <2>5. \A k \in 1 + 1..j : Ref[s[k]] = s[k - 1]
    BY <1>1, <1>2, <2>2
  <2>. QED BY <1>1, <2>3, <2>4, <2>5, NoCircle
<1>6. m = n
  BY <1>1, <1>4, <1>5
<1>7. ASSUME NEW i \in 1..m PROVE s[i] = t[i]
  <2>1. m - i \in Nat /\ m - i < m /\ m - i < n /\ m - (m - i) = i /\ n - (m - i) = i
    BY <1>1, <1>6
  <2>. QED BY <1>3, <2>1
<1>. QED BY <1>1, <1>6, <1>7, SeqEqual DEF m, n

-----------------------------------------------------------------------------
(* Answers of peers *)

\* The smallest and the largest of some numbers.
LEMMA MinOf ==
  ASSUME NEW S \in SUBSET Nat, S # {}
  PROVE  Min(S) \in S /\ \A x \in S : Min(S) <= x
<1>1. \E m \in S : \A x \in S : m <= x
  BY SmallestExists
<1>. QED BY <1>1, Zenon DEF Min

LEMMA MaxOf ==
  ASSUME NEW n \in Nat, NEW S \in SUBSET (0..n), S # {}
  PROVE  Max(S) \in S /\ \A x \in S : x <= Max(S)
<1>. DEFINE R == {n - x : x \in S}
<1>1. R \in SUBSET Nat /\ R # {}
  <2>1. \A x \in S : n - x \in Nat
    OBVIOUS
  <2>. QED BY <2>1
<1>2. PICK r \in R : \A y \in R : r <= y
  BY <1>1, SmallestExists
<1>3. PICK m \in S : r = n - m
  BY DEF R
<1>4. ASSUME NEW x \in S PROVE m >= x
  <2>1. n - x \in R
    BY DEF R
  <2>2. n - m <= n - x /\ m \in Nat /\ x \in Nat
    BY <1>2, <1>3, <2>1
  <2>. QED BY <2>2
<1>5. \E x \in S : \A y \in S : x >= y
  BY <1>4
<1>6. Max(S) \in S /\ \A y \in S : Max(S) >= y
  BY <1>5, Zenon DEF Max
<1>. QED BY <1>6

LEMMA LookForwardFollows ==
  ASSUME NEW chain, IsChain(chain), NEW id, NEW n \in Nat
  PROVE  LookForward(chain, id, n) \in Seq(Block) /\ Attached(LookForward(chain, id, n), id)
<1>1. CASE ~Has(chain, id)
  BY <1>1 DEF LookForward, Attached
<1>2. CASE Has(chain, id)
  <2>1. PICK h \in 1..Len(chain) : h = HeightOf(chain, id) /\ chain[h] = id
    BY <1>2, HeightIs DEF IsChain
  <2>. DEFINE rest == SubSeq(chain, h + 1, Len(chain))
  <2>2. rest \in Seq(Block) /\ Attached(rest, id)
    BY <2>1, LinkedRest DEF IsChain
  <2>. HIDE DEF rest
  <2>3. Attached(Take(rest, n), id) /\ Take(rest, n) \in Seq(Block)
    BY <2>2, AttachedTake, TakeOf
  <2>. QED BY <1>2, <2>1, <2>3 DEF LookForward, rest
<1>. QED BY <1>1, <1>2

\* Blocks of which each is the child of the one before.
PartOfChain == {ids \in Seq(Block) : ids # <<>> /\ Linked(ids)}

\* A block and what is attached to it are a part of a chain.
LEMMA PrependLinked ==
  ASSUME NEW ids \in Seq(Block), NEW b \in Block, Attached(ids, b)
  PROVE  <<b>> \o ids \in PartOfChain
<1>. DEFINE all == <<b>> \o ids
<1>1. /\ all \in Seq(Block) /\ Len(all) = 1 + Len(ids) /\ all[1] = b /\ Len(ids) \in Nat
      /\ \A i \in 1..Len(ids) : all[1 + i] = ids[i]
  OBVIOUS
<1>. HIDE DEF all
<1>2. ASSUME NEW i \in 2..Len(all) PROVE Ref[all[i]] = all[i - 1]
  <2>1. PICK j \in Nat : j = i - 1
    OBVIOUS
  <2>2. j \in 1..Len(ids) /\ i = 1 + j /\ (j # 1 => j - 1 \in 1..Len(ids) /\ j = 1 + (j - 1))
    BY <1>1, <2>1
  <2>3. all[i] = ids[j] /\ all[i - 1] = IF j = 1 THEN b ELSE ids[j - 1]
    BY <1>1, <2>1, <2>2
  <2>. QED BY <2>2, <2>3 DEF Attached
<1>3. all # <<>>
  BY <1>1
<1>. QED BY <1>1, <1>2, <1>3 DEF PartOfChain, Linked, all

LEMMA SignaturesArePart ==
  ASSUME NEW chain, IsChain(chain), NEW ids \in Seq(Block), NEW n \in Nat,
         SignaturesAfter(chain, ids, n) # <<>>
  PROVE  SignaturesAfter(chain, ids, n) \in PartOfChain
<1>. DEFINE useful == {i \in DOMAIN ids : LookForward(chain, ids[i], n) # <<>>}
            parent == ids[Min(useful)]
<1>1. useful # {}
  BY Zenon DEF SignaturesAfter
<1>2. SignaturesAfter(chain, ids, n) = <<parent>> \o LookForward(chain, parent, n)
  BY <1>1, Zenon DEF SignaturesAfter
<1>3. useful \in SUBSET Nat /\ useful \in SUBSET (1..Len(ids))
  OBVIOUS
<1>. HIDE DEF useful
<1>4. Min(useful) \in 1..Len(ids)
  BY <1>1, <1>3, MinOf
<1>5. parent \in Block
  BY <1>4
<1>. HIDE DEF parent
<1>. QED BY <1>2, <1>5, LookForwardFollows, PrependLinked

\* The sequence of a set with at most one element.
LEMMA FewInSeq ==
  ASSUME NEW S, NEW M, S \subseteq M, S = {} \/ \E x : S = {x}
  PROVE  SetToSeq(S) \in Seq(M) /\ Len(SetToSeq(S)) <= 1
<1>1. \E n \in {0, 1} : n = Cardinality(S) /\ \E f \in [1..n -> S] : IsInjective(f)
  <2>1. CASE S = {}
    <3>1. Cardinality(S) = 0
      BY <2>1, FS_EmptySet
    <3>2. \E f \in [1..0 -> S] : IsInjective(f)
      <4>1. [i \in 1..0 |-> i] \in [1..0 -> S] /\ IsInjective([i \in 1..0 |-> i])
        BY DEF IsInjective
      <4>. QED BY <4>1
    <3>. QED BY <3>1, <3>2, Zenon
  <2>2. CASE \E x : S = {x}
    <3>1. PICK x : S = {x}
      BY <2>2
    <3>2. Cardinality(S) = 1
      BY <3>1, FS_Singleton
    <3>3. [i \in 1..1 |-> x] \in [1..1 -> S] /\ IsInjective([i \in 1..1 |-> x])
      BY <3>1 DEF IsInjective
    <3>4. \E f \in [1..1 -> S] : IsInjective(f)
      BY <3>3, Zenon
    <3>. QED BY <3>2, <3>4, Zenon
  <2>. QED BY <2>1, <2>2
<1>2. PICK n \in {0, 1} : n = Cardinality(S) /\ \E f \in [1..n -> S] : IsInjective(f)
  BY <1>1
<1>3. SetToSeq(S) \in [1..n -> S]
  BY <1>2, Zenon DEF SetToSeq
<1>. QED BY <1>3

\* The ids up to the first one the history lacks are in the history.
LEMMA CommonIsKnown ==
  ASSUME NEW ids \in Seq(Block)
  PROVE  CommonLength(ids) \in 0..Len(ids) /\ \A i \in 1..CommonLength(ids) : Has(history, ids[i])
<1>. DEFINE S == {n \in 0..Len(ids) : \A i \in 1..n : Has(history, ids[i])}
<1>1. Len(ids) \in Nat /\ S \in SUBSET (0..Len(ids)) /\ 0 \in S
  OBVIOUS
<1>2. CommonLength(ids) = Max(S)
  BY DEF CommonLength
<1>3. Max(S) \in S
  BY <1>1, MaxOf
<1>. QED BY <1>2, <1>3

LEMMA ReverseSeq ==
  ASSUME NEW S, NEW s \in Seq(S)
  PROVE  Reverse(s) \in Seq(S) /\ Len(Reverse(s)) = Len(s)
<1>1. Len(s) \in Nat /\ \A i \in 1..Len(s) : (Len(s) - i) + 1 \in 1..Len(s)
  OBVIOUS
<1>2. \A i \in 1..Len(s) : s[(Len(s) - i) + 1] \in S
  BY <1>1
<1>. QED BY <1>1, <1>2 DEF Reverse

LEMMA LastBlockIdsAreBlocks ==
  ASSUME NEW chain, IsChain(chain), NEW n \in Nat
  PROVE  LastBlockIds(chain, n) \in Seq(Block)
<1>1. Reverse(chain) \in Seq(Block)
  BY ReverseSeq DEF IsChain
<1>. QED BY <1>1, TakeOf DEF LastBlockIds

\* The last two of the ids there are, the common block among them.
LEMMA LastTwoOf ==
  ASSUME NEW t, t.common \in Block, t.ids \in Seq(Block), t.ids # <<>>
  PROVE  /\ LastTwo(t) \in Seq(Block) /\ Len(LastTwo(t)) = 2
         /\ Last(LastTwo(t)) = t.ids[Len(t.ids)]
<1>. DEFINE all == <<t.common>> \o t.ids
            m == Len(t.ids)
<1>1. /\ all \in Seq(Block) /\ Len(all) = 1 + m /\ m \in Nat \ {0}
      /\ \A i \in 1..m : all[1 + i] = t.ids[i]
  OBVIOUS
<1>2. LastTwo(t) = SubSeq(all, Len(all) - 1, Len(all))
  BY DEF LastTwo
<1>. HIDE DEF all, m
<1>3. Len(all) - 1 \in Nat \ {0} /\ Len(all) \in 0..Len(all) /\ Len(all) - 1 = m /\ m <= m + 1
  BY <1>1
<1>. DEFINE s == SubSeq(all, m, Len(all))
<1>4. /\ s \in Seq(Block) /\ Len(s) = IF m <= Len(all) THEN Len(all) - m + 1 ELSE 0
      /\ \A i \in 1..Len(s) : s[i] = all[m + i - 1]
  BY <1>1, <1>3, PartSeq
<1>. HIDE DEF s
<1>5. Len(s) = 2 /\ m + 2 - 1 = 1 + m /\ 2 \in 1..2 /\ m \in 1..m
  BY <1>1, <1>4
<1>6. s[2] = t.ids[m]
  BY <1>1, <1>4, <1>5
<1>. QED BY <1>2, <1>3, <1>4, <1>5, <1>6 DEF Last, s, m

\* The ids without a block.
LEMMA MissingIsSeq ==
  ASSUME NEW ids \in Seq(Block), NEW blocks
  PROVE  MissingOf(ids, blocks) \in Seq(Block)
<1>. DEFINE n == Len(ids)
            step == [p \in (1..n) \X Seq(Block) |->
                       IF ids[p[1]] \in DOMAIN blocks THEN p[2] ELSE Append(p[2], ids[p[1]])]
            Is(f) == f = [k \in 0..n |->
                       IF k = 0 THEN <<>>
                       ELSE IF ids[k] \in DOMAIN blocks THEN f[k - 1]
                       ELSE Append(f[k - 1], ids[k])]
<1>1. n \in Nat /\ <<>> \in Seq(Block) /\ \A k \in 1..n : ids[k] \in Block
  OBVIOUS
<1>2. \A k \in 1..n : \A v \in Seq(Block) :
        /\ step[<<k, v>>] = IF ids[k] \in DOMAIN blocks THEN v ELSE Append(v, ids[k])
        /\ step[<<k, v>>] \in Seq(Block)
  BY <1>1
<1>. HIDE DEF step, n
<1>3. Steps(n, Seq(Block), <<>>, step)
  BY <1>1, <1>2 DEF Steps
<1>4. PICK f \in [0..n -> Seq(Block)] : f[0] = <<>> /\ \A k \in 1..n : f[k] = step[<<k, f[k - 1]>>]
  BY <1>3, Recursion
<1>5. Is(f)
  <2>1. \A k \in 1..n : k - 1 \in 0..n
    BY <1>1
  <2>2. \A k \in 1..n : f[k] = IF ids[k] \in DOMAIN blocks THEN f[k - 1] ELSE Append(f[k - 1], ids[k])
    BY <1>2, <1>4, <2>1
  <2>3. \A k \in 0..n : k = 0 \/ k \in 1..n
    BY <1>1
  <2>. QED BY <1>4, <2>2, <2>3
<1>. DEFINE g == CHOOSE m : Is(m)
<1>6. Is(g)
  BY <1>5, Zenon
<1>7. MissingOf(ids, blocks) = g[n]
  BY Zenon DEF MissingOf, n
<1>. HIDE DEF g
<1>. DEFINE S == {k \in Nat : k <= n => g[k] \in Seq(Block)}
<1>8. 0 \in S
  BY <1>1, <1>6
<1>9. ASSUME NEW k \in Nat, k \in S PROVE k + 1 \in S
  <2>1. SUFFICES ASSUME k + 1 <= n PROVE g[k + 1] \in Seq(Block)
    OBVIOUS
  <2>2. k + 1 \in 0..n /\ k + 1 \in 1..n /\ k + 1 # 0 /\ (k + 1) - 1 = k /\ k <= n
    BY <1>1, <2>1
  <2>3. g[k] \in Seq(Block)
    BY <1>9, <2>2
  <2>4. g[k + 1] = IF ids[k + 1] \in DOMAIN blocks THEN g[k] ELSE Append(g[k], ids[k + 1])
    BY <1>6, <2>2
  <2>. QED BY <1>1, <2>2, <2>3, <2>4
<1>. HIDE DEF S
<1>10. n \in S
  BY <1>1, <1>8, <1>9, Induction
<1>. QED BY <1>1, <1>7, <1>10 DEF S

LEMMA BlocksAreCounted ==
  ASSUME NEW ids \in Seq(Block), NEW S, S \subseteq ToSet(ids)
  PROVE  Cardinality(S) \in Nat
<1>1. ids \in Surjection(DOMAIN ids, ToSet(ids))
  BY DEF Surjection, ToSet
<1>2. DOMAIN ids = 1..Len(ids) /\ Len(ids) \in Nat
  OBVIOUS
<1>3. IsFiniteSet(1..Len(ids))
  BY <1>2, FS_Interval
<1>4. IsFiniteSet(ToSet(ids))
  BY <1>1, <1>2, <1>3, FS_Surjection
<1>5. IsFiniteSet(S)
  BY <1>4, FS_Subset
<1>. QED BY <1>5, FS_CardinalityType

-----------------------------------------------------------------------------
(* The invariant *)

\* What is known of a behaviour, and of a timeout that says to run it again.
TaskInv(t) ==
  /\ t \in Behaviour /\ TaskOK(t)
  /\ t.stage = "GettingExtension" =>
       t.active = None /\ \A p \in DOMAIN t.peers : t.peers[p].retries = 0
  /\ t.stage = "GettingExtensionTail" => Attached(t.ids, t.common)

SyncMessage ==
  [kind : {"GetExtension"}, ids : Seq(Block),
   scores : UNION {[S -> Nat] : S \in SUBSET Peer}]
  \cup [kind : {"Signatures"}, ids : PartOfChain, from : Peer]
  \cup [kind : {"Block"}, block : Block, from : Peer]
  \cup [kind : {"TimeoutExceeded"}, task : {t \in Behaviour : TaskInv(t)}]

Fork == [common : Block, ids : Seq(Block), from : Peer \cup {None}]

CoordMessage ==
  [kind : {"AddBlock"}, block : Block, from : Peer \cup {None}]
  \cup [kind : {"SyncFinished"}, result : Fork \cup {None}]

Request ==
  [kind : {"GetSignatures"}, ids : Seq(Block)]
  \cup [kind : {"GetBlock"}, ids : {<<b>> : b \in Block}]

ForkInv ==
  /\ forkIds \in Seq(Block) /\ Len(forkIds) <= ForkMaxLength /\ IsInjective(forkIds)
  /\ forkBlocks \in [DOMAIN forkBlocks -> Peer] /\ DOMAIN forkBlocks \subseteq ToSet(forkIds)
  /\ forkBase \in Nat

AskedInv ==
  /\ asked \in [Peer -> Seq(Request)] /\ blacklisted \subseteq Peer
  /\ \A p \in blacklisted : asked[p] = <<>>

BoxesInv == syncBox \in Seq(SyncMessage) /\ coordBox \in Seq(CoordMessage)

SyncInv ==
  /\ IsChain(history) /\ ForkInv /\ AskedInv /\ BoxesInv
  /\ Idle \/ TaskInv(task)

ApplyInv == applying = None \/ applying \in [rest : Seq(Block), from : Peer \cup {None}]

NodeInv == SyncInv /\ ApplyInv /\ older \in 0..Len(syncBox) /\ mixed \in BOOLEAN

-----------------------------------------------------------------------------
(* What the actions are made of *)

LEMMA PeerDataIs ==
  ASSUME NEW S, S \subseteq Peer, NEW d \in [S -> [score : Nat, retries : Nat]]
  PROVE  d \in PeerData
BY DEF PeerData

LEMMA OfPeerData ==
  ASSUME NEW d \in PeerData
  PROVE  /\ DOMAIN d \subseteq Peer /\ d \in [DOMAIN d -> [score : Nat, retries : Nat]]
         /\ \A p \in DOMAIN d : d[p].score \in Nat /\ d[p].retries \in Nat
BY DEF PeerData

\* What is read of a message of each kind.
LEMMA MessageIs ==
  ASSUME NEW m \in SyncMessage
  PROVE  /\ m.kind = "GetExtension" =>
              m.ids \in Seq(Block) /\ DOMAIN m.scores \subseteq Peer
              /\ m.scores \in [DOMAIN m.scores -> Nat]
         /\ m.kind = "Signatures" => m.ids \in PartOfChain /\ m.from \in Peer
         /\ m.kind = "Block" => m.block \in Block /\ m.from \in Peer
         /\ m.kind = "TimeoutExceeded" => TaskInv(m.task)
BY DEF SyncMessage

\* Taking a message leaves the others, each a place earlier.
LEMMA ReceivedLeaves ==
  ASSUME syncBox \in Seq(SyncMessage), NEW kind, Received(kind)
  PROVE  /\ msg = syncBox[1] /\ msg \in SyncMessage /\ msg.kind = kind
         /\ syncBox' \in Seq(SyncMessage) /\ Len(syncBox) \in Nat \ {0}
         /\ Len(syncBox') = Len(syncBox) - 1
         /\ \A i \in 1..Len(syncBox') : syncBox'[i] = syncBox[i + 1]
<1>1. /\ syncBox # <<>> /\ syncBox' = Tail(syncBox) /\ msg = syncBox[1]
      /\ 1 \in 1..Len(syncBox) /\ msg.kind = kind
  BY DEF Received, msg
<1>2. msg \in SyncMessage
  BY <1>1
<1>3. /\ Tail(syncBox) \in Seq(SyncMessage) /\ Len(Tail(syncBox)) = Len(syncBox) - 1
      /\ \A i \in 1..Len(Tail(syncBox)) : Tail(syncBox)[i] = syncBox[i + 1]
  BY <1>1
<1>. QED BY <1>1, <1>2, <1>3

LEMMA RequestsAre ==
  ASSUME NEW t, TaskInv(t), NEW p, NEW missing \in Seq(Block)
  PROVE  Requests(t, p, missing) \in Seq(Request)
<1>1. t \in Behaviour /\ t.ids \in Seq(Block)
  BY DEF TaskInv, Behaviour
<1>2. CASE t.stage = "GettingExtension"
  <2>. DEFINE r == [kind |-> "GetSignatures", ids |-> t.ids]
  <2>1. r \in Request
    BY <1>1 DEF Request
  <2>. HIDE DEF r
  <2>2. Requests(t, p, missing) = IF p \in DOMAIN t.peers THEN <<r>> ELSE <<>>
    BY <1>2 DEF Requests, r
  <2>. QED BY <2>1, <2>2
<1>3. CASE t.stage = "GettingExtensionTail"
  <2>1. t.common \in Block /\ t.ids # <<>>
    BY <1>1, <1>3 DEF TaskInv, TaskOK
  <2>2. Reverse(LastTwo(t)) \in Seq(Block)
    BY <1>1, <2>1, LastTwoOf, ReverseSeq
  <2>. DEFINE r == [kind |-> "GetSignatures", ids |-> Reverse(LastTwo(t))]
  <2>3. r \in Request
    BY <2>2 DEF Request
  <2>. HIDE DEF r
  <2>4. Requests(t, p, missing) = IF p = t.active THEN <<r>> ELSE <<>>
    BY <1>3 DEF Requests, r
  <2>. QED BY <2>3, <2>4
<1>4. CASE t.stage = "GettingBlocks"
  <2>1. MinForkChunks \in Nat
    BY SynchronizerAssumption
  <2>2. PICK k \in 0..Len(missing) : Len(Take(missing, MinForkChunks)) = k
            /\ Take(missing, MinForkChunks) \in Seq(Block)
    BY <2>1, TakeOf
  <2>. DEFINE s == [i \in DOMAIN Take(missing, MinForkChunks) |->
                      [kind |-> "GetBlock", ids |-> <<missing[i]>>]]
  <2>3. DOMAIN Take(missing, MinForkChunks) = 1..k /\ k \in Nat
    BY <2>2
  <2>4. \A i \in 1..k : [kind |-> "GetBlock", ids |-> <<missing[i]>>] \in Request
    BY <2>2 DEF Request
  <2>5. s \in Seq(Request)
    BY <2>3, <2>4
  <2>. HIDE DEF s
  <2>6. Requests(t, p, missing) = IF p = t.active THEN s ELSE <<>>
    BY <1>4 DEF Requests, s
  <2>. QED BY <2>5, <2>6
<1>. QED BY <1>1, <1>2, <1>3, <1>4 DEF Behaviour

\* Sending to the peers leaves the blacklisted ones without requests.
LEMMA SendKeeps ==
  ASSUME AskedInv, NEW t, TaskInv(t), NEW missing \in Seq(Block), blacklisted' \subseteq Peer,
         Send(t, missing)
  PROVE  AskedInv'
<1>1. ASSUME NEW p \in Peer
      PROVE  asked[p] \o Requests(t, p, missing) \in Seq(Request)
  <2>1. asked[p] \in Seq(Request) /\ Requests(t, p, missing) \in Seq(Request)
    BY RequestsAre DEF AskedInv
  <2>. QED BY <2>1
<1>2. asked' = [p \in Peer |-> IF p \in blacklisted' THEN <<>>
                               ELSE asked[p] \o Requests(t, p, missing)]
  BY DEF Send
<1>. DEFINE next(p) == asked[p] \o Requests(t, p, missing)
<1>3. \A p \in Peer : next(p) \in Seq(Request)
  BY <1>1
<1>4. asked' = [p \in Peer |-> IF p \in blacklisted' THEN <<>> ELSE next(p)]
  BY <1>2
<1>. HIDE DEF next
<1>. QED BY <1>3, <1>4 DEF AskedInv

LEMMA BeforeDoesNotMatter ==
  ASSUME NEW t, TaskInv(t), NEW n \in Nat
  PROVE  TaskInv([t EXCEPT !.before = n])
BY DEF TaskInv, TaskOK, Behaviour

LEMMA RunKeeps ==
  ASSUME AskedInv, ForkInv', blacklisted' \subseteq Peer, NEW t, TaskInv(t), Run(t)
  PROVE  AskedInv' /\ TaskInv(task)'
<1>1. Cardinality(DOMAIN forkBlocks') \in Nat
  BY BlocksAreCounted DEF ForkInv
<1>2. MissingOf(forkIds', forkBlocks') \in Seq(Block)
  BY MissingIsSeq DEF ForkInv
<1>3. TaskInv(task')
  BY <1>1, BeforeDoesNotMatter DEF Run
<1>4. TaskInv(task)'
  BY <1>3 DEF TaskInv, TaskOK, Behaviour, Attached
<1>5. AskedInv'
  BY <1>2, SendKeeps DEF Run
<1>. QED BY <1>4, <1>5

LEMMA BlacklistKeeps ==
  ASSUME AskedInv, NEW ps, ps \subseteq Peer, Blacklist(ps)
  PROVE  AskedInv'
BY DEF AskedInv, Blacklist

LEMMA ToCoordinatorKeeps ==
  ASSUME coordBox \in Seq(CoordMessage), NEW m \in CoordMessage, ToCoordinator(m)
  PROVE  /\ coordBox' \in Seq(CoordMessage) /\ Len(coordBox') = Len(coordBox) + 1
         /\ Len(coordBox) \in Nat /\ Last(coordBox') = m
         /\ \A i \in 1..Len(coordBox) : coordBox'[i] = coordBox[i]
BY DEF ToCoordinator, Last

LEMMA FinishKeeps ==
  ASSUME coordBox \in Seq(CoordMessage), NEW result \in Fork \cup {None}, Finish(result)
  PROVE  coordBox' \in Seq(CoordMessage) /\ Idle'
<1>1. [kind |-> "SyncFinished", result |-> result] \in CoordMessage
  BY DEF CoordMessage
<1>. QED BY <1>1, ToCoordinatorKeeps DEF Finish, Idle

LEMMA FinishUnsuccessfullyKeeps ==
  ASSUME SyncInv, NEW blamed, blamed \subseteq Peer, FinishUnsuccessfully(blamed)
  PROVE  coordBox' \in Seq(CoordMessage) /\ Idle' /\ AskedInv' /\ ForkInv'
<1>1. coordBox' \in Seq(CoordMessage) /\ Idle'
  BY FinishKeeps DEF SyncInv, BoxesInv, FinishUnsuccessfully
<1>2. AskedInv'
  BY BlacklistKeeps DEF SyncInv, FinishUnsuccessfully
<1>3. ForkInv'
  BY DEF SyncInv, FinishUnsuccessfully, ForkInv, forkVars
<1>. QED BY <1>1, <1>2, <1>3

-----------------------------------------------------------------------------
(* The steps of the synchronizer *)

\* A behaviour that has found the common block, whatever its stage was.
Ready(t) ==
  /\ t \in Behaviour /\ t.active \in DOMAIN t.peers /\ t.common \in Block
  /\ \A p \in DOMAIN t.peers : t.peers[p].retries < RetriesBeforeBlacklisted
  /\ Attached(t.ids, t.common)

LEMMA ReadyPeer ==
  ASSUME NEW t, Ready(t)
  PROVE  t.active \in Peer /\ t.common \in Block /\ t.ids \in Seq(Block)
BY OfPeerData DEF Ready, Behaviour

LEMMA ScoreOfIsNat ==
  ASSUME NEW chain, IsChain(chain), NEW id
  PROVE  ScoreOf(chain, id) \in Nat
<1>1. CASE Has(chain, id)
  <2>1. UpTo(chain, id) \in Seq(Block)
    BY <1>1, UpToIsChain DEF IsChain
  <2>. QED BY <1>1, <2>1, ScoreIsNat DEF ScoreOf
<1>2. CASE ~Has(chain, id)
  BY <1>2 DEF ScoreOf
<1>. QED BY <1>1, <1>2

\* Ids that follow a block are filled into the fork storage without a gap.
LEMMA InitializeKeeps ==
  ASSUME NEW ids \in Seq(Block), NEW common, Attached(ids, common), NEW n \in Nat,
         Initialize(Chunk(ids), n)
  PROVE  ForkInv' /\ Attached(forkIds', common)
<1>1. ForkMaxLength \in Nat
  BY SynchronizerAssumption
<1>2. /\ forkIds' = Take(ids, ForkMaxLength) /\ forkBlocks' = <<>> /\ forkBase' = n
  BY DEF Initialize, Chunk
<1>3. /\ Take(ids, ForkMaxLength) \in Seq(Block) /\ Len(Take(ids, ForkMaxLength)) <= ForkMaxLength
  <2>1. PICK k \in 0..Len(ids) : /\ k <= ForkMaxLength /\ Len(Take(ids, ForkMaxLength)) = k
                                 /\ Take(ids, ForkMaxLength) \in Seq(Block)
    BY <1>1, TakeOf
  <2>. QED BY <2>1
<1>4. Attached(Take(ids, ForkMaxLength), common)
  BY <1>1, AttachedTake
<1>5. IsInjective(Take(ids, ForkMaxLength))
  BY <1>3, <1>4, AttachedInjective
<1>6. forkBlocks' \in [DOMAIN forkBlocks' -> Peer] /\ DOMAIN forkBlocks' = {}
  BY <1>2
<1>7. IsInjective(forkIds')
  BY <1>2, <1>5
<1>8. IsInjective(forkIds)'
  BY <1>7 DEF IsInjective
<1>. QED BY <1>2, <1>3, <1>4, <1>6, <1>8 DEF ForkInv

\* The fork storage was filled for the present behaviour.
Filled ==
  /\ Attached(forkIds', task'.common) /\ task'.common \in Block
  /\ forkBlocks' = <<>> /\ forkBase' = ScoreOf(history, task'.common)

\* The behaviour goes on, and the fork storage is filled exactly when it asks for
\* blocks from now on.
FillsInTime ==
  IF Stage' = "GettingBlocks" THEN Filled ELSE UNCHANGED forkVars

LEMMA ContinueKeeps ==
  ASSUME SyncInv, NEW t, Ready(t), NEW tail \in Seq(Block),
         Attached(tail, IF t.ids = <<>> THEN t.common ELSE t.ids[Len(t.ids)]),
         Continue(t, tail)
  PROVE  /\ ForkInv' /\ AskedInv' /\ coordBox' \in Seq(CoordMessage)
         /\ Idle' \/ TaskInv(task)'
         /\ FillsInTime
<1>. DEFINE ids == t.ids \o tail
            fork == Chunk(ids)
            more == [t EXCEPT !.stage = "GettingExtensionTail", !.ids = ids, !.runs = 1]
            blocks == [t EXCEPT !.stage = "GettingBlocks", !.ids = <<>>, !.runs = 1]
<1>1. ids \in Seq(Block) /\ Attached(ids, t.common)
  BY AttachedMore, ReadyPeer DEF Ready
<1>2. OperationRetries \in Nat \ {0} /\ 1 \in 1..OperationRetries
  BY SynchronizerAssumption
<1>3. CASE /\ Len(ids) <= ForkMaxLength /\ tail # <<>>
           /\ UNCHANGED <<forkVars, coordBox, blacklisted>> /\ Run(more)
  <2>1. Len(ids) \in 1..ForkMaxLength
    <3>1. Len(ids) = Len(t.ids) + Len(tail) /\ Len(tail) \in Nat \ {0} /\ Len(t.ids) \in Nat
      BY <1>3, ReadyPeer
    <3>2. ForkMaxLength \in Nat
      BY SynchronizerAssumption
    <3>. QED BY <1>3, <3>1, <3>2
  <2>. HIDE DEF ids
  <2>2. /\ more \in Behaviour /\ more.stage = "GettingExtensionTail" /\ more.ids = ids
        /\ more.common = t.common /\ more.active = t.active /\ more.peers = t.peers
        /\ more.runs = 1
    BY <1>1 DEF Ready, Behaviour
  <2>. HIDE DEF more
  <2>3. TaskInv(more)
    BY <1>1, <1>2, <2>1, <2>2 DEF Ready, TaskInv, TaskOK
  <2>4. ForkInv' /\ AskedInv /\ blacklisted' \subseteq Peer
    BY <1>3 DEF SyncInv, AskedInv, ForkInv, forkVars
  <2>5. AskedInv' /\ TaskInv(task)'
    BY <1>3, <2>3, <2>4, RunKeeps
  <2>6. coordBox' \in Seq(CoordMessage)
    BY <1>3 DEF SyncInv, BoxesInv
  <2>7. Stage' # "GettingBlocks"
    BY <1>3, <2>2 DEF Run, Stage, Behaviour
  <2>. QED BY <1>3, <2>4, <2>5, <2>6, <2>7 DEF FillsInTime
<1>4. CASE FinishUnsuccessfully({t.active})
  <2>1. Stage' # "GettingBlocks" /\ UNCHANGED forkVars
    BY <1>4 DEF FinishUnsuccessfully, Finish, Stage, Idle
  <2>. QED BY <1>4, <2>1, ReadyPeer, FinishUnsuccessfullyKeeps DEF FillsInTime
<1>5. CASE /\ Initialize(fork, ScoreOf(history, t.common))
           /\ UNCHANGED <<coordBox, blacklisted>> /\ Run(blocks)
  <2>. HIDE DEF ids
  <2>1. /\ blocks \in Behaviour /\ blocks.stage = "GettingBlocks"
        /\ blocks.common = t.common /\ blocks.active = t.active /\ blocks.peers = t.peers
        /\ blocks.runs = 1
    <3>1. <<>> \in Seq(Block) /\ 1 \in Nat
      OBVIOUS
    <3>. QED BY <3>1 DEF Ready, Behaviour
  <2>. HIDE DEF blocks
  <2>2. TaskInv(blocks)
    BY <1>2, <2>1 DEF Ready, TaskInv, TaskOK
  <2>3. ScoreOf(history, t.common) \in Nat
    BY ScoreOfIsNat DEF SyncInv
  <2>4. /\ ForkInv' /\ AskedInv /\ blacklisted' \subseteq Peer
        /\ Attached(forkIds', t.common)
    BY <1>1, <1>5, <2>3, InitializeKeeps DEF SyncInv, AskedInv
  <2>5. AskedInv' /\ TaskInv(task)'
    BY <1>5, <2>2, <2>4, RunKeeps
  <2>6. coordBox' \in Seq(CoordMessage)
    BY <1>5 DEF SyncInv, BoxesInv
  <2>7. task'.common = t.common /\ task' \in Behaviour /\ task'.stage = "GettingBlocks"
    <3>1. Cardinality(DOMAIN forkBlocks') \in Nat
      BY <2>4, BlocksAreCounted DEF ForkInv
    <3>. QED BY <1>5, <2>1, <3>1 DEF Run, Behaviour
  <2>8. forkBlocks' = <<>> /\ forkBase' = ScoreOf(history, t.common) /\ t.common \in Block
    BY <1>5 DEF Initialize, Ready
  <2>9. Filled
    BY <2>4, <2>7, <2>8 DEF Filled
  <2>10. FillsInTime
    <3>1. ~Idle' /\ Stage' = "GettingBlocks"
      BY <2>7, SynchronizerAssumption DEF Idle, Stage
    <3>. QED BY <2>9, <3>1 DEF FillsInTime
  <2>. QED BY <2>4, <2>5, <2>6, <2>10
<1>. QED BY <1>3, <1>4, <1>5 DEF Continue

\* An extension: the part of a chain that came, after the last common block.
LEMMA ExtensionReady ==
  ASSUME SyncInv, Stage = "GettingExtension", NEW from, from \in DOMAIN task.peers,
         NEW ids \in PartOfChain, NEW n \in 1..Len(ids), NEW peers,
         peers \in {task.peers, [p \in {from} |-> task.peers[p]]}
  PROVE  Ready([task EXCEPT !.common = ids[n], !.ids = <<>>, !.peers = peers, !.active = from])
<1>1. TaskInv(task) /\ task.stage = "GettingExtension"
  BY DEF SyncInv, Stage, Idle
<1>2. /\ task \in Behaviour /\ task.peers \in PeerData
      /\ \A p \in DOMAIN task.peers : task.peers[p].retries = 0
  BY <1>1 DEF TaskInv, Behaviour
<1>3. RetriesBeforeBlacklisted \in Nat \ {0}
  BY SynchronizerAssumption
<1>4. /\ DOMAIN task.peers \subseteq Peer
      /\ task.peers \in [DOMAIN task.peers -> [score : Nat, retries : Nat]]
  BY <1>2, OfPeerData
<1>5. peers \in PeerData /\ from \in DOMAIN peers /\ \A p \in DOMAIN peers : peers[p].retries = 0
  <2>1. CASE peers = task.peers
    BY <1>2, <2>1
  <2>2. CASE peers = [p \in {from} |-> task.peers[p]]
    <3>1. {from} \subseteq Peer /\ peers \in [{from} -> [score : Nat, retries : Nat]]
      BY <1>4, <2>2
    <3>2. peers \in PeerData
      BY <3>1, PeerDataIs
    <3>. QED BY <1>2, <2>2, <3>2
  <2>. QED BY <2>1, <2>2
<1>6. ids[n] \in Block
  BY DEF PartOfChain
<1>. DEFINE t == [task EXCEPT !.common = ids[n], !.ids = <<>>, !.peers = peers, !.active = from]
<1>7. /\ t \in Behaviour /\ t.ids = <<>> /\ t.common = ids[n] /\ t.active = from /\ t.peers = peers
  <2>1. <<>> \in Seq(Block) /\ from \in Peer
    BY <1>4
  <2>. QED BY <1>2, <1>5, <1>6, <2>1 DEF Behaviour
<1>. HIDE DEF t
<1>8. Attached(t.ids, t.common)
  BY <1>7 DEF Attached
<1>9. Ready(t)
  BY <1>3, <1>5, <1>6, <1>7, <1>8 DEF Ready
<1>. QED BY <1>9 DEF t

LEMMA TailReady ==
  ASSUME SyncInv, Stage = "GettingExtensionTail"
  PROVE  Ready(task) /\ task.ids # <<>>
<1>1. TaskInv(task) /\ task.stage = "GettingExtensionTail"
  BY DEF SyncInv, Stage, Idle
<1>2. Len(task.ids) \in 1..ForkMaxLength
  BY <1>1 DEF TaskInv, TaskOK
<1>3. task.ids # <<>>
  BY <1>2
<1>. QED BY <1>1, <1>3 DEF TaskInv, TaskOK, Ready

LEMMA SameChain ==
  ASSUME IsChain(history), UNCHANGED history
  PROVE  IsChain(history)'
BY DEF IsChain, Linked

LEMMA SameTask ==
  ASSUME Idle \/ TaskInv(task), UNCHANGED task
  PROVE  (Idle \/ TaskInv(task))'
BY DEF Idle, TaskInv, TaskOK, Behaviour, Attached

LEMMA SameFork ==
  ASSUME ForkInv, UNCHANGED forkVars
  PROVE  ForkInv'
BY DEF ForkInv, forkVars

LEMMA GetExtensionKeeps ==
  ASSUME SyncInv, GetExtension
  PROVE  SyncInv'
<1>1. /\ Received("GetExtension")
      /\ UNCHANGED history /\ UNCHANGED forkVars /\ UNCHANGED coordBox /\ UNCHANGED blacklisted
  BY DEF GetExtension
<1>2. msg \in SyncMessage /\ msg.kind = "GetExtension" /\ syncBox' \in Seq(SyncMessage)
  BY <1>1, ReceivedLeaves DEF SyncInv, BoxesInv
<1>3. /\ msg.ids \in Seq(Block) /\ DOMAIN msg.scores \subseteq Peer
      /\ msg.scores \in [DOMAIN msg.scores -> Nat]
  BY <1>2, MessageIs
<1>. DEFINE peers == [p \in DOMAIN msg.scores |-> [score |-> msg.scores[p], retries |-> 0]]
            t == [stage |-> "GettingExtension", common |-> None, ids |-> msg.ids,
                  peers |-> peers, active |-> None, changed |-> FALSE, runs |-> 1, before |-> 0]
<1>4. peers \in PeerData /\ \A p \in DOMAIN peers : peers[p].retries = 0
  <2>1. peers \in [DOMAIN msg.scores -> [score : Nat, retries : Nat]]
    BY <1>3
  <2>2. peers \in PeerData
    BY <1>3, <2>1, PeerDataIs
  <2>. QED BY <2>2
<1>. HIDE DEF peers
<1>5. Run(t)
  BY DEF GetExtension, peers
<1>6. 1 \in 1..OperationRetries
  BY SynchronizerAssumption
<1>7. TaskInv(t)
  BY <1>3, <1>4, <1>6 DEF TaskInv, TaskOK, Behaviour
<1>. HIDE DEF t
<1>8. ForkInv' /\ blacklisted' \subseteq Peer /\ AskedInv
  BY <1>1, SameFork DEF SyncInv, AskedInv
<1>9. AskedInv' /\ TaskInv(task)'
  BY <1>5, <1>7, <1>8, RunKeeps
<1>10. IsChain(history)' /\ BoxesInv'
  BY <1>1, <1>2, SameChain DEF SyncInv, BoxesInv
<1>. QED BY <1>8, <1>9, <1>10 DEF SyncInv

LEMMA ExtensionReceivedKeeps ==
  ASSUME SyncInv, ExtensionReceived
  PROVE  SyncInv' /\ FillsInTime
<1>. DEFINE n == CommonLength(msg.ids)
            tail == SubSeq(msg.ids, n + 1, Len(msg.ids))
            peers == IF PinToInitialPeer
                     THEN [p \in {msg.from} |-> task.peers[p]] ELSE task.peers
            t == [task EXCEPT !.common = msg.ids[n], !.ids = <<>>,
                              !.peers = peers, !.active = msg.from]
<1>1. /\ Received("Signatures") /\ UNCHANGED history /\ Stage = "GettingExtension"
      /\ msg.from \in DOMAIN task.peers
      /\ \/ \E ps \in SUBSET {msg.from} : FinishUnsuccessfully(ps)
         \/ n > 0 /\ tail # <<>> /\ Continue(t, tail)
  BY Zenon DEF ExtensionReceived
<1>2. msg \in SyncMessage /\ msg.kind = "Signatures" /\ syncBox' \in Seq(SyncMessage)
  BY <1>1, ReceivedLeaves DEF SyncInv, BoxesInv
<1>3. msg.ids \in PartOfChain /\ msg.from \in Peer
  BY <1>2, MessageIs
<1>4. n \in 0..Len(msg.ids)
  BY <1>3, CommonIsKnown DEF PartOfChain
<1>5. /\ ForkInv' /\ AskedInv' /\ coordBox' \in Seq(CoordMessage)
      /\ Idle' \/ TaskInv(task)'
      /\ FillsInTime
  <2>1. CASE \E ps \in SUBSET {msg.from} : FinishUnsuccessfully(ps)
    <3>1. Stage' # "GettingBlocks" /\ UNCHANGED forkVars
      BY <2>1 DEF FinishUnsuccessfully, Finish, Stage, Idle
    <3>. QED BY <1>3, <2>1, <3>1, FinishUnsuccessfullyKeeps DEF FillsInTime
  <2>2. CASE n > 0 /\ tail # <<>> /\ Continue(t, tail)
    <3>1. n \in 1..Len(msg.ids) /\ Continue(t, tail)
      BY <1>4, <2>2
    <3>2. peers \in {task.peers, [p \in {msg.from} |-> task.peers[p]]}
      OBVIOUS
    <3>. HIDE DEF n
    <3>3. tail \in Seq(Block) /\ Attached(tail, msg.ids[n])
      BY <1>3, <3>1, LinkedRest DEF PartOfChain
    <3>. HIDE DEF peers
    <3>4. Ready(t)
      BY <1>1, <1>3, <3>1, <3>2, ExtensionReady
    <3>5. t.ids = <<>> /\ t.common = msg.ids[n]
      <4>1. task \in Behaviour
        BY <1>1 DEF SyncInv, TaskInv, Stage, Idle
      <4>. QED BY <4>1 DEF Behaviour
    <3>. HIDE DEF t, tail
    <3>. QED BY <3>1, <3>3, <3>4, <3>5, ContinueKeeps
  <2>. QED BY <1>1, <2>1, <2>2
<1>6. IsChain(history)' /\ BoxesInv'
  BY <1>1, <1>2, <1>5, SameChain DEF SyncInv, BoxesInv
<1>. QED BY <1>5, <1>6 DEF SyncInv

\* The rest of an answer that overlaps with what there is goes on from it.
LEMMA TailFollows ==
  ASSUME NEW ids \in PartOfChain
  PROVE  Tail(ids) \in Seq(Block) /\ Attached(Tail(ids), Head(ids))
<1>1. ids \in Seq(Block) /\ Linked(ids) /\ Len(ids) \in Nat \ {0}
  BY DEF PartOfChain
<1>2. 1 \in 1..Len(ids) /\ Head(ids) = ids[1] /\ 1 + 1 = 2
  BY <1>1
<1>3. SubSeq(ids, 2, Len(ids)) \in Seq(Block) /\ Attached(SubSeq(ids, 2, Len(ids)), ids[1])
  BY <1>1, <1>2, LinkedRest
<1>4. Tail(ids) = SubSeq(ids, 2, Len(ids))
  BY <1>1
<1>. QED BY <1>2, <1>3, <1>4

LEMMA TailReceivedKeeps ==
  ASSUME SyncInv, TailReceived
  PROVE  SyncInv' /\ FillsInTime
<1>1. /\ Received("Signatures") /\ UNCHANGED history /\ Stage = "GettingExtensionTail"
      /\ \/ FinishUnsuccessfully({msg.from})
         \/ UNCHANGED <<task, forkVars, coordBox, asked, blacklisted>>
         \/ Continue(task, <<>>)
         \/ Follows(LastTwo(task), msg.ids) /\ Continue(task, Tail(msg.ids))
  BY Zenon DEF TailReceived
<1>2. msg \in SyncMessage /\ msg.kind = "Signatures" /\ syncBox' \in Seq(SyncMessage)
  BY <1>1, ReceivedLeaves DEF SyncInv, BoxesInv
<1>3. msg.ids \in PartOfChain /\ msg.from \in Peer
  BY <1>2, MessageIs
<1>4. Ready(task) /\ task.ids # <<>>
  BY <1>1, TailReady
<1>5. /\ ForkInv' /\ AskedInv' /\ coordBox' \in Seq(CoordMessage)
      /\ Idle' \/ TaskInv(task)'
      /\ FillsInTime
  <2>1. CASE FinishUnsuccessfully({msg.from})
    <3>1. Stage' # "GettingBlocks" /\ UNCHANGED forkVars
      BY <2>1 DEF FinishUnsuccessfully, Finish, Stage, Idle
    <3>. QED BY <1>3, <2>1, <3>1, FinishUnsuccessfullyKeeps DEF FillsInTime
  <2>2. CASE UNCHANGED <<task, forkVars, coordBox, asked, blacklisted>>
    <3>1. Stage' # "GettingBlocks" /\ UNCHANGED forkVars
      BY <1>1, <2>2 DEF Stage, Idle
    <3>. QED BY <2>2, <3>1, SameTask, SameFork DEF SyncInv, AskedInv, BoxesInv, FillsInTime
  <2>3. CASE Continue(task, <<>>)
    <3>1. <<>> \in Seq(Block) /\ \A b : Attached(<<>>, b)
      BY DEF Attached
    <3>. QED BY <1>4, <2>3, <3>1, ContinueKeeps
  <2>4. CASE Follows(LastTwo(task), msg.ids) /\ Continue(task, Tail(msg.ids))
    <3>1. Head(msg.ids) = task.ids[Len(task.ids)]
      BY <1>4, <2>4, LastTwoOf, ReadyPeer DEF Follows
    <3>2. /\ Tail(msg.ids) \in Seq(Block)
          /\ Attached(Tail(msg.ids), task.ids[Len(task.ids)])
      BY <1>3, <3>1, TailFollows
    <3>. QED BY <1>4, <2>4, <3>2, ContinueKeeps
  <2>. QED BY <1>1, <2>1, <2>2, <2>3, <2>4
<1>6. IsChain(history)' /\ BoxesInv'
  BY <1>1, <1>2, <1>5, SameChain DEF SyncInv, BoxesInv
<1>. QED BY <1>5, <1>6 DEF SyncInv

LEMMA BlocksTask ==
  ASSUME SyncInv, Stage = "GettingBlocks"
  PROVE  /\ TaskInv(task) /\ task # None /\ task \in Behaviour /\ task.stage = "GettingBlocks"
         /\ task.active \in Peer /\ task.common \in Block /\ task.active \in DOMAIN task.peers
<1>1. TaskInv(task) /\ task # None /\ task.stage = "GettingBlocks" /\ task \in Behaviour
  BY DEF SyncInv, Stage, Idle, TaskInv
<1>2. task.active \in DOMAIN task.peers /\ task.common \in Block
  BY <1>1 DEF TaskInv, TaskOK
<1>3. DOMAIN task.peers \subseteq Peer
  BY <1>1, OfPeerData DEF Behaviour
<1>. QED BY <1>1, <1>2, <1>3

\* Who is named with the fork, and what the Coordinator is told.
Author(t) == IF t.changed THEN None ELSE t.active

TheFork(t) == [common |-> t.common, ids |-> forkIds, from |-> Author(t)]

\* What a block that arrives for the first time leads to.
LEMMA ForkBlockReceivedIs ==
  ASSUME SyncInv, ForkBlockReceived
  PROVE  /\ Received("Block") /\ UNCHANGED history /\ Stage = "GettingBlocks"
         /\ msg.from = task.active /\ AddBlockToFork(msg.block, msg.from)
         /\ msg.block \in ToSet(forkIds)
         /\ \/ /\ CumulativeBlockScore(forkIds, forkBlocks') > Score(history)
               /\ Finish(TheFork(task)) /\ UNCHANGED <<asked, blacklisted>>
            \/ Finish(None) /\ Blacklist({Author(task)} \ {None})
            \/ UNCHANGED <<task, coordBox, asked, blacklisted>>
BY DEF ForkBlockReceived, TheFork, Author

LEMMA ForkBlockReceivedKeeps ==
  ASSUME SyncInv, ForkBlockReceived
  PROVE  SyncInv'
<1>1. /\ Received("Block") /\ UNCHANGED history /\ Stage = "GettingBlocks"
      /\ msg.from = task.active /\ AddBlockToFork(msg.block, msg.from)
      /\ msg.block \in ToSet(forkIds)
      /\ \/ Finish(TheFork(task)) /\ UNCHANGED <<asked, blacklisted>>
         \/ Finish(None) /\ Blacklist({Author(task)} \ {None})
         \/ UNCHANGED <<task, coordBox, asked, blacklisted>>
  BY ForkBlockReceivedIs
<1>2. msg \in SyncMessage /\ msg.kind = "Block" /\ syncBox' \in Seq(SyncMessage)
  BY <1>1, ReceivedLeaves DEF SyncInv, BoxesInv
<1>3. msg.block \in Block /\ msg.from \in Peer
  BY <1>2, MessageIs
<1>4. TaskInv(task) /\ task.common \in Block /\ task.active \in Peer
  BY <1>1, BlocksTask
<1>5. ForkInv'
  BY <1>1, <1>3 DEF AddBlockToFork, SyncInv, ForkInv, ToSet, IsInjective
<1>6. AskedInv' /\ coordBox' \in Seq(CoordMessage) /\ (Idle \/ TaskInv(task))'
  <2>1. CASE Finish(TheFork(task)) /\ UNCHANGED <<asked, blacklisted>>
    <3>1. TheFork(task) \in Fork
      BY <1>4 DEF TheFork, Author, Fork, SyncInv, ForkInv
    <3>2. coordBox' \in Seq(CoordMessage) /\ Idle'
      BY <2>1, <3>1, FinishKeeps DEF SyncInv, BoxesInv
    <3>. QED BY <2>1, <3>2 DEF SyncInv, AskedInv
  <2>2. CASE Finish(None) /\ Blacklist({Author(task)} \ {None})
    <3>1. {Author(task)} \ {None} \subseteq Peer
      BY <1>4 DEF Author
    <3>2. coordBox' \in Seq(CoordMessage) /\ Idle'
      BY <2>2, FinishKeeps DEF SyncInv, BoxesInv
    <3>. QED BY <2>2, <3>1, <3>2, BlacklistKeeps DEF SyncInv
  <2>3. CASE UNCHANGED <<task, coordBox, asked, blacklisted>>
    BY <2>3, SameTask DEF SyncInv, AskedInv, BoxesInv
  <2>. QED BY <1>1, <2>1, <2>2, <2>3
<1>7. IsChain(history)' /\ BoxesInv'
  BY <1>1, <1>2, <1>6, SameChain DEF SyncInv, BoxesInv
<1>. QED BY <1>5, <1>6, <1>7 DEF SyncInv

LEMMA ForkBlockAgainKeeps ==
  ASSUME SyncInv, ForkBlockAgain
  PROVE  SyncInv'
<1>1. /\ Received("Block") /\ UNCHANGED history /\ Stage = "GettingBlocks"
      /\ UNCHANGED task /\ UNCHANGED forkVars /\ UNCHANGED coordBox /\ UNCHANGED blacklisted
      /\ Send(task, IdsWithoutBlock) \/ UNCHANGED asked
  BY DEF ForkBlockAgain
<1>2. syncBox' \in Seq(SyncMessage)
  BY <1>1, ReceivedLeaves DEF SyncInv, BoxesInv
<1>3. TaskInv(task)
  BY <1>1, BlocksTask
<1>4. AskedInv'
  <2>1. CASE Send(task, IdsWithoutBlock)
    <3>1. IdsWithoutBlock \in Seq(Block)
      BY MissingIsSeq DEF SyncInv, ForkInv, IdsWithoutBlock
    <3>. QED BY <1>1, <1>3, <2>1, <3>1, SendKeeps DEF SyncInv, AskedInv
  <2>2. CASE UNCHANGED asked
    BY <1>1, <2>2 DEF SyncInv, AskedInv
  <2>. QED BY <1>1, <2>1, <2>2
<1>5. IsChain(history)' /\ BoxesInv' /\ ForkInv' /\ (Idle \/ TaskInv(task))'
  BY <1>1, <1>2, SameChain, SameFork, SameTask DEF SyncInv, BoxesInv
<1>. QED BY <1>4, <1>5 DEF SyncInv

LEMMA OtherBlockKeeps ==
  ASSUME SyncInv, OtherBlock
  PROVE  SyncInv'
<1>. DEFINE m == [kind |-> "AddBlock", block |-> msg.block, from |-> msg.from]
<1>1. /\ Received("Block") /\ ToCoordinator(m)
      /\ UNCHANGED history /\ UNCHANGED task /\ UNCHANGED forkVars
      /\ UNCHANGED asked /\ UNCHANGED blacklisted
  BY DEF OtherBlock
<1>2. msg \in SyncMessage /\ msg.kind = "Block" /\ syncBox' \in Seq(SyncMessage)
  BY <1>1, ReceivedLeaves DEF SyncInv, BoxesInv
<1>3. m \in CoordMessage
  BY <1>2, MessageIs DEF CoordMessage
<1>. HIDE DEF m
<1>4. coordBox' \in Seq(CoordMessage)
  BY <1>1, <1>3, ToCoordinatorKeeps DEF SyncInv, BoxesInv
<1>5. AskedInv'
  BY <1>1 DEF SyncInv, AskedInv
<1>6. IsChain(history)' /\ BoxesInv' /\ ForkInv' /\ (Idle \/ TaskInv(task))'
  BY <1>1, <1>2, <1>4, SameChain, SameFork, SameTask DEF SyncInv, BoxesInv
<1>. QED BY <1>5, <1>6 DEF SyncInv

LEMMA IgnoredKeeps ==
  ASSUME SyncInv, Ignored
  PROVE  SyncInv'
<1>1. /\ \E kind \in {"GetExtension", "TimeoutExceeded", "Signatures"} : Received(kind)
      /\ UNCHANGED history /\ UNCHANGED task /\ UNCHANGED forkVars /\ UNCHANGED coordBox
      /\ UNCHANGED asked /\ UNCHANGED blacklisted
  BY DEF Ignored
<1>2. syncBox' \in Seq(SyncMessage)
  BY <1>1, ReceivedLeaves DEF SyncInv, BoxesInv
<1>3. AskedInv'
  BY <1>1 DEF SyncInv, AskedInv
<1>4. IsChain(history)' /\ BoxesInv' /\ ForkInv' /\ (Idle \/ TaskInv(task))'
  BY <1>1, <1>2, SameChain, SameFork, SameTask DEF SyncInv, BoxesInv
<1>. QED BY <1>3, <1>4 DEF SyncInv

-----------------------------------------------------------------------------
(* Timeouts *)

\* A behaviour with an active peer.
Active(t) ==
  /\ TaskInv(t) /\ t \in Behaviour /\ t.stage # "GettingExtension" /\ t.active \in DOMAIN t.peers
  /\ t.active \in Peer /\ DOMAIN t.peers \subseteq Peer
  /\ t.peers \in [DOMAIN t.peers -> [score : Nat, retries : Nat]]
  /\ \A p \in DOMAIN t.peers : t.peers[p].retries < RetriesBeforeBlacklisted

LEMMA IsActive ==
  ASSUME NEW t, TaskInv(t), t.active # None
  PROVE  Active(t)
<1>1. t \in Behaviour /\ t.stage # "GettingExtension"
  BY DEF TaskInv
<1>2. /\ t.active \in DOMAIN t.peers
      /\ \A p \in DOMAIN t.peers : t.peers[p].retries < RetriesBeforeBlacklisted
  BY <1>1 DEF TaskInv, TaskOK
<1>3. t.active \in Peer /\ t.peers \in PeerData
  BY <1>1 DEF Behaviour
<1>. QED BY <1>1, <1>2, <1>3, OfPeerData DEF Active

\* The peers left are some of those there were, none of them to be blacklisted.
LEMMA PeersLeftAre ==
  ASSUME NEW t, Active(t)
  PROVE  /\ PeersLeft(t) \in PeerData /\ DOMAIN PeersLeft(t) \subseteq DOMAIN t.peers
         /\ \A p \in DOMAIN PeersLeft(t) : PeersLeft(t)[p].retries < RetriesBeforeBlacklisted
<1>. DEFINE retried == [t.peers EXCEPT ![t.active].retries = @ + 1]
            left == {p \in DOMAIN t.peers : /\ t.peers[p].score >= t.peers[t.active].score
                                            /\ p = t.active => ~TooOften(t)}
<1>1. PeersLeft(t) = [p \in left |-> retried[p]]
  BY Zenon DEF PeersLeft, Restrict
<1>2. left \subseteq DOMAIN t.peers /\ (t.active \in left => ~TooOften(t))
  OBVIOUS
<1>3. retried \in [DOMAIN t.peers -> [score : Nat, retries : Nat]]
  BY DEF Active
<1>4. ASSUME NEW p \in left PROVE retried[p].retries < RetriesBeforeBlacklisted
  <2>1. CASE p = t.active
    <3>1. t.peers[p].retries \in Nat /\ RetriesBeforeBlacklisted \in Nat
      BY <1>2, SynchronizerAssumption DEF Active
    <3>2. retried[p].retries = t.peers[p].retries + 1
      BY <1>2, <2>1 DEF Active
    <3>. QED BY <1>2, <2>1, <3>1, <3>2 DEF TooOften
  <2>2. CASE p # t.active
    <3>1. retried[p] = t.peers[p]
      BY <1>2, <2>2 DEF Active
    <3>. QED BY <1>2, <3>1 DEF Active
  <2>. QED BY <2>1, <2>2
<1>. HIDE DEF retried, left
<1>5. [p \in left |-> retried[p]] \in [left -> [score : Nat, retries : Nat]] /\ left \subseteq Peer
  BY <1>2, <1>3 DEF Active
<1>6. PeersLeft(t) \in PeerData
  BY <1>1, <1>5, PeerDataIs
<1>7. DOMAIN PeersLeft(t) = left
  BY <1>1
<1>. QED BY <1>1, <1>2, <1>4, <1>6, <1>7

LEMMA NextActiveIsLeft ==
  ASSUME NEW t, NEW peers, NEW p \in NextActive(t, peers)
  PROVE  /\ p \in DOMAIN peers
         /\ p = t.active => DOMAIN peers \subseteq {t.active}
BY DEF NextActive

Resumed(t, p) ==
  [t EXCEPT !.peers = PeersLeft(t), !.active = p,
            !.changed = ActiveChanged(t, p), !.runs = @ + 1]

LEMMA TimeoutIs ==
  ASSUME SyncInv, Timeout
  PROVE  /\ Received("TimeoutExceeded") /\ UNCHANGED history /\ ~Idle
         /\ \/ \E ps \in SUBSET ({msg.task.active} \ {None}) : FinishUnsuccessfully(ps)
            \/ /\ msg.task.runs < OperationRetries /\ msg.task.active # None
               /\ UNCHANGED <<forkVars, coordBox>>
               /\ \E ps \in SUBSET {msg.task.active} : blacklisted' = blacklisted \cup ps
               /\ \E p \in NextActive(msg.task, PeersLeft(msg.task)) : Run(Resumed(msg.task, p))
<1>. DEFINE t == msg.task
            again == t.runs < OperationRetries /\ t.active # None
            blamed == IF again /\ PinToInitialPeer /\ TooOften(t) THEN {t.active} ELSE {}
<1>1. blamed \in SUBSET ({t.active} \ {None}) /\ blamed \in SUBSET {t.active}
  OBVIOUS
<1>2. /\ Received("TimeoutExceeded") /\ UNCHANGED history /\ ~Idle
      /\ \/ FinishUnsuccessfully(blamed)
         \/ /\ again /\ UNCHANGED <<forkVars, coordBox>> /\ blacklisted' = blacklisted \cup blamed
            /\ \E p \in NextActive(t, PeersLeft(t)) : Run(Resumed(t, p))
  BY Zenon DEF Timeout, Resumed
<1>. HIDE DEF blamed
<1>. QED BY <1>1, <1>2

LEMMA ResumedIs ==
  ASSUME NEW t, Active(t), NEW p \in NextActive(t, PeersLeft(t))
  PROVE  /\ Resumed(t, p).stage = t.stage /\ Resumed(t, p).common = t.common
         /\ Resumed(t, p).ids = t.ids /\ Resumed(t, p).active = p
         /\ Resumed(t, p).peers = PeersLeft(t)
         /\ Resumed(t, p).changed = ActiveChanged(t, p)
         /\ Resumed(t, p).runs = t.runs + 1 /\ Resumed(t, p) \in Behaviour
<1>1. PICK peers \in PeerData : peers = PeersLeft(t)
  BY PeersLeftAre
<1>2. t \in Behaviour /\ t.runs + 1 \in Nat
  BY DEF Active, Behaviour
<1>3. PICK changed \in BOOLEAN : changed = ActiveChanged(t, p)
  BY <1>2 DEF ActiveChanged, Behaviour
<1>4. p \in Peer
  BY NextActiveIsLeft, PeersLeftAre DEF Active
<1>. DEFINE u == [t EXCEPT !.peers = peers, !.active = p, !.changed = changed, !.runs = @ + 1]
<1>5. u.stage = t.stage /\ u.common = t.common /\ u.ids = t.ids
  BY <1>2 DEF Behaviour
<1>6. u.active = p /\ u.peers = peers /\ u.changed = changed
  BY <1>2 DEF Behaviour
<1>7. u.runs = t.runs + 1
  BY <1>2 DEF Behaviour
<1>8. u \in Behaviour
  BY <1>2, <1>4 DEF Behaviour
<1>9. Resumed(t, p) = u
  BY <1>1, <1>3, Zenon DEF Resumed
<1>. HIDE DEF u
<1>. QED BY <1>1, <1>3, <1>5, <1>6, <1>7, <1>8, <1>9

LEMMA ResumedKeeps ==
  ASSUME NEW t, Active(t), t.runs < OperationRetries, NEW p \in NextActive(t, PeersLeft(t))
  PROVE  TaskInv(Resumed(t, p))
<1>. DEFINE u == Resumed(t, p)
<1>1. /\ u.stage = t.stage /\ u.common = t.common /\ u.ids = t.ids /\ u.active = p
      /\ u.peers = PeersLeft(t) /\ u.runs = t.runs + 1 /\ u \in Behaviour
  BY ResumedIs DEF u
<1>. HIDE DEF u
<1>2. u.runs \in 1..OperationRetries
  BY <1>1, SynchronizerAssumption DEF Active, Behaviour
<1>3. /\ p \in DOMAIN PeersLeft(t)
      /\ \A q \in DOMAIN PeersLeft(t) : PeersLeft(t)[q].retries < RetriesBeforeBlacklisted
  BY NextActiveIsLeft, PeersLeftAre
<1>4. t.stage # "GettingExtension" /\ TaskInv(t)
  BY DEF Active
<1>5. TaskInv(u)
  BY <1>1, <1>2, <1>3, <1>4 DEF TaskInv, TaskOK
<1>. QED BY <1>5 DEF u

LEMMA TimeoutKeeps ==
  ASSUME SyncInv, Timeout
  PROVE  SyncInv'
<1>1. /\ Received("TimeoutExceeded") /\ UNCHANGED history
      /\ \/ \E ps \in SUBSET ({msg.task.active} \ {None}) : FinishUnsuccessfully(ps)
         \/ /\ msg.task.runs < OperationRetries /\ msg.task.active # None
            /\ UNCHANGED <<forkVars, coordBox>>
            /\ \E ps \in SUBSET {msg.task.active} : blacklisted' = blacklisted \cup ps
            /\ \E p \in NextActive(msg.task, PeersLeft(msg.task)) : Run(Resumed(msg.task, p))
  BY TimeoutIs
<1>2. msg \in SyncMessage /\ msg.kind = "TimeoutExceeded" /\ syncBox' \in Seq(SyncMessage)
  BY <1>1, ReceivedLeaves DEF SyncInv, BoxesInv
<1>3. TaskInv(msg.task)
  BY <1>2, MessageIs
<1>4. ForkInv' /\ AskedInv' /\ coordBox' \in Seq(CoordMessage) /\ (Idle \/ TaskInv(task))'
  <2>1. CASE \E ps \in SUBSET ({msg.task.active} \ {None}) : FinishUnsuccessfully(ps)
    <3>1. msg.task.active \in Peer \cup {None}
      BY <1>3 DEF TaskInv, Behaviour
    <3>. QED BY <2>1, <3>1, FinishUnsuccessfullyKeeps
  <2>2. CASE /\ msg.task.runs < OperationRetries /\ msg.task.active # None
             /\ UNCHANGED <<forkVars, coordBox>>
             /\ \E ps \in SUBSET {msg.task.active} : blacklisted' = blacklisted \cup ps
             /\ \E p \in NextActive(msg.task, PeersLeft(msg.task)) : Run(Resumed(msg.task, p))
    <3>1. Active(msg.task)
      BY <1>3, <2>2, IsActive
    <3>2. PICK p \in NextActive(msg.task, PeersLeft(msg.task)) : Run(Resumed(msg.task, p))
      BY <2>2
    <3>3. TaskInv(Resumed(msg.task, p))
      BY <2>2, <3>1, ResumedKeeps
    <3>4. ForkInv' /\ blacklisted' \subseteq Peer /\ AskedInv
      BY <2>2, <3>1, SameFork DEF SyncInv, AskedInv, Active
    <3>5. AskedInv' /\ TaskInv(task)'
      BY <3>2, <3>3, <3>4, RunKeeps
    <3>6. coordBox' \in Seq(CoordMessage)
      BY <2>2 DEF SyncInv, BoxesInv
    <3>. QED BY <3>4, <3>5, <3>6
  <2>. QED BY <1>1, <2>1, <2>2
<1>5. IsChain(history)' /\ BoxesInv'
  BY <1>1, <1>2, <1>4, SameChain DEF SyncInv, BoxesInv
<1>. QED BY <1>4, <1>5 DEF SyncInv

LEMMA TimerFiresKeeps ==
  ASSUME SyncInv, TimerFires
  PROVE  SyncInv' /\ Len(syncBox') = Len(syncBox) + 1
<1>. DEFINE m == [kind |-> "TimeoutExceeded", task |-> [task EXCEPT !.before = 0]]
<1>1. /\ ~Idle /\ syncBox' = Append(syncBox, m)
      /\ UNCHANGED history /\ UNCHANGED task /\ UNCHANGED forkVars /\ UNCHANGED coordBox
      /\ UNCHANGED asked /\ UNCHANGED blacklisted
  BY DEF TimerFires
<1>2. m \in SyncMessage
  <2>1. TaskInv([task EXCEPT !.before = 0])
    BY <1>1, BeforeDoesNotMatter DEF SyncInv
  <2>2. [task EXCEPT !.before = 0] \in Behaviour
    BY <2>1 DEF TaskInv
  <2>. QED BY <2>1, <2>2 DEF SyncMessage
<1>. HIDE DEF m
<1>3. syncBox' \in Seq(SyncMessage) /\ Len(syncBox') = Len(syncBox) + 1
  BY <1>1, <1>2 DEF SyncInv, BoxesInv
<1>4. AskedInv'
  BY <1>1 DEF SyncInv, AskedInv
<1>5. IsChain(history)' /\ BoxesInv' /\ ForkInv' /\ (Idle \/ TaskInv(task))'
  BY <1>1, <1>3, SameChain, SameFork, SameTask DEF SyncInv, BoxesInv
<1>. QED BY <1>3, <1>4, <1>5 DEF SyncInv

-----------------------------------------------------------------------------
(* The other steps of the node *)

LEMMA ChainsOfPeers ==
  /\ IsChain(LocalChain)
  /\ \A p \in Peer : IsChain(PeerChain[p]) /\ AnswerLength[p] \in Nat
BY NodeAssumption DEF IsChain

LEMMA AnswerIs ==
  ASSUME NEW chain, IsChain(chain), NEW p \in Peer, NEW request \in Request
  PROVE  /\ Answer(chain, p, request) \subseteq SyncMessage
         /\ Answer(chain, p, request) = {} \/ \E m : Answer(chain, p, request) = {m}
         /\ \A m \in Answer(chain, p, request) : m.kind # "TimeoutExceeded"
<1>1. CASE request.kind = "GetSignatures"
  <2>. DEFINE ids == SignaturesAfter(chain, request.ids, AnswerLength[p])
  <2>1. Answer(chain, p, request) =
          IF ids = <<>> THEN {} ELSE {[kind |-> "Signatures", ids |-> ids, from |-> p]}
    BY <1>1 DEF Answer
  <2>2. ids = <<>> \/ ids \in PartOfChain
    BY <1>1, ChainsOfPeers, SignaturesArePart DEF Request
  <2>. DEFINE m == [kind |-> "Signatures", ids |-> ids, from |-> p]
  <2>3. ids # <<>> => m \in SyncMessage /\ m.kind # "TimeoutExceeded"
    BY <2>2 DEF SyncMessage
  <2>4. Answer(chain, p, request) = IF ids = <<>> THEN {} ELSE {m}
    BY <2>1
  <2>. HIDE DEF ids, m
  <2>. QED BY <2>3, <2>4
<1>2. CASE request.kind = "GetBlock"
  <2>1. PICK c \in Block : request.ids = <<c>>
    BY <1>2 DEF Request
  <2>2. ToSet(request.ids) = {c}
    BY <2>1 DEF ToSet
  <2>. DEFINE m == [kind |-> "Block", block |-> c, from |-> p]
  <2>3. Answer(chain, p, request) =
          {[kind |-> "Block", block |-> b, from |-> p] : b \in {c} \cap ToSet(chain)}
    BY <1>2, <2>2 DEF Answer
  <2>4. Answer(chain, p, request) = {} \/ Answer(chain, p, request) = {m}
    BY <2>3
  <2>5. m \in SyncMessage /\ m.kind # "TimeoutExceeded"
    BY DEF SyncMessage
  <2>. HIDE DEF m
  <2>. QED BY <2>4, <2>5
<1>. QED BY <1>1, <1>2 DEF Request

\* A request leaves the queue of a peer that is not blacklisted.
LEMMA RequestLeaves ==
  ASSUME AskedInv, NEW p \in Peer, asked[p] # <<>>, UNCHANGED blacklisted,
         asked' = [asked EXCEPT ![p] = Tail(@)]
  PROVE  AskedInv' /\ Head(asked[p]) \in Request
<1>1. asked[p] \in Seq(Request) /\ p \notin blacklisted
  BY DEF AskedInv
<1>2. Tail(asked[p]) \in Seq(Request) /\ Head(asked[p]) \in Request
  BY <1>1
<1>. QED BY <1>1, <1>2 DEF AskedInv

LEMMA ReplyKeeps ==
  ASSUME NodeInv, NEW p \in Peer, Reply(p)
  PROVE  NodeInv'
<1>. DEFINE answer == SetToSeq(Answer(PeerChain[p], p, Head(asked[p])))
<1>1. /\ asked[p] # <<>> /\ asked' = [asked EXCEPT ![p] = Tail(@)] /\ syncBox' = syncBox \o answer
      /\ UNCHANGED history /\ UNCHANGED task /\ UNCHANGED forkVars /\ UNCHANGED coordBox
      /\ UNCHANGED blacklisted /\ UNCHANGED applying /\ UNCHANGED older /\ UNCHANGED mixed
  BY DEF Reply, coordinatorVars, ghosts
<1>2. AskedInv' /\ Head(asked[p]) \in Request
  BY <1>1, RequestLeaves DEF NodeInv, SyncInv
<1>3. answer \in Seq(SyncMessage)
  <2>1. /\ Answer(PeerChain[p], p, Head(asked[p])) \subseteq SyncMessage
        /\ \/ Answer(PeerChain[p], p, Head(asked[p])) = {}
           \/ \E m : Answer(PeerChain[p], p, Head(asked[p])) = {m}
    BY <1>2, AnswerIs, ChainsOfPeers
  <2>. QED BY <2>1, FewInSeq
<1>. HIDE DEF answer
<1>4. syncBox' \in Seq(SyncMessage) /\ older' \in 0..Len(syncBox')
  <2>1. /\ syncBox \in Seq(SyncMessage) /\ syncBox \o answer \in Seq(SyncMessage)
        /\ Len(syncBox \o answer) = Len(syncBox) + Len(answer)
        /\ Len(syncBox) \in Nat /\ Len(answer) \in Nat /\ older \in 0..Len(syncBox)
    BY <1>3 DEF NodeInv, SyncInv, BoxesInv
  <2>. QED BY <1>1, <2>1
<1>5. IsChain(history)' /\ BoxesInv' /\ ForkInv' /\ (Idle \/ TaskInv(task))'
  BY <1>1, <1>4, SameChain, SameFork, SameTask DEF NodeInv, SyncInv, BoxesInv
<1>. QED BY <1>1, <1>2, <1>4, <1>5 DEF NodeInv, SyncInv, ApplyInv

LEMMA LoseKeeps ==
  ASSUME NodeInv, NEW p \in Peer, Lose(p)
  PROVE  NodeInv'
<1>1. /\ asked[p] # <<>> /\ asked' = [asked EXCEPT ![p] = Tail(@)] /\ UNCHANGED syncBox
      /\ UNCHANGED history /\ UNCHANGED task /\ UNCHANGED forkVars /\ UNCHANGED coordBox
      /\ UNCHANGED blacklisted /\ UNCHANGED applying /\ UNCHANGED older /\ UNCHANGED mixed
  BY DEF Lose, coordinatorVars, ghosts
<1>2. AskedInv'
  BY <1>1, RequestLeaves DEF NodeInv, SyncInv
<1>3. IsChain(history)' /\ BoxesInv' /\ ForkInv' /\ (Idle \/ TaskInv(task))'
  BY <1>1, SameChain, SameFork, SameTask DEF NodeInv, SyncInv, BoxesInv
<1>. QED BY <1>1, <1>2, <1>3 DEF NodeInv, SyncInv, ApplyInv

\* Scores that some peers may have reported.
Reported == UNION {[S -> Nat] : S \in SUBSET Peer}

\* The Coordinator asks for a download, whoever told it the scores.
Considered(scores) ==
  QuorumReached(scores) /\ ConsideredValue(scores) /\ UNCHANGED ghosts

\* What is better of some scores are scores.
LEMMA BetterIsReported ==
  ASSUME NEW scores \in Reported
  PROVE  Better(scores) \in Reported
<1>1. PICK S \in SUBSET Peer : scores \in [S -> Nat]
  BY DEF Reported
<1>2. /\ Better(scores) \in [DOMAIN Better(scores) -> Nat]
      /\ DOMAIN Better(scores) \subseteq Peer
  BY <1>1 DEF Better, Restrict
<1>. QED BY <1>2 DEF Reported

LEMMA ConsideredKeeps ==
  ASSUME NodeInv, NEW scores \in Reported, Considered(scores)
  PROVE  NodeInv'
<1>. DEFINE m == [kind |-> "GetExtension", scores |-> Better(scores),
                  ids |-> LastBlockIds(history, MaxRollback)]
<1>1. /\ syncBox' = Append(syncBox, m) /\ UNCHANGED asked
      /\ UNCHANGED history /\ UNCHANGED task /\ UNCHANGED forkVars /\ UNCHANGED coordBox
      /\ UNCHANGED blacklisted /\ UNCHANGED applying /\ UNCHANGED older /\ UNCHANGED mixed
  BY DEF Considered, ConsideredValue, coordinatorVars, ghosts
<1>2. m \in SyncMessage
  <2>1. LastBlockIds(history, MaxRollback) \in Seq(Block)
    BY LastBlockIdsAreBlocks, CoordinatorAssumption DEF NodeInv, SyncInv
  <2>2. Better(scores) \in Reported
    BY BetterIsReported
  <2>. QED BY <2>1, <2>2 DEF SyncMessage, Reported
<1>. HIDE DEF m
<1>3. syncBox' \in Seq(SyncMessage) /\ older' \in 0..Len(syncBox')
  <2>1. /\ syncBox \in Seq(SyncMessage) /\ Append(syncBox, m) \in Seq(SyncMessage)
        /\ Len(Append(syncBox, m)) = Len(syncBox) + 1
        /\ Len(syncBox) \in Nat /\ older \in 0..Len(syncBox)
    BY <1>2 DEF NodeInv, SyncInv, BoxesInv
  <2>. QED BY <1>1, <2>1
<1>4. AskedInv'
  BY <1>1 DEF NodeInv, SyncInv, AskedInv
<1>5. IsChain(history)' /\ BoxesInv' /\ ForkInv' /\ (Idle \/ TaskInv(task))'
  BY <1>1, <1>3, SameChain, SameFork, SameTask DEF NodeInv, SyncInv, BoxesInv
<1>. QED BY <1>1, <1>3, <1>4, <1>5 DEF NodeInv, SyncInv, ApplyInv

LEMMA MineKeeps ==
  ASSUME NodeInv, NEW b \in Block, Mine(b)
  PROVE  NodeInv'
<1>. DEFINE m == [kind |-> "AddBlock", block |-> b, from |-> None]
<1>1. /\ ToCoordinator(m) /\ UNCHANGED asked /\ UNCHANGED syncBox
      /\ UNCHANGED history /\ UNCHANGED task /\ UNCHANGED forkVars
      /\ UNCHANGED blacklisted /\ UNCHANGED applying /\ UNCHANGED older /\ UNCHANGED mixed
  BY DEF Mine, coordinatorVars, ghosts
<1>2. coordBox' \in Seq(CoordMessage)
  <2>1. m \in CoordMessage
    BY DEF CoordMessage
  <2>. QED BY <1>1, <2>1, ToCoordinatorKeeps DEF NodeInv, SyncInv, BoxesInv
<1>3. AskedInv'
  BY <1>1 DEF NodeInv, SyncInv, AskedInv
<1>4. IsChain(history)' /\ BoxesInv' /\ ForkInv' /\ (Idle \/ TaskInv(task))'
  BY <1>1, <1>2, SameChain, SameFork, SameTask DEF NodeInv, SyncInv, BoxesInv
<1>. QED BY <1>1, <1>3, <1>4 DEF NodeInv, SyncInv, ApplyInv

-----------------------------------------------------------------------------
(* The steps of the Coordinator *)

LEMMA TookLeaves ==
  ASSUME coordBox \in Seq(CoordMessage), NEW kind, Took(kind)
  PROVE  message \in CoordMessage /\ message.kind = kind /\ coordBox' \in Seq(CoordMessage)
<1>1. coordBox # <<>> /\ coordBox' = Tail(coordBox) /\ message = coordBox[1] /\ 1 \in 1..Len(coordBox)
  BY DEF Took, message
<1>2. message \in CoordMessage /\ Tail(coordBox) \in Seq(CoordMessage)
  BY <1>1
<1>. QED BY <1>1, <1>2 DEF Took

LEMMA SyncFinishedKeeps ==
  ASSUME NodeInv, SyncFinished, UNCHANGED ghosts
  PROVE  NodeInv'
<1>1. /\ Took("SyncFinished") /\ UNCHANGED asked /\ UNCHANGED syncBox
      /\ UNCHANGED older /\ UNCHANGED mixed
      /\ UNCHANGED task /\ UNCHANGED forkVars /\ UNCHANGED blacklisted
      /\ \/ UNCHANGED history /\ UNCHANGED applying
         \/ /\ message.result # None
            /\ applying' = [rest |-> message.result.ids, from |-> message.result.from]
            /\ history' = IF Has(history, message.result.common)
                          THEN UpTo(history, message.result.common) ELSE history
  BY DEF SyncFinished, coordinatorVars, ghosts
<1>2. /\ message \in CoordMessage /\ message.kind = "SyncFinished"
      /\ coordBox' \in Seq(CoordMessage)
  BY <1>1, TookLeaves DEF NodeInv, SyncInv, BoxesInv
<1>3. message.result \in Fork \cup {None}
  BY <1>2 DEF CoordMessage
<1>4. IsChain(history) /\ IsChain(history')
  BY <1>1, UpToIsChain DEF NodeInv, SyncInv
<1>5. IsChain(history)'
  BY <1>4 DEF IsChain, Linked
<1>6. ApplyInv'
  <2>1. CASE UNCHANGED applying
    BY <2>1 DEF NodeInv, ApplyInv
  <2>2. CASE /\ message.result # None
             /\ applying' = [rest |-> message.result.ids, from |-> message.result.from]
    BY <1>3, <2>2 DEF Fork, ApplyInv
  <2>. QED BY <1>1, <2>1, <2>2
<1>7. AskedInv'
  BY <1>1 DEF NodeInv, SyncInv, AskedInv
<1>8. BoxesInv' /\ ForkInv' /\ (Idle \/ TaskInv(task))'
  BY <1>1, <1>2, SameFork, SameTask DEF NodeInv, SyncInv, BoxesInv
<1>. QED BY <1>1, <1>5, <1>6, <1>7, <1>8 DEF NodeInv, SyncInv

LEMMA AddBlockKeeps ==
  ASSUME NodeInv, AddBlock, UNCHANGED ghosts
  PROVE  NodeInv'
<1>1. /\ Took("AddBlock") /\ UNCHANGED asked /\ UNCHANGED syncBox /\ UNCHANGED applying
      /\ UNCHANGED task /\ UNCHANGED forkVars /\ UNCHANGED blacklisted
      /\ UNCHANGED older /\ UNCHANGED mixed
      /\ \/ UNCHANGED history
         \/ Ref[message.block] = Last(history) /\ history' = Append(history, message.block)
  BY DEF AddBlock, coordinatorVars, ToBeAdded, ghosts
<1>2. /\ message \in CoordMessage /\ message.kind = "AddBlock"
      /\ coordBox' \in Seq(CoordMessage)
  BY <1>1, TookLeaves DEF NodeInv, SyncInv, BoxesInv
<1>3. message.block \in Block
  BY <1>2 DEF CoordMessage
<1>4. IsChain(history')
  BY <1>1, <1>3, AppendIsChain DEF NodeInv, SyncInv
<1>5. IsChain(history)'
  BY <1>4 DEF IsChain, Linked
<1>6. AskedInv'
  BY <1>1 DEF NodeInv, SyncInv, AskedInv
<1>7. BoxesInv' /\ ForkInv' /\ (Idle \/ TaskInv(task))'
  BY <1>1, <1>2, SameFork, SameTask DEF NodeInv, SyncInv, BoxesInv
<1>. QED BY <1>1, <1>5, <1>6, <1>7 DEF NodeInv, SyncInv, ApplyInv

LEMMA ForkEndsKeeps ==
  ASSUME NodeInv, ForkEnds, UNCHANGED ghosts
  PROVE  NodeInv'
<1>1. /\ UNCHANGED asked /\ UNCHANGED syncBox /\ UNCHANGED coordBox /\ UNCHANGED history
      /\ UNCHANGED task /\ UNCHANGED forkVars /\ UNCHANGED blacklisted
      /\ UNCHANGED older /\ UNCHANGED mixed /\ applying' = None
  BY DEF ForkEnds, syncVars, ghosts
<1>2. AskedInv' /\ BoxesInv'
  BY <1>1 DEF NodeInv, SyncInv, AskedInv, BoxesInv
<1>3. IsChain(history)' /\ ForkInv' /\ (Idle \/ TaskInv(task))'
  BY <1>1, SameChain, SameFork, SameTask DEF NodeInv, SyncInv
<1>. QED BY <1>1, <1>2, <1>3 DEF NodeInv, SyncInv, ApplyInv

LEMMA ForkBlockAppliedKeeps ==
  ASSUME NodeInv, ForkBlockApplied, UNCHANGED ghosts
  PROVE  NodeInv'
<1>1. PICK b \in DOMAIN forkBlocks :
        /\ applying # None /\ applying.rest # <<>> /\ Ref[b] = Last(history)
        /\ history' = Append(history, b)
        /\ applying' = [applying EXCEPT !.rest = Tail(@)]
        /\ UNCHANGED asked /\ UNCHANGED syncBox /\ UNCHANGED coordBox
        /\ UNCHANGED task /\ UNCHANGED forkVars /\ UNCHANGED blacklisted
        /\ UNCHANGED older /\ UNCHANGED mixed
  BY DEF ForkBlockApplied, NextForkBlock, Appendable, ghosts
<1>2. b \in Block
  <2>1. b \in ToSet(forkIds) /\ forkIds \in Seq(Block)
    BY DEF NodeInv, SyncInv, ForkInv
  <2>. QED BY <2>1 DEF ToSet
<1>3. IsChain(history')
  BY <1>1, <1>2, AppendIsChain DEF NodeInv, SyncInv
<1>4. IsChain(history)'
  BY <1>3 DEF IsChain, Linked
<1>5. ApplyInv'
  <2>1. applying \in [rest : Seq(Block), from : Peer \cup {None}]
    BY <1>1 DEF NodeInv, ApplyInv
  <2>2. Tail(applying.rest) \in Seq(Block)
    BY <1>1, <2>1
  <2>. QED BY <1>1, <2>1, <2>2 DEF ApplyInv
<1>6. AskedInv' /\ BoxesInv'
  BY <1>1 DEF NodeInv, SyncInv, AskedInv, BoxesInv
<1>7. ForkInv' /\ (Idle \/ TaskInv(task))'
  BY <1>1, SameFork, SameTask DEF NodeInv, SyncInv
<1>. QED BY <1>1, <1>4, <1>5, <1>6, <1>7 DEF NodeInv, SyncInv

LEMMA ForkBlockFailsKeeps ==
  ASSUME NodeInv, ForkBlockFails, UNCHANGED ghosts
  PROVE  NodeInv'
<1>1. /\ applying # None /\ applying' = None
      /\ \E ps \in SUBSET ({applying.from} \ {None}) : Blacklist(ps)
      /\ UNCHANGED history /\ UNCHANGED syncBox /\ UNCHANGED coordBox
      /\ UNCHANGED task /\ UNCHANGED forkVars
      /\ UNCHANGED older /\ UNCHANGED mixed
  BY DEF ForkBlockFails, NextForkBlock, ghosts
<1>2. AskedInv'
  <2>1. applying \in [rest : Seq(Block), from : Peer \cup {None}]
    BY <1>1 DEF NodeInv, ApplyInv
  <2>2. {applying.from} \ {None} \subseteq Peer
    BY <2>1
  <2>. QED BY <1>1, <2>2, BlacklistKeeps DEF NodeInv, SyncInv
<1>3. BoxesInv'
  BY <1>1 DEF NodeInv, SyncInv, BoxesInv
<1>4. IsChain(history)' /\ ForkInv' /\ (Idle \/ TaskInv(task))'
  BY <1>1, SameChain, SameFork, SameTask DEF NodeInv, SyncInv
<1>. QED BY <1>1, <1>2, <1>3, <1>4 DEF NodeInv, SyncInv, ApplyInv

-----------------------------------------------------------------------------

LEMMA SynchronizeKeeps ==
  ASSUME SyncInv, Synchronize
  PROVE  SyncInv' /\ Len(syncBox') = Len(syncBox) - 1 /\ Len(syncBox) \in Nat \ {0}
<1>1. SyncInv'
  BY GetExtensionKeeps, ExtensionReceivedKeeps, TailReceivedKeeps, ForkBlockReceivedKeeps,
     ForkBlockAgainKeeps, OtherBlockKeeps, IgnoredKeeps, TimeoutKeeps DEF Synchronize
<1>2. \/ Received("GetExtension") \/ Received("Signatures") \/ Received("Block")
      \/ Received("TimeoutExceeded")
  BY Zenon DEF Synchronize, GetExtension, ExtensionReceived, TailReceived, ForkBlockReceived,
         ForkBlockAgain, OtherBlock, Ignored, Timeout
<1>. QED BY <1>1, <1>2, ReceivedLeaves DEF SyncInv, BoxesInv

LEMMA TakeNextKeeps ==
  ASSUME NodeInv, TakeNext, UNCHANGED coordinatorVars
  PROVE  NodeInv'
<1>1. SyncInv' /\ Len(syncBox') = Len(syncBox) - 1 /\ Len(syncBox) \in Nat \ {0}
  BY SynchronizeKeeps DEF NodeInv, TakeNext
<1>2. older' \in 0..Len(syncBox')
  <2>1. older \in 0..Len(syncBox)
    BY DEF NodeInv
  <2>2. older' = IF Fills THEN Len(syncBox') ELSE IF older > 0 THEN older - 1 ELSE 0
    BY DEF TakeNext
  <2>. QED BY <1>1, <2>1, <2>2
<1>3. mixed' \in BOOLEAN
  BY DEF TakeNext
<1>4. ApplyInv'
  BY DEF NodeInv, ApplyInv, coordinatorVars
<1>. QED BY <1>1, <1>2, <1>3, <1>4 DEF NodeInv

LEMMA TimerTicksKeeps ==
  ASSUME NodeInv, TimerTicks
  PROVE  NodeInv'
<1>1. SyncInv' /\ Len(syncBox') = Len(syncBox) + 1 /\ Len(syncBox) \in Nat
  BY TimerFiresKeeps DEF NodeInv, TimerTicks, SyncInv, BoxesInv
<1>2. UNCHANGED older /\ UNCHANGED mixed /\ UNCHANGED applying
  BY DEF TimerTicks, ghosts, coordinatorVars
<1>. QED BY <1>1, <1>2 DEF NodeInv, ApplyInv

LEMMA CoordinateKeeps ==
  ASSUME NodeInv, Coordinate, UNCHANGED ghosts
  PROVE  NodeInv'
BY SyncFinishedKeeps, AddBlockKeeps, ForkEndsKeeps, ForkBlockAppliedKeeps, ForkBlockFailsKeeps
   DEF Coordinate, ghosts

LEMMA StutterKeeps ==
  ASSUME NodeInv, UNCHANGED nodeVars
  PROVE  NodeInv'
<1>1. /\ UNCHANGED asked /\ UNCHANGED syncBox /\ UNCHANGED coordBox /\ UNCHANGED history
      /\ UNCHANGED task /\ UNCHANGED forkVars /\ UNCHANGED blacklisted
      /\ UNCHANGED older /\ UNCHANGED mixed /\ UNCHANGED applying
  BY DEF nodeVars, syncVars, coordinatorVars, ghosts
<1>2. AskedInv' /\ BoxesInv'
  BY <1>1 DEF NodeInv, SyncInv, AskedInv, BoxesInv
<1>3. IsChain(history)' /\ ForkInv' /\ (Idle \/ TaskInv(task))'
  BY <1>1, SameChain, SameFork, SameTask DEF NodeInv, SyncInv
<1>. QED BY <1>1, <1>2, <1>3 DEF NodeInv, SyncInv, ApplyInv

\* A step of the node, where the scores that are considered may come from
\* anywhere.
NodeStep == [Next]_nodeVars \/ \E scores \in Reported : Considered(scores)

LEMMA ConsiderIs ==
  ASSUME NEW ps \in SUBSET Peer, Consider(ps)
  PROVE  \E scores \in Reported : Considered(scores)
<1>1. \A p \in ps : Score(PeerChain[p]) \in Nat
  BY ChainsOfPeers, ScoreIsNat DEF IsChain
<1>2. Scores(ps) \in [ps -> Nat]
  BY <1>1 DEF Scores
<1>3. Scores(ps) \in Reported /\ Considered(Scores(ps))
  BY <1>2 DEF Reported, Considered, Consider
<1>. QED BY <1>3

LEMMA NodeInit == Init => NodeInv
<1>. SUFFICES ASSUME Init PROVE NodeInv
  OBVIOUS
<1>1. /\ history = LocalChain /\ task = None /\ syncBox = <<>> /\ coordBox = <<>>
      /\ asked = [p \in Peer |-> <<>>] /\ blacklisted = {} /\ forkIds = <<>>
      /\ forkBlocks = <<>> /\ forkBase = 0 /\ applying = None /\ older = 0 /\ mixed = FALSE
  BY DEF Init, SyncInit, ForkInit, CoordinatorInit
<1>2. IsChain(history)
  BY <1>1, ChainsOfPeers
<1>3. ForkInv
  <2>1. /\ forkIds \in Seq(Block) /\ Len(forkIds) = 0 /\ DOMAIN forkIds = {}
        /\ DOMAIN forkBlocks = {} /\ forkBlocks \in [DOMAIN forkBlocks -> Peer]
    BY <1>1
  <2>. QED BY <1>1, <2>1, SynchronizerAssumption DEF ForkInv, IsInjective
<1>4. AskedInv /\ BoxesInv
  BY <1>1 DEF AskedInv, BoxesInv
<1>5. SyncInv
  BY <1>1, <1>2, <1>3, <1>4 DEF SyncInv, Idle
<1>6. older \in 0..Len(syncBox)
  BY <1>1
<1>. QED BY <1>1, <1>5, <1>6 DEF NodeInv, ApplyInv

LEMMA NodeNext == NodeInv /\ NodeStep => NodeInv'
<1>. SUFFICES ASSUME NodeInv, NodeStep PROVE NodeInv'
  OBVIOUS
<1>1. CASE TakeNext /\ UNCHANGED <<coordinatorVars, counters>>
  BY <1>1, TakeNextKeeps
<1>2. CASE Coordinate /\ UNCHANGED <<counters, ghosts>>
  BY <1>2, CoordinateKeeps
<1>3. CASE TimerTicks
  BY <1>3, TimerTicksKeeps
<1>4. CASE \E p \in Peer : Reply(p) \/ Lose(p)
  BY <1>4, ReplyKeeps, LoseKeeps
<1>5. CASE \E scores \in Reported : Considered(scores)
  BY <1>5, ConsideredKeeps
<1>6. CASE \E b \in Block : Mine(b)
  BY <1>6, MineKeeps
<1>7. CASE UNCHANGED nodeVars
  BY <1>7, StutterKeeps
<1>. QED BY <1>1, <1>2, <1>3, <1>4, <1>5, <1>6, <1>7, ConsiderIs DEF Next, NodeStep

LEMMA NodeInvImpliesTypeOK == NodeInv => TypeOK
<1>. SUFFICES ASSUME NodeInv PROVE TypeOK
  OBVIOUS
<1>1. Idle \/ TaskOK(task)
  BY DEF NodeInv, SyncInv, TaskInv
<1>2. \A i \in DOMAIN coordBox : coordBox[i].kind \in {"AddBlock", "SyncFinished"}
  <2>1. \A i \in DOMAIN coordBox : coordBox[i] \in CoordMessage
    BY DEF NodeInv, SyncInv, BoxesInv
  <2>2. \A m \in CoordMessage : m.kind \in {"AddBlock", "SyncFinished"}
    BY DEF CoordMessage
  <2>. QED BY <2>1, <2>2
<1>. QED BY <1>1, <1>2 DEF NodeInv, SyncInv, IsChain, ForkInv, AskedInv, TypeOK

\* The synchronizer's data stays in its limits: runs and retries below their
\* bounds, the active peer among the peers, a fork of at most ForkMaxLength ids,
\* each once, and only blocks of its own (BlockchainSynchronizer.scala:79-116,
\* 148-173, 202-242; StoredBlockSeq.scala:23-39).
THEOREM NodeTypesHold == Spec => []TypeOK
<1>1. Spec => []NodeInv
  <2>1. [Next]_nodeVars => NodeStep
    BY DEF NodeStep
  <2>. QED BY <2>1, NodeInit, NodeNext, PTL DEF Spec
<1>. QED BY <1>1, NodeInvImpliesTypeOK, PTL

-----------------------------------------------------------------------------
(* The behaviours that work on a fork *)

\* The timeouts from after the fork storage was filled that resume a download.
LateAt == {i \in older + 1..Len(syncBox) :
             syncBox[i].kind = "TimeoutExceeded" /\ syncBox[i].task.stage = "GettingBlocks"}

\* The behaviours that are at work on the fork, or may be once more.
AtWork == {syncBox[i].task : i \in LateAt} \cup (IF Stage = "GettingBlocks" THEN {task} ELSE {})

\* Nobody but the active peer has sent blocks, and nobody else will.
Alone(t) == ~t.changed /\ DOMAIN PeersLeft(t) \subseteq {t.active}

AttachedInv == \A t \in AtWork : Attached(forkIds, t.common)

SenderInv ==
  /\ Stage = "GettingBlocks" /\ ~task.changed =>
       \A b \in DOMAIN forkBlocks : forkBlocks[b] = task.active
  /\ \A t \in AtWork : Alone(t) =>
       /\ \A b \in DOMAIN forkBlocks : forkBlocks[b] = t.active
       /\ \A u \in AtWork : u.active = t.active /\ DOMAIN PeersLeft(u) \subseteq {t.active}

\* Any chain that ends in the common block has at least the score that was
\* taken of the chain there, although the chain may have lost that block since.
BaseInv ==
  \A t \in AtWork : \A chain \in Seq(Block) :
    IsChain(chain) /\ chain[Len(chain)] = t.common => forkBase <= Score(chain)

WorkInv == ~mixed => AttachedInv /\ SenderInv /\ BaseInv

\* u is t, or what a timeout has made of it.
Descends(u, t) ==
  /\ u.common = t.common
  /\ u.active = t.active \/ u.active \in DOMAIN PeersLeft(t)
  /\ DOMAIN PeersLeft(u) \subseteq DOMAIN PeersLeft(t)
  /\ Alone(u) => Alone(t) /\ u.active = t.active

LEMMA PeersLeftDepends ==
  ASSUME NEW t, NEW u, u.peers = t.peers, u.active = t.active
  PROVE  PeersLeft(u) = PeersLeft(t)
BY DEF PeersLeft, TooOften

LEMMA SameDescends ==
  ASSUME NEW t, NEW u, u.common = t.common, u.peers = t.peers, u.active = t.active,
         u.changed = t.changed
  PROVE  Descends(u, t)
BY PeersLeftDepends, Zenon DEF Descends, Alone

LEMMA ResumedDescends ==
  ASSUME NEW t, Active(t), NEW p \in NextActive(t, PeersLeft(t)), NEW u,
         u.common = t.common, u.peers = PeersLeft(t), u.active = p,
         u.changed = ActiveChanged(t, p), Active(u)
  PROVE  Descends(u, t) /\ (~u.changed => Alone(t) /\ u.active = t.active)
<1>1. p \in DOMAIN PeersLeft(t) /\ (p = t.active => DOMAIN PeersLeft(t) \subseteq {t.active})
  BY NextActiveIsLeft
<1>2. DOMAIN PeersLeft(u) \subseteq DOMAIN PeersLeft(t)
  BY PeersLeftAre
<1>3. ~u.changed => ~t.changed /\ p = t.active
  BY DEF ActiveChanged
<1>4. ~u.changed => Alone(t) /\ u.active = t.active
  BY <1>1, <1>3 DEF Alone
<1>. QED BY <1>1, <1>2, <1>4 DEF Descends, Alone

\* Work that only descends from former work, on the same fork, keeps what is
\* known of it; the active peer may have added a block.
LEMMA WorkGoesOn ==
  ASSUME WorkInv, ~mixed, UNCHANGED forkIds, UNCHANGED forkBase,
         \A b \in DOMAIN forkBlocks' :
           \/ b \in DOMAIN forkBlocks /\ forkBlocks'[b] = forkBlocks[b]
           \/ Stage = "GettingBlocks" /\ forkBlocks'[b] = task.active,
         \A u \in AtWork' : \E t \in AtWork : Descends(u, t),
         Stage' = "GettingBlocks" /\ ~task'.changed =>
           \/ Stage = "GettingBlocks" /\ ~task.changed /\ task'.active = task.active
           \/ UNCHANGED forkBlocks /\ \E t \in AtWork : Alone(t) /\ task'.active = t.active
  PROVE  WorkInv'
<1>1. AttachedInv /\ SenderInv /\ BaseInv
  BY DEF WorkInv
<1>2. Stage = "GettingBlocks" => task \in AtWork
  BY DEF AtWork
<1>3. AttachedInv'
  <2>1. \A u \in AtWork' : Attached(forkIds', u.common)
    BY <1>1 DEF AttachedInv, Descends
  <2>. QED BY <2>1 DEF AttachedInv, Attached
<1>4. BaseInv'
  <2>1. ASSUME NEW u \in AtWork', NEW chain \in Seq(Block), IsChain(chain),
               chain[Len(chain)] = u.common
        PROVE  forkBase' <= Score(chain)
    <3>1. PICK t \in AtWork : u.common = t.common
      BY DEF Descends
    <3>. QED BY <1>1, <2>1, <3>1 DEF BaseInv
  <2>. QED BY <2>1 DEF BaseInv
<1>5. ASSUME Stage' = "GettingBlocks", ~task'.changed, NEW b \in DOMAIN forkBlocks'
      PROVE  forkBlocks'[b] = task'.active
  <2>1. CASE Stage = "GettingBlocks" /\ ~task.changed /\ task'.active = task.active
    BY <1>1, <2>1 DEF SenderInv
  <2>2. CASE UNCHANGED forkBlocks /\ \E t \in AtWork : Alone(t) /\ task'.active = t.active
    BY <1>1, <2>2 DEF SenderInv
  <2>. QED BY <1>5, <2>1, <2>2
<1>6. ASSUME NEW u \in AtWork', Alone(u)
      PROVE  /\ \A b \in DOMAIN forkBlocks' : forkBlocks'[b] = u.active
             /\ \A w \in AtWork' : w.active = u.active /\ DOMAIN PeersLeft(w) \subseteq {u.active}
  <2>1. PICK t \in AtWork : Descends(u, t)
    OBVIOUS
  <2>2. Alone(t) /\ u.active = t.active
    BY <1>6, <2>1 DEF Descends
  <2>3. /\ \A b \in DOMAIN forkBlocks : forkBlocks[b] = t.active
        /\ \A v \in AtWork : v.active = t.active /\ DOMAIN PeersLeft(v) \subseteq {t.active}
    BY <1>1, <2>2 DEF SenderInv
  <2>4. ASSUME NEW w \in AtWork'
        PROVE  w.active = t.active /\ DOMAIN PeersLeft(w) \subseteq {t.active}
    <3>1. PICK v \in AtWork : Descends(w, v)
      OBVIOUS
    <3>. QED BY <2>3, <3>1 DEF Descends
  <2>. QED BY <1>2, <2>2, <2>3, <2>4
<1>7. SenderInv'
  BY <1>5, <1>6 DEF SenderInv, Alone, PeersLeft, TooOften
<1>. QED BY <1>3, <1>4, <1>7 DEF WorkInv

\* The present behaviour goes on asking for blocks after t has timed out.
ResumesFrom(t) ==
  /\ Active(t) /\ t.stage = "GettingBlocks" /\ UNCHANGED forkVars
  /\ \E p \in NextActive(t, PeersLeft(t)) :
       /\ task'.common = t.common /\ task'.peers = PeersLeft(t) /\ task'.active = p
       /\ task'.changed = ActiveChanged(t, p) /\ Active(task')

LEMMA TimeoutResumes ==
  ASSUME SyncInv, Timeout, Stage' = "GettingBlocks"
  PROVE  ~Idle /\ msg.kind = "TimeoutExceeded" /\ ResumesFrom(msg.task)
<1>1. /\ Received("TimeoutExceeded") /\ ~Idle
      /\ \/ \E ps \in SUBSET ({msg.task.active} \ {None}) : FinishUnsuccessfully(ps)
         \/ /\ msg.task.runs < OperationRetries /\ msg.task.active # None
            /\ UNCHANGED <<forkVars, coordBox>>
            /\ \E p \in NextActive(msg.task, PeersLeft(msg.task)) : Run(Resumed(msg.task, p))
  BY TimeoutIs
<1>2. msg \in SyncMessage /\ msg.kind = "TimeoutExceeded"
  BY <1>1, ReceivedLeaves DEF SyncInv, BoxesInv
<1>3. TaskInv(msg.task)
  BY <1>2, MessageIs
<1>4. \A ps : ~FinishUnsuccessfully(ps)
  BY DEF FinishUnsuccessfully, Finish, Stage, Idle
<1>5. Active(msg.task) /\ UNCHANGED forkVars /\ msg.task.runs < OperationRetries
  BY <1>1, <1>3, <1>4, IsActive
<1>6. PICK p \in NextActive(msg.task, PeersLeft(msg.task)) : Run(Resumed(msg.task, p))
  BY <1>1, <1>4
<1>. DEFINE t == msg.task
            u == Resumed(msg.task, p)
<1>7. /\ u.stage = t.stage /\ u.common = t.common /\ u.active = p /\ u.peers = PeersLeft(t)
      /\ u.changed = ActiveChanged(t, p) /\ u \in Behaviour /\ TaskInv(u)
  BY <1>5, ResumedIs, ResumedKeeps
<1>. HIDE DEF t, u
<1>8. PICK n : task' = [u EXCEPT !.before = n]
  BY <1>6 DEF Run, u
<1>9. /\ task'.stage = u.stage /\ task'.common = u.common /\ task'.active = u.active
      /\ task'.peers = u.peers /\ task'.changed = u.changed
  BY <1>7, <1>8 DEF Behaviour
<1>10. t.stage = "GettingBlocks"
  BY <1>7, <1>9 DEF Stage
<1>11. Active(task')
  <2>1. TaskInv(task)'
    BY TimeoutKeeps DEF SyncInv, Stage
  <2>2. TaskInv(task')
    BY <2>1 DEF TaskInv, TaskOK, Behaviour, Attached
  <2>3. task'.active # None
    <3>1. p \in DOMAIN PeersLeft(t) /\ DOMAIN PeersLeft(t) \subseteq DOMAIN t.peers
      BY <1>5, NextActiveIsLeft, PeersLeftAre DEF t
    <3>. QED BY <1>5, <1>7, <1>9, <3>1, SynchronizerAssumption DEF Active, t
  <2>. QED BY <2>2, <2>3, IsActive
<1>12. /\ task'.common = t.common /\ task'.peers = PeersLeft(t) /\ task'.active = p
       /\ task'.changed = ActiveChanged(t, p)
  BY <1>7, <1>9
<1>. QED BY <1>1, <1>2, <1>5, <1>6, <1>10, <1>11, <1>12 DEF ResumesFrom, t

\* What a message changes that does not fill the fork storage.
LEMMA SynchronizeGoesOn ==
  ASSUME SyncInv, Synchronize, ~Fills
  PROVE  /\ UNCHANGED forkIds /\ UNCHANGED forkBase
         /\ \A b \in DOMAIN forkBlocks' :
              \/ b \in DOMAIN forkBlocks /\ forkBlocks'[b] = forkBlocks[b]
              \/ Stage = "GettingBlocks" /\ forkBlocks'[b] = task.active
         /\ Stage' = "GettingBlocks" =>
              \/ Stage = "GettingBlocks" /\ UNCHANGED task
              \/ ~Idle /\ msg.kind = "TimeoutExceeded" /\ ResumesFrom(msg.task)
<1>1. CASE GetExtension
  <2>1. UNCHANGED forkVars
    BY <1>1 DEF GetExtension
  <2>2. Stage' # "GettingBlocks"
    BY <1>1 DEF GetExtension, Run, Stage
  <2>. QED BY <2>1, <2>2 DEF forkVars
<1>2. CASE ExtensionReceived \/ TailReceived
  <2>1. FillsInTime
    BY <1>2, ExtensionReceivedKeeps, TailReceivedKeeps
  <2>2. msg.kind = "Signatures" /\ Stage # "GettingBlocks"
    BY <1>2 DEF ExtensionReceived, TailReceived, Received
  <2>3. Stage' # "GettingBlocks"
    BY <2>2 DEF Fills
  <2>. QED BY <2>1, <2>3 DEF FillsInTime, forkVars
<1>3. CASE ForkBlockReceived
  <2>1. /\ Stage = "GettingBlocks" /\ AddBlockToFork(msg.block, msg.from) /\ msg.from = task.active
        /\ \/ \E f : Finish(f)
           \/ UNCHANGED task
    BY <1>3, ForkBlockReceivedIs
  <2>2. Stage' = "GettingBlocks" => UNCHANGED task
    BY <2>1 DEF Finish, Stage, Idle
  <2>. QED BY <2>1, <2>2 DEF AddBlockToFork
<1>4. CASE ForkBlockAgain \/ OtherBlock \/ Ignored
  <2>1. UNCHANGED task /\ UNCHANGED forkVars
    BY <1>4 DEF ForkBlockAgain, OtherBlock, Ignored
  <2>. QED BY <2>1 DEF forkVars, Stage, Idle
<1>5. CASE Timeout
  <2>1. UNCHANGED forkVars
    BY <1>5, TimeoutIs DEF FinishUnsuccessfully
  <2>. QED BY <1>5, <2>1, TimeoutResumes DEF forkVars
<1>. QED BY <1>1, <1>2, <1>3, <1>4, <1>5 DEF Synchronize

\* Taking a message makes the places of the late timeouts one lower.
LEMMA LateLeft ==
  ASSUME NodeInv, TakeNext, ~Fills
  PROVE  /\ \A i \in LateAt' : syncBox'[i].task \in AtWork
         /\ msg.kind = "TimeoutExceeded" /\ msg.task.stage = "GettingBlocks" /\ older = 0 =>
              msg.task \in AtWork
<1>1. PICK kind : Received(kind)
  BY Zenon DEF TakeNext, Synchronize, GetExtension, ExtensionReceived, TailReceived,
               ForkBlockReceived, ForkBlockAgain, OtherBlock, Ignored, Timeout
<1>2. /\ msg = syncBox[1] /\ Len(syncBox) \in Nat \ {0} /\ Len(syncBox') = Len(syncBox) - 1
      /\ \A i \in 1..Len(syncBox') : syncBox'[i] = syncBox[i + 1]
  BY <1>1, ReceivedLeaves DEF NodeInv, SyncInv, BoxesInv
<1>3. older \in 0..Len(syncBox) /\ older' = IF older > 0 THEN older - 1 ELSE 0
  BY DEF NodeInv, TakeNext
<1>4. ASSUME NEW i \in LateAt' PROVE syncBox'[i].task \in AtWork
  <2>1. /\ i \in older' + 1..Len(syncBox') /\ syncBox'[i].kind = "TimeoutExceeded"
        /\ syncBox'[i].task.stage = "GettingBlocks"
    BY DEF LateAt
  <2>2. PICK m \in Nat, o \in Nat : m = Len(syncBox) /\ o = older
    BY <1>2, <1>3
  <2>3. /\ i \in 1..m - 1 /\ i + 1 \in o + 1..m
    BY <1>2, <1>3, <2>1, <2>2
  <2>4. syncBox'[i] = syncBox[i + 1]
    BY <1>2, <2>2, <2>3
  <2>5. i + 1 \in LateAt
    BY <2>1, <2>2, <2>3, <2>4 DEF LateAt
  <2>. QED BY <2>4, <2>5 DEF AtWork
<1>5. ASSUME msg.kind = "TimeoutExceeded", msg.task.stage = "GettingBlocks", older = 0
      PROVE  msg.task \in AtWork
  <2>1. 1 \in LateAt
    BY <1>2, <1>5 DEF LateAt
  <2>. QED BY <1>2, <2>1 DEF AtWork
<1>. QED BY <1>4, <1>5

\* Filling the fork storage begins the work anew.
LEMMA FillingStarts ==
  ASSUME NodeInv, TakeNext, Fills
  PROVE  WorkInv'
<1>1. SyncInv /\ SyncInv' /\ Len(syncBox') \in Nat /\ Synchronize
  BY SynchronizeKeeps DEF NodeInv, TakeNext
<1>2. Stage' = "GettingBlocks" /\ Stage # "GettingBlocks" /\ msg.kind = "Signatures"
  BY DEF Fills
<1>3. Filled
  <2>1. CASE ExtensionReceived \/ TailReceived
    BY <1>1, <1>2, <2>1, ExtensionReceivedKeeps, TailReceivedKeeps DEF FillsInTime
  <2>2. CASE Ignored
    BY <1>2, <2>2 DEF Ignored, Stage, Idle
  <2>3. CASE GetExtension \/ ForkBlockReceived \/ ForkBlockAgain \/ OtherBlock \/ Timeout
    BY <1>2, <2>3 DEF GetExtension, ForkBlockReceived, ForkBlockAgain, OtherBlock, Timeout, Received
  <2>. QED BY <1>1, <2>1, <2>2, <2>3 DEF Synchronize
<1>4. older' = Len(syncBox')
  BY DEF TakeNext
<1>5. LateAt' = {}
  BY <1>1, <1>4 DEF LateAt
<1>6. AtWork' = {task'}
  BY <1>2, <1>5 DEF AtWork
<1>7. AttachedInv'
  <2>1. Attached(forkIds', task'.common)
    BY <1>3 DEF Filled
  <2>. QED BY <1>6, <2>1 DEF AttachedInv, Attached
<1>8. SenderInv'
  <2>1. DOMAIN forkBlocks' = {}
    BY <1>3 DEF Filled
  <2>2. task'.active = task'.active /\ (Alone(task') => DOMAIN PeersLeft(task') \subseteq {task'.active})
    BY DEF Alone
  <2>. QED BY <1>6, <2>1, <2>2 DEF SenderInv, Alone, PeersLeft, TooOften
<1>9. BaseInv'
  <2>1. ASSUME NEW chain \in Seq(Block), IsChain(chain), chain[Len(chain)] = task'.common
        PROVE  forkBase' <= Score(chain)
    <3>1. forkBase' = ScoreOf(history, task'.common) /\ IsChain(history)
      BY <1>1, <1>3 DEF Filled, SyncInv
    <3>2. Score(chain) \in Nat
      BY ScoreIsNat
    <3>3. CASE Has(history, task'.common)
      <4>1. IsChain(UpTo(history, task'.common))
            /\ UpTo(history, task'.common)[Len(UpTo(history, task'.common))] = task'.common
        BY <3>1, <3>3, UpToIsChain
      <4>2. UpTo(history, task'.common) = chain
        BY <2>1, <4>1, OneChainTo
      <4>. QED BY <3>1, <3>2, <3>3, <4>2 DEF ScoreOf
    <3>4. CASE ~Has(history, task'.common)
      BY <3>1, <3>2, <3>4 DEF ScoreOf
    <3>. QED BY <3>3, <3>4
  <2>. QED BY <1>6, <2>1 DEF BaseInv
<1>. QED BY <1>7, <1>8, <1>9 DEF WorkInv

LEMMA TakeNextWorks ==
  ASSUME NodeInv, WorkInv, TakeNext
  PROVE  WorkInv'
<1>1. CASE Fills
  BY <1>1, FillingStarts
<1>2. CASE ~Fills
  <2>1. SUFFICES ASSUME ~mixed' PROVE WorkInv'
    BY DEF WorkInv
  <2>2. ~mixed /\ ~(Resumes /\ older > 0) /\ Synchronize /\ SyncInv /\ older \in Nat
    <3>1. mixed' = (~Fills /\ (mixed \/ (Resumes /\ older > 0))) /\ Synchronize
      BY DEF TakeNext
    <3>2. ~mixed /\ ~(Resumes /\ older > 0)
      BY <1>2, <2>1, <3>1, Zenon
    <3>. QED BY <3>1, <3>2 DEF NodeInv
  <2>3. /\ UNCHANGED forkIds /\ UNCHANGED forkBase
        /\ \A b \in DOMAIN forkBlocks' :
             \/ b \in DOMAIN forkBlocks /\ forkBlocks'[b] = forkBlocks[b]
             \/ Stage = "GettingBlocks" /\ forkBlocks'[b] = task.active
    BY <1>2, <2>2, SynchronizeGoesOn
  <2>4. Stage' = "GettingBlocks" =>
          \/ Stage = "GettingBlocks" /\ UNCHANGED task
          \/ msg.task \in AtWork /\ ResumesFrom(msg.task)
    <3>1. SUFFICES ASSUME Stage' = "GettingBlocks", ~Idle, msg.kind = "TimeoutExceeded",
                          ResumesFrom(msg.task)
                   PROVE  msg.task \in AtWork
      BY <1>2, <2>2, SynchronizeGoesOn
    <3>2. older = 0
      BY <2>2, <3>1 DEF Resumes
    <3>. QED BY <1>2, <3>1, <3>2, LateLeft DEF ResumesFrom
  <2>5. ASSUME Stage' = "GettingBlocks", msg.task \in AtWork, ResumesFrom(msg.task)
        PROVE  /\ Descends(task', msg.task) /\ UNCHANGED forkBlocks
               /\ ~task'.changed => Alone(msg.task) /\ task'.active = msg.task.active
    <3>1. PICK p \in NextActive(msg.task, PeersLeft(msg.task)) :
            /\ task'.common = msg.task.common /\ task'.peers = PeersLeft(msg.task)
            /\ task'.active = p /\ task'.changed = ActiveChanged(msg.task, p) /\ Active(task')
      BY <2>5 DEF ResumesFrom
    <3>2. Active(msg.task) /\ UNCHANGED forkBlocks
      BY <2>5 DEF ResumesFrom, forkVars
    <3>. QED BY <3>1, <3>2, ResumedDescends
  <2>6. \A u \in AtWork' : \E t \in AtWork : Descends(u, t)
    <3>1. ASSUME NEW u \in AtWork' PROVE \E t \in AtWork : Descends(u, t)
      <4>1. CASE \E i \in LateAt' : u = syncBox'[i].task
        <5>1. u \in AtWork
          BY <1>2, <4>1, LateLeft
        <5>. QED BY <5>1, SameDescends
      <4>2. CASE Stage' = "GettingBlocks" /\ u = task'
        <5>1. CASE Stage = "GettingBlocks" /\ UNCHANGED task
          <6>1. task \in AtWork
            BY <5>1 DEF AtWork
          <6>. QED BY <4>2, <5>1, <6>1, SameDescends
        <5>. QED BY <2>4, <2>5, <4>2, <5>1
      <4>. QED BY <4>1, <4>2 DEF AtWork
    <3>. QED BY <3>1
  <2>7. Stage' = "GettingBlocks" /\ ~task'.changed =>
          \/ Stage = "GettingBlocks" /\ ~task.changed /\ task'.active = task.active
          \/ UNCHANGED forkBlocks /\ \E t \in AtWork : Alone(t) /\ task'.active = t.active
    BY <2>4, <2>5
  <2>. QED BY <2>2, <2>3, <2>6, <2>7, WorkGoesOn
<1>. QED BY <1>1, <1>2

\* New messages are no work, unless the timer of the present behaviour has fired.
LEMMA MessagesWork ==
  ASSUME NodeInv, WorkInv, UNCHANGED <<task, forkVars, older, mixed>>,
         NEW more \in Seq(SyncMessage), syncBox' = syncBox \o more,
         \A i \in 1..Len(more) : more[i].kind = "TimeoutExceeded" =>
           ~Idle /\ more[i].task = [task EXCEPT !.before = 0]
  PROVE  WorkInv'
<1>0. CASE mixed
  BY <1>0 DEF WorkInv
<1>1. CASE ~mixed
  <2>1. /\ syncBox \in Seq(SyncMessage) /\ Len(syncBox) \in Nat /\ Len(more) \in Nat
        /\ Len(syncBox') = Len(syncBox) + Len(more) /\ older \in Nat /\ older' = older
        /\ \A i \in 1..Len(syncBox) : syncBox'[i] = syncBox[i]
        /\ \A i \in 1..Len(more) : syncBox'[Len(syncBox) + i] = more[i]
    BY DEF NodeInv, SyncInv, BoxesInv
  <2>2. ASSUME NEW u \in AtWork' PROVE \E t \in AtWork : Descends(u, t)
    <3>1. CASE Stage' = "GettingBlocks" /\ u = task'
      <4>1. task \in AtWork /\ u = task
        BY <3>1 DEF AtWork, Stage, Idle
      <4>. QED BY <4>1, SameDescends
    <3>2. CASE \E i \in LateAt' : u = syncBox'[i].task
      <4>1. PICK i \in older + 1..Len(syncBox') :
              /\ u = syncBox'[i].task /\ syncBox'[i].kind = "TimeoutExceeded"
              /\ u.stage = "GettingBlocks"
        BY <2>1, <3>2 DEF LateAt
      <4>2. CASE i <= Len(syncBox)
        <5>1. i \in older + 1..Len(syncBox) /\ i \in 1..Len(syncBox)
          BY <2>1, <4>2
        <5>2. i \in LateAt /\ u = syncBox[i].task
          BY <2>1, <4>1, <5>1 DEF LateAt
        <5>. QED BY <5>2, SameDescends DEF AtWork
      <4>3. CASE i > Len(syncBox)
        <5>0. PICK m \in Nat, n \in Nat : m = Len(syncBox) /\ n = Len(more)
          BY <2>1
        <5>1. /\ m = Len(syncBox) /\ n = Len(more)
              /\ i \in Nat /\ i > m /\ i <= m + n
          BY <2>1, <4>3, <5>0
        <5>2. PICK j \in Nat : j = i - m
          BY <5>1
        <5>3. j \in 1..n /\ i = m + j
          BY <5>1, <5>2
        <5>4. syncBox'[i] = more[j]
          BY <2>1, <5>1, <5>3
        <5>9. more[j].kind = "TimeoutExceeded" /\ u = more[j].task
          BY <4>1, <5>4
        <5>10. j \in 1..Len(more)
          BY <5>1, <5>3
        <5>5. ~Idle /\ u = [task EXCEPT !.before = 0]
          BY <5>9, <5>10
        <5>6. task \in Behaviour
          BY <5>5 DEF NodeInv, SyncInv, TaskInv
        <5>7. /\ u.stage = task.stage /\ u.common = task.common /\ u.peers = task.peers
              /\ u.active = task.active /\ u.changed = task.changed
          BY <5>5, <5>6 DEF Behaviour
        <5>8. task \in AtWork
          BY <4>1, <5>5, <5>7 DEF AtWork, Stage
        <5>. QED BY <5>7, <5>8, SameDescends
      <4>. QED BY <2>1, <4>2, <4>3
    <3>. QED BY <3>1, <3>2 DEF AtWork
  <2>3. UNCHANGED forkIds /\ UNCHANGED forkBlocks /\ UNCHANGED forkBase /\ Stage' = Stage
    BY DEF forkVars, Stage, Idle
  <2>. QED BY <1>1, <2>2, <2>3, WorkGoesOn
<1>. QED BY <1>0, <1>1

LEMMA NoMessagesWork ==
  ASSUME NodeInv, WorkInv, UNCHANGED <<task, forkVars, older, mixed>>, UNCHANGED syncBox
  PROVE  WorkInv'
<1>1. PICK none \in Seq(SyncMessage) : Len(none) = 0 /\ syncBox' = syncBox \o none
  <2>1. <<>> \in Seq(SyncMessage) /\ Len(<<>>) = 0 /\ syncBox' = syncBox \o <<>>
    BY DEF NodeInv, SyncInv, BoxesInv
  <2>. QED BY <2>1
<1>2. \A i \in 1..Len(none) : FALSE
  BY <1>1
<1>. QED BY <1>1, <1>2, MessagesWork

LEMMA TimerTicksWorks ==
  ASSUME NodeInv, WorkInv, TimerTicks
  PROVE  WorkInv'
<1>. DEFINE m == [kind |-> "TimeoutExceeded", task |-> [task EXCEPT !.before = 0]]
<1>1. /\ ~Idle /\ syncBox' = Append(syncBox, m) /\ UNCHANGED <<task, forkVars, older, mixed>>
  BY DEF TimerTicks, TimerFires, ghosts
<1>2. m \in SyncMessage
  <2>1. TaskInv([task EXCEPT !.before = 0])
    BY <1>1, BeforeDoesNotMatter DEF NodeInv, SyncInv
  <2>2. [task EXCEPT !.before = 0] \in Behaviour
    BY <2>1 DEF TaskInv
  <2>. QED BY <2>1, <2>2 DEF SyncMessage
<1>3. m.task = [task EXCEPT !.before = 0]
  OBVIOUS
<1>. HIDE DEF m
<1>4. <<m>> \in Seq(SyncMessage) /\ syncBox' = syncBox \o <<m>> /\ Len(<<m>>) = 1
      /\ \A i \in 1..1 : <<m>>[i] = m
  BY <1>1, <1>2 DEF NodeInv, SyncInv, BoxesInv
<1>. QED BY <1>1, <1>3, <1>4, MessagesWork

LEMMA ReplyWorks ==
  ASSUME NodeInv, WorkInv, NEW p \in Peer, Reply(p)
  PROVE  WorkInv'
<1>. DEFINE answer == Answer(PeerChain[p], p, Head(asked[p]))
            M == {m \in SyncMessage : m.kind # "TimeoutExceeded"}
<1>1. /\ asked[p] # <<>> /\ asked' = [asked EXCEPT ![p] = Tail(@)]
      /\ syncBox' = syncBox \o SetToSeq(answer) /\ UNCHANGED blacklisted
      /\ UNCHANGED <<task, forkVars, older, mixed>>
  BY DEF Reply, ghosts
<1>2. Head(asked[p]) \in Request
  BY <1>1, RequestLeaves DEF NodeInv, SyncInv
<1>3. answer \subseteq M /\ (answer = {} \/ \E m : answer = {m})
  BY <1>2, AnswerIs, ChainsOfPeers
<1>. HIDE DEF answer
<1>4. SetToSeq(answer) \in Seq(M)
  <2>. HIDE DEF M
  <2>. QED BY <1>3, FewInSeq
<1>5. /\ SetToSeq(answer) \in Seq(SyncMessage)
      /\ \A i \in 1..Len(SetToSeq(answer)) : SetToSeq(answer)[i].kind # "TimeoutExceeded"
  BY <1>4
<1>. QED BY <1>1, <1>5, MessagesWork

LEMMA ConsideredWorks ==
  ASSUME NodeInv, WorkInv, NEW scores \in Reported, Considered(scores)
  PROVE  WorkInv'
<1>. DEFINE m == [kind |-> "GetExtension", scores |-> Better(scores),
                  ids |-> LastBlockIds(history, MaxRollback)]
<1>1. syncBox' = Append(syncBox, m) /\ UNCHANGED <<task, forkVars, older, mixed>>
  BY DEF Considered, ConsideredValue, ghosts
<1>2. m.kind # "TimeoutExceeded"
  OBVIOUS
<1>. HIDE DEF m
<1>3. m \in SyncMessage
  <2>1. Len(syncBox) \in Nat /\ Append(syncBox, m) \in Seq(SyncMessage)
        /\ Append(syncBox, m)[Len(syncBox) + 1] = m
        /\ Len(syncBox) + 1 \in 1..Len(Append(syncBox, m))
    BY <1>1, ConsideredKeeps DEF NodeInv, SyncInv, BoxesInv
  <2>. QED BY <2>1
<1>4. <<m>> \in Seq(SyncMessage) /\ syncBox' = syncBox \o <<m>> /\ Len(<<m>>) = 1
      /\ \A i \in 1..1 : <<m>>[i] = m
  BY <1>1, <1>3 DEF NodeInv, SyncInv, BoxesInv
<1>. QED BY <1>1, <1>2, <1>4, MessagesWork

LEMMA WorkInit == Init => WorkInv
<1>. SUFFICES ASSUME Init PROVE WorkInv
  OBVIOUS
<1>1. task = None /\ syncBox = <<>> /\ older = 0
  BY DEF Init, SyncInit
<1>2. Stage = "Idle" /\ LateAt = {}
  BY <1>1 DEF Stage, Idle, LateAt
<1>3. AtWork = {}
  BY <1>2 DEF AtWork
<1>. QED BY <1>2, <1>3 DEF WorkInv, AttachedInv, SenderInv, BaseInv

LEMMA WorkNext == NodeInv /\ WorkInv /\ NodeStep => WorkInv'
<1>. SUFFICES ASSUME NodeInv, WorkInv, NodeStep PROVE WorkInv'
  OBVIOUS
<1>1. CASE TakeNext /\ UNCHANGED <<coordinatorVars, counters>>
  BY <1>1, TakeNextWorks
<1>2. CASE Coordinate /\ UNCHANGED <<counters, ghosts>>
  <2>1. UNCHANGED <<task, forkVars, older, mixed>> /\ UNCHANGED syncBox
    BY <1>2 DEF Coordinate, SyncFinished, AddBlock, ForkEnds, ForkBlockApplied, ForkBlockFails,
                syncVars, ghosts
  <2>. QED BY <2>1, NoMessagesWork
<1>3. CASE TimerTicks
  BY <1>3, TimerTicksWorks
<1>4. CASE \E p \in Peer : Reply(p)
  BY <1>4, ReplyWorks
<1>5. CASE \E scores \in Reported : Considered(scores)
  BY <1>5, ConsideredWorks
<1>6. CASE UNCHANGED nodeVars \/ (\E p \in Peer : Lose(p)) \/ (\E b \in Block : Mine(b))
  <2>1. UNCHANGED <<task, forkVars, older, mixed>> /\ UNCHANGED syncBox
    BY <1>6 DEF nodeVars, syncVars, ghosts, Lose, Mine
  <2>. QED BY <2>1, NoMessagesWork
<1>. QED BY <1>1, <1>2, <1>3, <1>4, <1>5, <1>6, ConsiderIs DEF Next, NodeStep

LEMMA AlwaysWork == Spec => [](NodeInv /\ WorkInv)
<1>1. Init => NodeInv /\ WorkInv
  BY NodeInit, WorkInit
<1>2. NodeInv /\ WorkInv /\ [Next]_nodeVars => (NodeInv /\ WorkInv)'
  BY NodeNext, WorkNext DEF NodeStep
<1>. QED BY <1>1, <1>2, PTL DEF Spec

-----------------------------------------------------------------------------
(* Forks that are handed over *)

LEMMA FinishNone ==
  ASSUME coordBox \in Seq(CoordMessage), Finish(None), NEW f, f # None
  PROVE  ~HandsOver(f)
<1>1. [kind |-> "SyncFinished", result |-> None] \in CoordMessage
  BY DEF CoordMessage
<1>. QED BY <1>1, ToCoordinatorKeeps DEF Finish, HandsOver

\* Only the block that makes a fork better hands it over.
LEMMA HandsOverIs ==
  ASSUME NodeInv, NodeStep, NEW f \in Forks', HandsOver(f)
  PROVE  /\ ~mixed /\ Stage = "GettingBlocks" /\ f = TheFork(task)
         /\ AddBlockToFork(msg.block, msg.from) /\ msg.from = task.active
         /\ CumulativeBlockScore(forkIds, forkBlocks') > Score(history)
<1>1. f # None /\ ~mixed /\ coordBox \in Seq(CoordMessage) /\ Len(coordBox) \in Nat
  BY DEF Forks, HandsOver, NodeInv, SyncInv, BoxesInv
<1>2. coordBox' # coordBox /\ Len(coordBox') > Len(coordBox)
  BY <1>1 DEF HandsOver
<1>3. ForkBlockReceived
  <2>1. ~OtherBlock /\ \A b : ~Mine(b)
    <3>1. ASSUME NEW m \in CoordMessage, ToCoordinator(m) PROVE m.kind = "SyncFinished"
      BY <1>1, <3>1, ToCoordinatorKeeps DEF HandsOver
    <3>2. ASSUME OtherBlock PROVE FALSE
      <4>1. msg \in SyncMessage /\ msg.kind = "Block"
        BY <3>2, ReceivedLeaves DEF OtherBlock, NodeInv, SyncInv, BoxesInv
      <4>2. [kind |-> "AddBlock", block |-> msg.block, from |-> msg.from] \in CoordMessage
        BY <4>1, MessageIs DEF CoordMessage
      <4>. QED BY <3>1, <3>2, <4>2 DEF OtherBlock
    <3>3. ASSUME NEW b, Mine(b) PROVE FALSE
      <4>1. [kind |-> "AddBlock", block |-> b, from |-> None] \in CoordMessage
        BY <3>3, NodeAssumption DEF CoordMessage, Mine
      <4>. QED BY <3>1, <3>3, <4>1 DEF Mine
    <3>. QED BY <3>2, <3>3
  <2>2. \A ps : ~FinishUnsuccessfully(ps)
    BY <1>1, FinishNone DEF FinishUnsuccessfully
  <2>3. ~ExtensionReceived /\ ~TailReceived /\ ~Timeout
    BY <1>2, <2>2, Zenon DEF ExtensionReceived, TailReceived, Continue, Timeout
  <2>4. ~GetExtension /\ ~ForkBlockAgain /\ ~Ignored
    BY <1>2 DEF GetExtension, ForkBlockAgain, Ignored
  <2>5. \A kind : ~Took(kind)
    <3>1. ASSUME NEW kind, Took(kind) PROVE FALSE
      <4>1. coordBox # <<>> /\ coordBox' = Tail(coordBox)
        BY <3>1 DEF Took
      <4>2. Len(Tail(coordBox)) = Len(coordBox) - 1
        BY <1>1, <4>1
      <4>3. Len(coordBox') = Len(coordBox) - 1
        BY <4>1, <4>2
      <4>4. Len(coordBox) - 1 > Len(coordBox)
        BY <1>2, <4>3
      <4>. QED BY <1>1, <4>4
    <3>. QED BY <3>1
  <2>6. ~Coordinate
    BY <1>2, <2>5 DEF Coordinate, SyncFinished, AddBlock, ForkEnds, ForkBlockApplied,
                      ForkBlockFails, syncVars
  <2>7. ~TimerTicks /\ (\A p : ~Reply(p) /\ ~Lose(p)) /\ \A scores : ~Considered(scores)
    BY <1>2 DEF TimerTicks, TimerFires, Reply, Lose, Considered, ConsideredValue
  <2>8. ~UNCHANGED nodeVars
    BY <1>2 DEF nodeVars, syncVars
  <2>9. Synchronize
    BY <2>1, <2>6, <2>7, <2>8, ConsiderIs DEF Next, TakeNext, NodeStep
  <2>. QED BY <2>1, <2>3, <2>4, <2>9 DEF Synchronize
<1>4. /\ Stage = "GettingBlocks" /\ msg.from = task.active /\ AddBlockToFork(msg.block, msg.from)
      /\ \/ /\ CumulativeBlockScore(forkIds, forkBlocks') > Score(history)
            /\ Finish(TheFork(task)) /\ UNCHANGED <<asked, blacklisted>>
         \/ Finish(None) /\ Blacklist({Author(task)} \ {None})
         \/ UNCHANGED <<task, coordBox, asked, blacklisted>>
  BY <1>3, ForkBlockReceivedIs DEF NodeInv
<1>5. /\ CumulativeBlockScore(forkIds, forkBlocks') > Score(history) /\ Finish(TheFork(task))
  BY <1>1, <1>2, <1>4, FinishNone
<1>6. TheFork(task) \in Fork
  BY <1>4, BlocksTask DEF TheFork, Author, Fork, NodeInv, SyncInv, ForkInv, Behaviour
<1>7. [kind |-> "SyncFinished", result |-> TheFork(task)] \in CoordMessage
  BY <1>6 DEF CoordMessage
<1>8. f = TheFork(task)
  BY <1>1, <1>5, <1>7, ToCoordinatorKeeps DEF Finish, HandsOver
<1>. QED BY <1>1, <1>4, <1>5, <1>8

\* The blocks of a fork up to the first that is missing are blocks.
LEMMA PrefixIsSeq ==
  ASSUME NEW ids \in Seq(Block), NEW blocks
  PROVE  PrefixOf(ids, blocks) \in Seq(Block)
<1>. DEFINE gaps == {i \in DOMAIN ids : ids[i] \notin DOMAIN blocks}
            all == {Len(ids) + 1} \cup gaps
<1>1. all \in SUBSET Nat /\ all # {} /\ \A n \in all : n - 1 \in Nat
  OBVIOUS
<1>2. PrefixOf(ids, blocks) = Take(ids, Min(all) - 1)
  BY Zenon DEF PrefixOf
<1>. HIDE DEF all
<1>3. Min(all) - 1 \in Nat
  BY <1>1, MinOf
<1>. QED BY <1>2, <1>3, TakeOf

LEMMA AttachesNext ==
  NodeInv /\ WorkInv /\ NodeStep =>
    \A f \in Forks' : HandsOver(f) =>
      \A i \in DOMAIN f.ids : Ref[f.ids[i]] = IF i = 1 THEN f.common ELSE f.ids[i - 1]
<1>1. ASSUME NodeInv, WorkInv, NodeStep, NEW f \in Forks', HandsOver(f)
      PROVE  \A i \in DOMAIN f.ids : Ref[f.ids[i]] = IF i = 1 THEN f.common ELSE f.ids[i - 1]
  <2>1. ~mixed /\ Stage = "GettingBlocks" /\ f = TheFork(task)
    BY <1>1, HandsOverIs
  <2>2. f.ids = forkIds /\ f.common = task.common /\ task \in AtWork
    BY <2>1 DEF TheFork, AtWork
  <2>3. Attached(forkIds, task.common)
    BY <1>1, <2>1, <2>2 DEF WorkInv, AttachedInv
  <2>4. DOMAIN forkIds = 1..Len(forkIds)
    BY <1>1 DEF NodeInv, SyncInv, ForkInv
  <2>. QED BY <2>2, <2>3, <2>4 DEF Attached
<1>. QED BY <1>1

\* The ids of a fork on which one download has worked and that is handed to the
\* Coordinator follow each other and the common block, though they came in several
\* answers, of more than one peer and some of them twice
\* (BlockchainSynchronizer.scala:79-134, 259-264).
THEOREM AlwaysForkAttaches == Spec => ForkAttaches
<1>1. [Next]_nodeVars => NodeStep
  BY DEF NodeStep
<1>. QED BY <1>1, AttachesNext, AlwaysWork, PTL DEF Spec, ForkAttaches

LEMMA SentAllNext ==
  NodeInv /\ WorkInv /\ NodeStep =>
    \A f \in Forks' : HandsOver(f) /\ f.from # None =>
      \A b \in DOMAIN forkBlocks' : forkBlocks'[b] = f.from
<1>1. ASSUME NodeInv, WorkInv, NodeStep, NEW f \in Forks', HandsOver(f), f.from # None,
             NEW b \in DOMAIN forkBlocks'
      PROVE  forkBlocks'[b] = f.from
  <2>1. /\ ~mixed /\ Stage = "GettingBlocks" /\ f = TheFork(task)
        /\ AddBlockToFork(msg.block, msg.from) /\ msg.from = task.active
    BY <1>1, HandsOverIs
  <2>2. ~task.changed /\ f.from = task.active
    BY <1>1, <2>1 DEF TheFork, Author
  <2>3. \A c \in DOMAIN forkBlocks : forkBlocks[c] = task.active
    BY <1>1, <2>1, <2>2 DEF WorkInv, SenderInv
  <2>. QED BY <2>1, <2>2, <2>3 DEF AddBlockToFork
<1>. QED BY <1>1

\* The peer that is named with such a fork, and blamed for an invalid block of it,
\* has sent every block of it, whenever the active peer changed
\* (BlockchainSynchronizer.scala:148-171, 224-242).
THEOREM AlwaysAuthorSentAll == Spec => AuthorSentAll
<1>1. [Next]_nodeVars => NodeStep
  BY DEF NodeStep
<1>. QED BY <1>1, SentAllNext, AlwaysWork, PTL DEF Spec, AuthorSentAll

LEMMA BeatsNext ==
  NodeInv /\ WorkInv /\ NodeStep =>
    \A f \in Forks' : HandsOver(f) /\ Has(history, f.common) =>
      Score(UpTo(history, f.common) \o PrefixOf(f.ids, forkBlocks')) > Score(history)
<1>1. ASSUME NodeInv, WorkInv, NodeStep, NEW f \in Forks', HandsOver(f),
             Has(history, f.common)
      PROVE  Score(UpTo(history, f.common) \o PrefixOf(f.ids, forkBlocks')) > Score(history)
  <2>1. /\ ~mixed /\ Stage = "GettingBlocks" /\ f = TheFork(task)
        /\ CumulativeBlockScore(forkIds, forkBlocks') > Score(history)
    BY <1>1, HandsOverIs
  <2>2. f.ids = forkIds /\ f.common = task.common /\ task \in AtWork
    BY <2>1 DEF TheFork, AtWork
  <2>. DEFINE base == UpTo(history, f.common)
              prefix == PrefixOf(forkIds, forkBlocks')
  <2>3. IsChain(base) /\ base[Len(base)] = task.common
    BY <1>1, <2>2, UpToIsChain DEF NodeInv, SyncInv
  <2>4. prefix \in Seq(Block) /\ base \in Seq(Block) /\ history \in Seq(Block)
    BY <1>1, <2>3, PrefixIsSeq DEF NodeInv, SyncInv, ForkInv, IsChain
  <2>5. forkBase <= Score(base)
    BY <1>1, <2>1, <2>2, <2>3, <2>4 DEF WorkInv, BaseInv
  <2>6. forkBase + Score(prefix) > Score(history)
    BY <2>1 DEF CumulativeBlockScore
  <2>7. Score(base \o prefix) = Score(base) + Score(prefix)
    BY <2>4, ScoreOfConcat
  <2>8. /\ Score(base) \in Nat /\ Score(prefix) \in Nat /\ Score(history) \in Nat
        /\ forkBase \in Nat
    BY <1>1, <2>4, ScoreIsNat DEF NodeInv, SyncInv, ForkInv
  <2>. HIDE DEF base, prefix
  <2>9. Score(base \o prefix) > Score(history)
    BY <2>5, <2>6, <2>7, <2>8
  <2>. QED BY <2>2, <2>9 DEF base, prefix
<1>. QED BY <1>1

\* Such a fork has a better score than the blocks after the common one, as long
\* as that is in the chain, whatever the Coordinator did to the history since the
\* score at the common block was taken (BlockchainSynchronizer.scala:99-116,
\* 155-165; StoredBlockSeq.scala:45-49).
THEOREM AlwaysForkBeatsChain == Spec => ForkBeatsChain
<1>1. [Next]_nodeVars => NodeStep
  BY DEF NodeStep
<1>. QED BY <1>1, BeatsNext, AlwaysWork, PTL DEF Spec, ForkBeatsChain

-----------------------------------------------------------------------------
(* The node with its ScoreObserver *)

Candidates == UNION {[S -> [score : Nat, fresh : BOOLEAN]] : S \in SUBSET Peer}

\* The observer keeps, and has told, scores of peers.
ReportsInv == candidates \in Candidates /\ considered \in Seq(Reported)

LEMMA ClearOldKeeps ==
  ASSUME NEW c \in Candidates
  PROVE  ClearOld(c) \in Candidates
<1>1. PICK S \in SUBSET Peer : c \in [S -> [score : Nat, fresh : BOOLEAN]]
  BY DEF Candidates
<1>. DEFINE T == {p \in S : c[p].fresh}
<1>2. ClearOld(c) = [p \in T |-> c[p]]
  BY <1>1 DEF ClearOld, Restrict
<1>3. ClearOld(c) \in [T -> [score : Nat, fresh : BOOLEAN]] /\ T \in SUBSET Peer
  BY <1>1, <1>2
<1>. QED BY <1>3 DEF Candidates

LEMMA UpdatedKeeps ==
  ASSUME NEW c \in Candidates, NEW d \in Candidates
  PROVE  Updated(c, d) \in Candidates
<1>1. PICK S \in SUBSET Peer : c \in [S -> [score : Nat, fresh : BOOLEAN]]
  BY DEF Candidates
<1>2. PICK T \in SUBSET Peer : d \in [T -> [score : Nat, fresh : BOOLEAN]]
  BY DEF Candidates
<1>3. Updated(c, d) = [p \in S \cup T |-> IF p \in T THEN d[p] ELSE c[p]]
  BY <1>1, <1>2 DEF Updated
<1>4. /\ Updated(c, d) \in [S \cup T -> [score : Nat, fresh : BOOLEAN]]
      /\ S \cup T \in SUBSET Peer
  BY <1>1, <1>2, <1>3
<1>. QED BY <1>4 DEF Candidates

LEMMA ToConsiderKeeps ==
  ASSUME considered \in Seq(Reported), NEW c \in Candidates, ToConsider(c)
  PROVE  considered' \in Seq(Reported)
<1>1. PICK S \in SUBSET Peer : c \in [S -> [score : Nat, fresh : BOOLEAN]]
  BY DEF Candidates
<1>2. [p \in DOMAIN c |-> c[p].score] \in [S -> Nat]
  BY <1>1
<1>3. [p \in DOMAIN c |-> c[p].score] \in Reported
  BY <1>2 DEF Reported
<1>. QED BY <1>3 DEF ToConsider

LEMMA UpdateScoreKeeps ==
  ASSUME ReportsInv, NEW new \in Candidates, UpdateScore(new)
  PROVE  ReportsInv'
<1>1. candidates' \in Candidates
  BY ClearOldKeeps, UpdatedKeeps DEF ReportsInv, UpdateScore
<1>2. ToConsider(candidates') \/ UNCHANGED considered
  BY DEF UpdateScore
<1>. QED BY <1>1, <1>2, ToConsiderKeeps DEF ReportsInv

LEMMA ReportsNext ==
  ASSUME ReportsInv, [ScoredNext]_scoredVars
  PROVE  ReportsInv'
<1>1. CASE \E p \in Peer : PeerScore(p)
  <2>1. PICK p \in Peer : ScoreReceived(p, Score(PeerChain[p]))
    BY <1>1 DEF PeerScore
  <2>2. Score(PeerChain[p]) \in Nat
    BY ChainsOfPeers, ScoreIsNat DEF IsChain
  <2>. DEFINE new == [q \in {p} |-> [score |-> Score(PeerChain[p]), fresh |-> TRUE]]
  <2>3. new \in [{p} -> [score : Nat, fresh : BOOLEAN]] /\ {p} \in SUBSET Peer
    BY <2>2
  <2>4. new \in Candidates
    BY <2>3 DEF Candidates
  <2>5. UpdateScore(new)
    BY <2>1 DEF ScoreReceived
  <2>. QED BY <2>4, <2>5, UpdateScoreKeeps
<1>2. CASE ObserverTick
  <2>1. <<>> \in [{} -> [score : Nat, fresh : BOOLEAN]] /\ {} \in SUBSET Peer
    OBVIOUS
  <2>2. <<>> \in Candidates
    BY <2>1 DEF Candidates
  <2>. QED BY <1>2, <2>2, UpdateScoreKeeps DEF ObserverTick, ClearTick
<1>3. CASE ScoreAsked
  <2>1. candidates' = ClearOld(candidates) /\ ToConsider(candidates')
    BY <1>3 DEF ScoreAsked, GetScore
  <2>. QED BY <2>1, ClearOldKeeps, ToConsiderKeeps DEF ReportsInv
<1>4. CASE \E p \in Peer : ScoreExpires(p)
  <2>1. PICK p : /\ p \in DOMAIN candidates /\ UNCHANGED considered
                 /\ candidates' = [candidates EXCEPT ![p].fresh = FALSE]
    BY <1>4 DEF ScoreExpires, Expire
  <2>2. PICK S \in SUBSET Peer : candidates \in [S -> [score : Nat, fresh : BOOLEAN]]
    BY DEF ReportsInv, Candidates
  <2>3. candidates' \in [S -> [score : Nat, fresh : BOOLEAN]]
    BY <2>1, <2>2
  <2>. QED BY <2>1, <2>3 DEF ReportsInv, Candidates
<1>5. CASE TakeConsidered
  BY <1>5 DEF TakeConsidered, ReportsInv
<1>6. CASE UNCHANGED <<candidates, considered>>
  BY <1>6 DEF ReportsInv
<1>7. CASE SynchronizerStep \/ TakeMessage \/ TimerStep \/ UNCHANGED scoredVars
  BY <1>6, <1>7 DEF SynchronizerStep, TakeMessage, TimerStep, scoredVars, observerVars
<1>8. CASE (\E p \in Peer : PeerReplies(p) \/ (Lose(p) /\ UNCHANGED observerVars))
           \/ (\E b \in Block : Mine(b) /\ UNCHANGED observerVars)
  BY <1>6, <1>8 DEF PeerReplies, observerVars
<1>. QED BY <1>1, <1>2, <1>3, <1>4, <1>5, <1>7, <1>8 DEF ScoredNext

\* Every step of the composition is one of the node, the scores of which come
\* from the observer, or none.
LEMMA ScoredIs ==
  ASSUME ReportsInv, [ScoredNext]_scoredVars
  PROVE  NodeStep
<1>1. CASE TakeConsidered
  <2>1. /\ ConsideredValue(Head(considered)) /\ UNCHANGED <<counters, ghosts>>
        /\ Head(considered) \in Reported
    BY <1>1 DEF TakeConsidered, ReportsInv
  <2>2. CASE QuorumReached(Head(considered))
    BY <2>1, <2>2 DEF Considered, NodeStep
  <2>3. CASE ~QuorumReached(Head(considered))
    BY <2>1, <2>3 DEF ConsideredValue, NodeStep, nodeVars, syncVars
  <2>. QED BY <2>2, <2>3
<1>2. CASE TakeMessage
  <2>1. Coordinate /\ UNCHANGED <<counters, ghosts>>
    BY <1>2 DEF TakeMessage, Coordinate
  <2>. QED BY <2>1 DEF Next, NodeStep
<1>3. CASE SynchronizerStep
  BY <1>3 DEF SynchronizerStep, Next, NodeStep
<1>4. CASE TimerStep \/ \E p \in Peer : PeerReplies(p) \/ (Lose(p) /\ UNCHANGED observerVars)
  BY <1>4 DEF TimerStep, PeerReplies, Next, NodeStep
<1>5. CASE \E b \in Block : Mine(b) /\ UNCHANGED observerVars
  BY <1>5 DEF Next, NodeStep
<1>6. CASE ScoreAsked \/ ObserverTick \/ \E p \in Peer : PeerScore(p) \/ ScoreExpires(p)
  BY <1>6 DEF ScoreAsked, ObserverTick, PeerScore, ScoreExpires, NodeStep
<1>7. CASE UNCHANGED scoredVars
  BY <1>7 DEF scoredVars, NodeStep
<1>. QED BY <1>1, <1>2, <1>3, <1>4, <1>5, <1>6, <1>7 DEF ScoredNext

\* With the ScoreObserver the same holds of the data and of the forks, however
\* often, late or twice it reports the peers of the best scores, and for any
\* number of downloads (ScoreObserver.scala:36-71, Coordinator.scala:42-71).
THEOREM ScoredNodeIsSound ==
  ScoredSpec => []TypeOK /\ ForkAttaches /\ AuthorSentAll /\ ForkBeatsChain
<1>1. ScoredInit => NodeInv /\ WorkInv /\ ReportsInv
  <2>1. ASSUME ObserverInit PROVE ReportsInv
    <3>1. candidates \in [{} -> [score : Nat, fresh : BOOLEAN]] /\ {} \in SUBSET Peer
      BY <2>1 DEF ObserverInit
    <3>2. considered \in Seq(Reported)
      BY <2>1 DEF ObserverInit
    <3>. QED BY <3>1, <3>2 DEF ReportsInv, Candidates
  <2>. QED BY <2>1, NodeInit, WorkInit DEF ScoredInit
<1>2. NodeInv /\ WorkInv /\ ReportsInv /\ [ScoredNext]_scoredVars =>
        (NodeInv /\ WorkInv /\ ReportsInv)' /\ NodeStep
  BY NodeNext, WorkNext, ReportsNext, ScoredIs
<1>3. ScoredSpec => [](NodeInv /\ WorkInv /\ ReportsInv)
  BY <1>1, <1>2, PTL DEF ScoredSpec
<1>4. ScoredSpec => []TypeOK
  BY <1>3, NodeInvImpliesTypeOK, PTL
<1>5. ScoredSpec => ForkAttaches
  BY <1>2, <1>3, AttachesNext, PTL DEF ScoredSpec, ForkAttaches
<1>6. ScoredSpec => AuthorSentAll
  BY <1>2, <1>3, SentAllNext, PTL DEF ScoredSpec, AuthorSentAll
<1>7. ScoredSpec => ForkBeatsChain
  BY <1>2, <1>3, BeatsNext, PTL DEF ScoredSpec, ForkBeatsChain
<1>. QED BY <1>4, <1>5, <1>6, <1>7
=============================================================================
