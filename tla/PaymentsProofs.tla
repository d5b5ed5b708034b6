--------------------------- MODULE PaymentsProofs ---------------------------
(* Sums of effects, and validate: for any balances that are not negative, it *)
(* ends with transactions that can be paid together, and keeps all of a       *)
(* sequence that can.                                                        *)
EXTENDS Payments, FiniteSetTheorems, WellFoundedInduction, TLAPS

(* The smallest and the greatest of a set of heights *)

Less == {ss \in Nat \X Nat : ss[1] < ss[2]}

LEMMA LessWellFounded == IsWellFoundedOn(Less, Nat)
BY Zenon, NatLessThanWellFounded DEF OpToRel, Less

LEMMA SmallestExists ==
  ASSUME NEW S \in SUBSET Nat, S # {}
  PROVE  \E m \in S : \A x \in S : m <= x
<1>1. PICK m \in S : \A x \in S : ~ (<<x, m>> \in Less)
  BY LessWellFounded, WFMin, Zenon
<1>2. ASSUME NEW x \in S PROVE m <= x
  <2>1. x < m => <<x, m>> \in Less
    BY DEF Less
  <2>. QED
    BY <1>1, <2>1
<1>. QED
  BY <1>2

\* Induction: a set of natural numbers with 0 and every successor is Nat.
LEMMA Induction ==
  ASSUME NEW S, 0 \in S, \A n \in Nat : n \in S => n + 1 \in S
  PROVE  Nat \subseteq S
<1>1. SUFFICES ASSUME Nat \ S # {} PROVE FALSE
  OBVIOUS
<1>2. PICK m \in Nat \ S : \A x \in Nat \ S : m <= x
  <2>1. Nat \ S \in SUBSET Nat
    OBVIOUS
  <2>. QED BY <1>1, <2>1, SmallestExists
<1>3. m # 0
  OBVIOUS
<1>4. m - 1 \in Nat /\ m - 1 \in S
  BY <1>2, <1>3
<1>. QED BY <1>4

LEMMA MinIs ==
  ASSUME NEW S \in SUBSET Nat, NEW m \in S, \A x \in S : m <= x
  PROVE  Min(S) = m
<1>1. \A n \in S : (\A x \in S : n <= x) => n = m
  OBVIOUS
<1>. QED BY <1>1 DEF Min

LEMMA MaxIs ==
  ASSUME NEW S \in SUBSET Nat, NEW m \in S, \A x \in S : x <= m
  PROVE  Max(S) = m
<1>1. \A n \in S : (\A x \in S : n >= x) => n = m
  OBVIOUS
<1>. QED BY <1>1 DEF Max

LEMMA MinOfTwo ==
  ASSUME NEW x \in Nat, NEW y \in Nat
  PROVE  Min({x, y}) = IF x <= y THEN x ELSE y
<1>1. CASE x <= y
  <2>1. {x, y} \in SUBSET Nat /\ x \in {x, y} /\ \A z \in {x, y} : x <= z
    BY <1>1
  <2>2. Min({x, y}) = x
    BY <2>1, MinIs
  <2>. QED BY <1>1, <2>2
<1>2. CASE ~(x <= y)
  <2>1. {x, y} \in SUBSET Nat /\ y \in {x, y} /\ \A z \in {x, y} : y <= z
    BY <1>2
  <2>2. Min({x, y}) = y
    BY <2>1, MinIs
  <2>. QED BY <1>2, <2>2
<1>. QED BY <1>1, <1>2

LEMMA MaxIsGreatest ==
  ASSUME NEW n \in Nat, NEW S \in SUBSET (0..n), S # {}
  PROVE  Max(S) \in S /\ \A x \in S : x <= Max(S)
<1>. DEFINE D == {n - x : x \in S}
<1>1. D \in SUBSET Nat /\ D # {}
  <2>1. \A x \in S : n - x \in Nat
    OBVIOUS
  <2>. QED BY <2>1
<1>2. PICK d \in D : \A e \in D : d <= e
  <2>. HIDE DEF D
  <2>. QED BY <1>1, SmallestExists
<1>3. PICK m \in S : d = n - m
  OBVIOUS
<1>4. ASSUME NEW x \in S PROVE x <= m
  <2>1. n - x \in D
    BY DEF D
  <2>2. n - m <= n - x
    BY <1>2, <1>3, <2>1 DEF D
  <2>. QED BY <2>2
<1>. QED BY <1>4, MaxIs

\* f goes on from base by step, n times.
Recurs(f, n, base, step) ==
  f = [i \in 0..n |-> IF i = 0 THEN base ELSE step[<<i, f[i - 1]>>]]

\* A recursion that cannot leave V exists and stays in V.
LEMMA Recursion ==
  ASSUME NEW V, NEW n \in Nat, NEW base \in V, NEW step,
         \A i \in 1..n, v \in V : step[<<i, v>>] \in V
  PROVE  \E f \in [0..n -> V] : Recurs(f, n, base, step)
<1>. DEFINE S == {k \in Nat : k <= n => \E f \in [0..k -> V] : Recurs(f, k, base, step)}
<1>1. 0 \in S
  <2>1. [i \in 0..0 |-> base] \in [0..0 -> V] /\ Recurs([i \in 0..0 |-> base], 0, base, step)
    BY DEF Recurs
  <2>. QED BY <2>1
<1>2. ASSUME NEW k \in Nat, k \in S PROVE k + 1 \in S
  <2>1. SUFFICES ASSUME k + 1 <= n
                 PROVE \E f \in [0..k + 1 -> V] : Recurs(f, k + 1, base, step)
    OBVIOUS
  <2>2. PICK f \in [0..k -> V] : Recurs(f, k, base, step)
    BY <1>2, <2>1
  <2>. DEFINE g == [i \in 0..k + 1 |-> IF i = k + 1 THEN step[<<k + 1, f[k]>>] ELSE f[i]]
  <2>3. g \in [0..k + 1 -> V]
    BY <2>1
  <2>4. ASSUME NEW i \in 0..k + 1
        PROVE  g[i] = IF i = 0 THEN base ELSE step[<<i, g[i - 1]>>]
    <3>1. CASE i = k + 1
      <4>1. /\ k + 1 \in 0..k + 1 /\ k \in 0..k + 1 /\ k # k + 1 /\ k + 1 # 0
            /\ (k + 1) - 1 = k
        OBVIOUS
      <4>2. g[k + 1] = step[<<k + 1, f[k]>>] /\ g[k] = f[k]
        BY <4>1
      <4>. HIDE DEF g
      <4>. QED BY <3>1, <4>1, <4>2
    <3>2. CASE i # k + 1
      <4>1. i \in 0..k /\ (i # 0 => i - 1 \in 0..k)
        BY <3>2
      <4>2. f[i] = IF i = 0 THEN base ELSE step[<<i, f[i - 1]>>]
        BY <2>2, <4>1, Zenon DEF Recurs
      <4>3. g[i] = f[i] /\ (i # 0 => g[i - 1] = f[i - 1])
        <5>1. i - 1 # k + 1 /\ i \in 0..k + 1 /\ (i # 0 => i - 1 \in 0..k + 1)
          BY <4>1
        <5>. QED BY <3>2, <5>1
      <4>. HIDE DEF g
      <4>4. CASE i = 0
        BY <4>2, <4>3, <4>4
      <4>5. CASE i # 0
        BY <4>2, <4>3, <4>5
      <4>. QED BY <4>4, <4>5
    <3>. QED BY <3>1, <3>2
  <2>. HIDE DEF g
  <2>5. g = [i \in 0..k + 1 |-> g[i]]
    BY <2>3
  <2>6. Recurs(g, k + 1, base, step)
    BY <2>4, <2>5, Zenon DEF Recurs
  <2>. QED BY <2>3, <2>6
<1>. HIDE DEF S
<1>3. n \in S
  BY <1>1, <1>2, Induction
<1>. QED BY <1>3 DEF S

\* A recursion whose steps do not leave V ends in V.
LEMMA RecursionStays ==
  ASSUME NEW V, NEW n \in Nat, NEW f, f[0] \in V,
         \A i \in 1..n : f[i - 1] \in V => f[i] \in V
  PROVE  f[n] \in V
<1>. DEFINE S == {k \in Nat : k <= n => f[k] \in V}
<1>1. 0 \in S
  OBVIOUS
<1>2. ASSUME NEW k \in Nat, k \in S PROVE k + 1 \in S
  <2>1. SUFFICES ASSUME k + 1 <= n PROVE f[k + 1] \in V
    OBVIOUS
  <2>2. f[k] \in V /\ k + 1 \in 1..n /\ (k + 1) - 1 = k
    BY <1>2, <2>1
  <2>3. f[(k + 1) - 1] \in V => f[k + 1] \in V
    BY <2>2
  <2>. QED BY <2>2, <2>3
<1>. HIDE DEF S
<1>3. n \in S
  BY <1>1, <1>2, Induction
<1>. QED BY <1>3 DEF S
-----------------------------------------------------------------------------
(* Total *)

\* f sums up the first n elements of seq, step by step.
SumsUp(f, seq, n) ==
  f = [i \in 0..n |-> IF i = 0 THEN 0 ELSE f[i - 1] + seq[i]]

LEMMA SumsExist ==
  ASSUME NEW seq, NEW n \in Nat, \A i \in 1..n : seq[i] \in Int
  PROVE  \E f \in [0..n -> Int] : SumsUp(f, seq, n)
<1>. DEFINE S == {k \in Nat : k <= n => \E f \in [0..k -> Int] : SumsUp(f, seq, k)}
<1>1. 0 \in S
  <2>1. [i \in 0..0 |-> 0] \in [0..0 -> Int] /\ SumsUp([i \in 0..0 |-> 0], seq, 0)
    BY DEF SumsUp
  <2>. QED BY <2>1
<1>2. ASSUME NEW k \in Nat, k \in S PROVE k + 1 \in S
  <2>1. SUFFICES ASSUME k + 1 <= n
                 PROVE \E f \in [0..k + 1 -> Int] : SumsUp(f, seq, k + 1)
    OBVIOUS
  <2>2. PICK f \in [0..k -> Int] : SumsUp(f, seq, k)
    BY <1>2, <2>1
  <2>. DEFINE g == [i \in 0..k + 1 |-> IF i = k + 1 THEN f[k] + seq[k + 1] ELSE f[i]]
  <2>3. g \in [0..k + 1 -> Int]
    BY <2>1
  <2>4. SumsUp(g, seq, k + 1)
    <3>1. ASSUME NEW i \in 0..k + 1
          PROVE  g[i] = IF i = 0 THEN 0 ELSE g[i - 1] + seq[i]
      <4>1. CASE i = k + 1
        BY <4>1
      <4>2. CASE i # k + 1
        <5>1. i \in 0..k /\ (i # 0 => i - 1 \in 0..k)
          BY <4>2
        <5>2. f[i] = IF i = 0 THEN 0 ELSE f[i - 1] + seq[i]
          BY <2>2, <5>1 DEF SumsUp
        <5>. QED BY <4>2, <5>1, <5>2
      <4>. QED BY <4>1, <4>2
    <3>. HIDE DEF g
    <3>2. g = [i \in 0..k + 1 |-> g[i]]
      BY <2>3
    <3>. QED BY <3>1, <3>2, Zenon DEF SumsUp
  <2>. QED BY <2>3, <2>4
<1>. HIDE DEF S
<1>3. n \in S
  BY <1>1, <1>2, Induction
<1>. QED BY <1>3 DEF S

\* Two sequences with the same first n elements have the same sums.
LEMMA SumsUnique ==
  ASSUME NEW s, NEW t, NEW m, NEW n, m \in Nat, n \in Nat, m <= n,
         \A i \in 1..m : s[i] = t[i],
         NEW f, SumsUp(f, s, m), NEW g, SumsUp(g, t, n)
  PROVE  \A i \in 0..m : f[i] = g[i]
<1>. DEFINE S == {k \in Nat : k <= m => f[k] = g[k]}
<1>0. /\ \A i \in 0..m : f[i] = IF i = 0 THEN 0 ELSE f[i - 1] + s[i]
      /\ \A i \in 0..n : g[i] = IF i = 0 THEN 0 ELSE g[i - 1] + t[i]
  BY Zenon DEF SumsUp
<1>1. 0 \in S
  BY <1>0
<1>2. ASSUME NEW k \in Nat, k \in S PROVE k + 1 \in S
  <2>1. SUFFICES ASSUME k + 1 <= m PROVE f[k + 1] = g[k + 1]
    OBVIOUS
  <2>2. k + 1 \in 0..m /\ k + 1 \in 0..n /\ k + 1 \in 1..m /\ k + 1 # 0
        /\ (k + 1) - 1 = k
    BY <2>1
  <2>3. f[k] = g[k]
    BY <1>2, <2>1
  <2>. QED BY <1>0, <2>2, <2>3
<1>. HIDE DEF S
<1>3. \A k \in Nat : k \in S
  BY <1>1, <1>2, Induction
<1>. QED BY <1>3 DEF S

\* Total is where such a function ends.
LEMMA TotalIs ==
  ASSUME NEW seq, Len(seq) \in Nat, \A i \in 1..Len(seq) : seq[i] \in Int
  PROVE  \E f \in [0..Len(seq) -> Int] :
           SumsUp(f, seq, Len(seq)) /\ Total(seq) = f[Len(seq)]
<1>. DEFINE n == Len(seq)
            F == CHOOSE f : SumsUp(f, seq, n)
<1>1. PICK g \in [0..n -> Int] : SumsUp(g, seq, n)
  BY SumsExist
<1>2. SumsUp(F, seq, n)
  BY <1>1
<1>3. Total(seq) = F[n]
  BY DEF Total, SumsUp
<1>4. \A i \in 0..n : F[i] = g[i]
  BY <1>1, <1>2, SumsUnique
<1>. HIDE DEF F
<1>5. F = [i \in 0..n |-> F[i]]
  <2>1. F = [i \in 0..n |-> IF i = 0 THEN 0 ELSE F[i - 1] + seq[i]]
    BY <1>2 DEF SumsUp
  <2>. QED BY <2>1, Zenon
<1>6. F \in [0..n -> Int]
  BY <1>4, <1>5
<1>. QED BY <1>2, <1>3, <1>6

LEMMA TotalInt ==
  ASSUME NEW seq, Len(seq) \in Nat, \A i \in 1..Len(seq) : seq[i] \in Int
  PROVE  Total(seq) \in Int
BY TotalIs

LEMMA TotalEmpty ==
  ASSUME NEW seq, Len(seq) = 0
  PROVE  Total(seq) = 0
<1>1. PICK f \in [0..Len(seq) -> Int] : SumsUp(f, seq, Len(seq)) /\ Total(seq) = f[Len(seq)]
  BY TotalIs
<1>. QED BY <1>1 DEF SumsUp

\* The sum of one element more.
LEMMA TotalNext ==
  ASSUME NEW s, NEW t, Len(s) \in Nat, Len(t) = Len(s) + 1,
         \A i \in 1..Len(t) : t[i] \in Int, \A i \in 1..Len(s) : s[i] = t[i]
  PROVE  Total(t) = Total(s) + t[Len(t)]
<1>0. Len(t) \in Nat /\ Len(s) <= Len(t) /\ \A i \in 1..Len(s) : s[i] \in Int
  OBVIOUS
<1>1. ASSUME NEW f, SumsUp(f, s, Len(s)), NEW g, SumsUp(g, t, Len(t))
      PROVE  \A i \in 0..Len(s) : f[i] = g[i]
  BY ONLY <1>0, <1>1, Len(s) \in Nat, \A i \in 1..Len(s) : s[i] = t[i], SumsUnique, Z3
<1>2. PICK f \in [0..Len(s) -> Int] : SumsUp(f, s, Len(s)) /\ Total(s) = f[Len(s)]
  BY <1>0, TotalIs
<1>3. PICK g \in [0..Len(t) -> Int] : SumsUp(g, t, Len(t)) /\ Total(t) = g[Len(t)]
  BY <1>0, TotalIs
<1>4. \A i \in 0..Len(t) : g[i] = IF i = 0 THEN 0 ELSE g[i - 1] + t[i]
  BY <1>3, Zenon DEF SumsUp
<1>. QED BY <1>0, <1>2, <1>3, <1>1, <1>4

LEMMA TotalZero ==
  ASSUME NEW seq, Len(seq) \in Nat, \A i \in 1..Len(seq) : seq[i] = 0
  PROVE  Total(seq) = 0
<1>1. PICK f \in [0..Len(seq) -> Int] : SumsUp(f, seq, Len(seq)) /\ Total(seq) = f[Len(seq)]
  BY TotalIs
<1>. DEFINE S == {k \in Nat : k <= Len(seq) => f[k] = 0}
<1>2. 0 \in S
  BY <1>1 DEF SumsUp
<1>3. ASSUME NEW k \in Nat, k \in S PROVE k + 1 \in S
  BY <1>1, <1>3 DEF SumsUp
<1>. HIDE DEF S
<1>4. Len(seq) \in S
  BY <1>2, <1>3, Induction
<1>. QED BY <1>1, <1>4 DEF S

\* The sum of two sequences, element by element.
LEMMA TotalAdds ==
  ASSUME NEW s, NEW t, NEW u, NEW n, n \in Nat, Len(s) = n, Len(t) = n, Len(u) = n,
         \A i \in 1..n : s[i] \in Int /\ t[i] \in Int /\ u[i] = s[i] + t[i]
  PROVE  Total(u) = Total(s) + Total(t)
<1>0. \A i \in 1..n : u[i] \in Int
  OBVIOUS
<1>1. PICK e \in [0..n -> Int] : SumsUp(e, s, n) /\ Total(s) = e[n]
  BY TotalIs
<1>2. PICK f \in [0..n -> Int] : SumsUp(f, t, n) /\ Total(t) = f[n]
  BY TotalIs
<1>3. PICK g \in [0..n -> Int] : SumsUp(g, u, n) /\ Total(u) = g[n]
  BY <1>0, TotalIs
<1>4. /\ \A i \in 0..n : e[i] = IF i = 0 THEN 0 ELSE e[i - 1] + s[i]
      /\ \A i \in 0..n : f[i] = IF i = 0 THEN 0 ELSE f[i - 1] + t[i]
      /\ \A i \in 0..n : g[i] = IF i = 0 THEN 0 ELSE g[i - 1] + u[i]
  BY <1>1, <1>2, <1>3, Zenon DEF SumsUp
<1>. DEFINE K == {k \in Nat : k <= n => g[k] = e[k] + f[k]}
<1>5. 0 \in K
  BY <1>4
<1>6. ASSUME NEW k \in Nat, k \in K PROVE k + 1 \in K
  <2>1. SUFFICES ASSUME k + 1 <= n PROVE g[k + 1] = e[k + 1] + f[k + 1]
    OBVIOUS
  <2>2. k + 1 \in 0..n /\ k + 1 \in 1..n /\ k + 1 # 0 /\ (k + 1) - 1 = k /\ k \in 0..n
    BY <2>1
  <2>3. g[k] = e[k] + f[k]
    BY <1>6, <2>1
  <2>4. /\ e[k + 1] = e[k] + s[k + 1] /\ f[k + 1] = f[k] + t[k + 1]
        /\ g[k + 1] = g[k] + u[k + 1]
    BY <1>4, <2>2
  <2>5. e[k] \in Int /\ f[k] \in Int /\ s[k + 1] \in Int /\ t[k + 1] \in Int
        /\ u[k + 1] = s[k + 1] + t[k + 1]
    BY <1>1, <1>2, <2>2
  <2>6. (e[k] + f[k]) + (s[k + 1] + t[k + 1]) = (e[k] + s[k + 1]) + (f[k] + t[k + 1])
    <3>1. ASSUME NEW p \in Int, NEW q \in Int, NEW x \in Int, NEW y \in Int
          PROVE  (p + q) + (x + y) = (p + x) + (q + y)
      OBVIOUS
    <3>. QED BY ONLY <2>5, <3>1
  <2>. QED BY <2>3, <2>4, <2>5, <2>6, Zenon
<1>. HIDE DEF K
<1>7. n \in K
  BY <1>5, <1>6, Induction
<1>. QED BY <1>1, <1>2, <1>3, <1>7 DEF K
-----------------------------------------------------------------------------
(* Sums over finite sets *)

\* The elements are counted one by one, in the order of this choice.
Pick(S) == CHOOSE x \in S : TRUE

\* g sums up f over every part of D.
SumsOver(g, f, D) ==
  g = [S \in SUBSET D |-> IF S = {} THEN 0 ELSE f[Pick(S)] + g[S \ {Pick(S)}]]

\* The sum of f over D.
SumOf(f, D) == (CHOOSE g : SumsOver(g, f, D))[D]

\* Induction over the parts of a finite set.
LEMMA PartsInduction ==
  ASSUME NEW D, IsFiniteSet(D), NEW P, {} \in P,
         \A S \in SUBSET D : S # {} /\ S \ {Pick(S)} \in P => S \in P
  PROVE  \A S \in SUBSET D : S \in P
<1>. DEFINE N == {n \in Nat : \A S \in SUBSET D : Cardinality(S) = n => S \in P}
<1>1. \A S \in SUBSET D : IsFiniteSet(S) /\ Cardinality(S) \in Nat
  BY FS_Subset, FS_CardinalityType
<1>2. 0 \in N
  BY <1>1, FS_EmptySet
<1>3. ASSUME NEW n \in Nat, n \in N PROVE n + 1 \in N
  <2>1. SUFFICES ASSUME NEW S \in SUBSET D, Cardinality(S) = n + 1 PROVE S \in P
    OBVIOUS
  <2>2. S # {}
    BY <1>1, <2>1, FS_EmptySet
  <2>3. Pick(S) \in S
    BY <2>2 DEF Pick
  <2>4. Cardinality(S \ {Pick(S)}) = n
    BY <1>1, <2>1, <2>3, FS_RemoveElement
  <2>5. S \ {Pick(S)} \in P
    BY <1>3, <2>4
  <2>. QED BY <2>2, <2>5
<1>. HIDE DEF N
<1>4. Nat \subseteq N
  BY <1>2, <1>3, Induction
<1>. QED BY <1>1, <1>4 DEF N

\* Such a g exists: add the parts of n + 1 elements to those of n.
LEMMA SumsOverExist ==
  ASSUME NEW D, IsFiniteSet(D), NEW f \in [D -> Int]
  PROVE  \E g \in [SUBSET D -> Int] : SumsOver(g, f, D)
<1>. DEFINE Step(g, S) == IF S = {} THEN 0 ELSE f[Pick(S)] + g[S \ {Pick(S)}]
            N == {n \in Nat : \E g \in [SUBSET D -> Int] :
                    \A S \in SUBSET D : Cardinality(S) <= n => g[S] = Step(g, S)}
<1>1. \A S \in SUBSET D : IsFiniteSet(S) /\ Cardinality(S) \in Nat
  BY FS_Subset, FS_CardinalityType
<1>2. \A S \in SUBSET D : S # {} =>
        /\ Pick(S) \in S /\ S \ {Pick(S)} \in SUBSET D
        /\ Cardinality(S \ {Pick(S)}) = Cardinality(S) - 1
  <2>1. SUFFICES ASSUME NEW S \in SUBSET D, S # {}
                 PROVE  /\ Pick(S) \in S /\ S \ {Pick(S)} \in SUBSET D
                        /\ Cardinality(S \ {Pick(S)}) = Cardinality(S) - 1
    OBVIOUS
  <2>2. Pick(S) \in S
    BY <2>1 DEF Pick
  <2>. QED BY <1>1, <2>2, FS_RemoveElement
<1>3. 0 \in N
  <2>1. [S \in SUBSET D |-> 0] \in [SUBSET D -> Int]
    OBVIOUS
  <2>2. \A S \in SUBSET D : Cardinality(S) <= 0 => S = {}
    BY <1>1, FS_EmptySet
  <2>. QED BY <2>1, <2>2
<1>4. ASSUME NEW n \in Nat, n \in N PROVE n + 1 \in N
  <2>1. PICK g \in [SUBSET D -> Int] :
               \A S \in SUBSET D : Cardinality(S) <= n => g[S] = Step(g, S)
    BY <1>4
  <2>. DEFINE h == [S \in SUBSET D |-> Step(g, S)]
  <2>2. ASSUME NEW S \in SUBSET D PROVE Step(g, S) \in Int
    <3>1. CASE S # {}
      <4>1. Pick(S) \in D /\ S \ {Pick(S)} \in SUBSET D
        BY <1>2, <3>1
      <4>. QED BY <3>1, <4>1
    <3>. QED BY <3>1
  <2>3. h \in [SUBSET D -> Int]
    <3>. HIDE DEF Step
    <3>. QED BY <2>2
  <2>4. \A S \in SUBSET D : Cardinality(S) <= n => h[S] = g[S]
    <3>. HIDE DEF Step
    <3>. QED BY <2>1
  <2>5. ASSUME NEW S \in SUBSET D, Cardinality(S) <= n + 1
        PROVE  h[S] = Step(h, S)
    <3>1. CASE S = {}
      BY <3>1
    <3>2. CASE S # {}
      <4>1. Cardinality(S \ {Pick(S)}) <= n
        BY <1>1, <1>2, <2>5, <3>2
      <4>2. h[S \ {Pick(S)}] = g[S \ {Pick(S)}]
        BY <1>2, <2>4, <3>2, <4>1
      <4>. QED BY <3>2, <4>2
    <3>. QED BY <3>1, <3>2
  <2>. HIDE DEF h, Step
  <2>6. \E hh \in [SUBSET D -> Int] :
          \A S \in SUBSET D : Cardinality(S) <= n + 1 => hh[S] = Step(hh, S)
    BY <2>3, <2>5
  <2>. QED BY <2>6 DEF Step
<1>5. Cardinality(D) \in N
  <2>. HIDE DEF N
  <2>1. Nat \subseteq N
    BY <1>3, <1>4, Induction
  <2>. QED BY <1>1, <2>1
<1>6. PICK g \in [SUBSET D -> Int] :
             \A S \in SUBSET D : Cardinality(S) <= Cardinality(D) => g[S] = Step(g, S)
  BY <1>5
<1>7. \A S \in SUBSET D : g[S] = Step(g, S)
  <2>1. \A S \in SUBSET D : Cardinality(S) <= Cardinality(D)
    BY FS_Subset
  <2>. HIDE DEF Step
  <2>. QED BY <1>6, <2>1
<1>8. g = [S \in SUBSET D |-> Step(g, S)]
  <2>. HIDE DEF Step
  <2>. QED BY <1>7
<1>. QED BY <1>8 DEF SumsOver

LEMMA SumIs ==
  ASSUME NEW D, IsFiniteSet(D), NEW f \in [D -> Int]
  PROVE  \E g : SumsOver(g, f, D) /\ SumOf(f, D) = g[D]
BY SumsOverExist, Zenon DEF SumOf

LEMMA SumsOverStep ==
  ASSUME NEW D, IsFiniteSet(D), NEW g, NEW f, SumsOver(g, f, D), NEW S \in SUBSET D
  PROVE  g[S] = IF S = {} THEN 0 ELSE f[Pick(S)] + g[S \ {Pick(S)}]
BY Zenon DEF SumsOver

LEMMA PickIs ==
  ASSUME NEW D, IsFiniteSet(D), NEW S \in SUBSET D, S # {}
  PROVE  Pick(S) \in S /\ Pick(S) \in D /\ S \ {Pick(S)} \in SUBSET D
BY DEF Pick

\* The sum of the sums is the sum of the two.
LEMMA SumAdds ==
  ASSUME NEW D, IsFiniteSet(D), NEW e \in [D -> Int], NEW f \in [D -> Int], NEW k \in [D -> Int],
         \A a \in D : k[a] = e[a] + f[a]
  PROVE  SumOf(k, D) = SumOf(e, D) + SumOf(f, D) /\ SumOf(e, D) \in Int
<1>1. PICK u : SumsOver(u, e, D) /\ SumOf(e, D) = u[D]
  BY SumIs
<1>2. PICK v : SumsOver(v, f, D) /\ SumOf(f, D) = v[D]
  BY SumIs
<1>3. PICK w : SumsOver(w, k, D) /\ SumOf(k, D) = w[D]
  BY SumIs
<1>. DEFINE P == {S \in SUBSET D : /\ u[S] \in Int /\ v[S] \in Int
                                         /\ w[S] = u[S] + v[S]}
<1>. DEFINE Step(g, h, S) == IF S = {} THEN 0 ELSE h[Pick(S)] + g[S \ {Pick(S)}]
<1>0. \A S \in SUBSET D :
        u[S] = Step(u, e, S) /\ v[S] = Step(v, f, S) /\ w[S] = Step(w, k, S)
  <2>1. \A S \in SUBSET D : u[S] = Step(u, e, S)
    BY <1>1, Zenon DEF SumsOver
  <2>2. \A S \in SUBSET D : v[S] = Step(v, f, S)
    BY <1>2, Zenon DEF SumsOver
  <2>3. \A S \in SUBSET D : w[S] = Step(w, k, S)
    BY <1>3, Zenon DEF SumsOver
  <2>. HIDE DEF Step
  <2>. QED BY <2>1, <2>2, <2>3
<1>4. {} \in P
  <2>1. {} \in SUBSET D
    OBVIOUS
  <2>2. u[{}] = 0 /\ v[{}] = 0 /\ w[{}] = 0
    BY <1>0, <2>1
  <2>. QED BY <2>1, <2>2
<1>5. ASSUME NEW S \in SUBSET D, S # {}, S \ {Pick(S)} \in P PROVE S \in P
  <2>1. /\ u[S] = e[Pick(S)] + u[S \ {Pick(S)}]
        /\ v[S] = f[Pick(S)] + v[S \ {Pick(S)}]
        /\ w[S] = k[Pick(S)] + w[S \ {Pick(S)}]
    BY <1>0, <1>5
  <2>2. /\ u[S \ {Pick(S)}] \in Int /\ v[S \ {Pick(S)}] \in Int
        /\ w[S \ {Pick(S)}] = u[S \ {Pick(S)}] + v[S \ {Pick(S)}]
    BY <1>5
  <2>3. /\ e[Pick(S)] \in Int /\ f[Pick(S)] \in Int
        /\ k[Pick(S)] = e[Pick(S)] + f[Pick(S)]
    BY <1>5, PickIs
  <2>. QED BY <2>1, <2>2, <2>3
<1>. HIDE DEF P
<1>6. \A S \in SUBSET D : S \in P
  BY <1>4, <1>5, PartsInduction
<1>. QED BY <1>1, <1>2, <1>3, <1>6 DEF P

LEMMA SumInt ==
  ASSUME NEW D, IsFiniteSet(D), NEW f \in [D -> Int]
  PROVE  SumOf(f, D) \in Int
<1>. DEFINE k == [a \in D |-> f[a] + f[a]]
<1>1. k \in [D -> Int] /\ \A a \in D : k[a] = f[a] + f[a]
  OBVIOUS
<1>. HIDE DEF k
<1>. QED BY <1>1, SumAdds

\* What only one element has is the sum.
LEMMA SumOfOne ==
  ASSUME NEW D, IsFiniteSet(D), NEW x \in D, NEW n \in Int
  PROVE  SumOf([a \in D |-> IF a = x THEN n ELSE 0], D) = n
<1>. DEFINE f == [a \in D |-> IF a = x THEN n ELSE 0]
<1>0. f \in [D -> Int] /\ \A a \in D : f[a] = IF a = x THEN n ELSE 0
  OBVIOUS
<1>. HIDE DEF f
<1>1. PICK g : SumsOver(g, f, D) /\ SumOf(f, D) = g[D]
  BY <1>0, SumIs
<1>. DEFINE P == {S \in SUBSET D : g[S] = IF x \in S THEN n ELSE 0}
<1>2. {} \in P
  BY <1>1, SumsOverStep
<1>3. ASSUME NEW S \in SUBSET D, S # {}, S \ {Pick(S)} \in P PROVE S \in P
  <2>1. g[S] = f[Pick(S)] + g[S \ {Pick(S)}]
    BY <1>1, <1>3, SumsOverStep
  <2>2. Pick(S) \in S /\ Pick(S) \in D
    BY <1>3, PickIs
  <2>3. g[S \ {Pick(S)}] = IF x \in S \ {Pick(S)} THEN n ELSE 0
    BY <1>3
  <2>. QED BY <1>0, <2>1, <2>2, <2>3
<1>. HIDE DEF P
<1>4. \A S \in SUBSET D : S \in P
  BY <1>2, <1>3, PartsInduction
<1>. QED BY <1>1, <1>4 DEF P, f

\* Two functions that sum up f agree.
LEMMA SumsOverUnique ==
  ASSUME NEW D, IsFiniteSet(D), NEW f, NEW g, SumsOver(g, f, D), NEW h, SumsOver(h, f, D)
  PROVE  g[D] = h[D]
<1>. DEFINE P == {S \in SUBSET D : g[S] = h[S]}
            Step(k, S) == IF S = {} THEN 0 ELSE f[Pick(S)] + k[S \ {Pick(S)}]
<1>1. /\ \A S \in SUBSET D : g[S] = Step(g, S)
      /\ \A S \in SUBSET D : h[S] = Step(h, S)
  BY Zenon DEF SumsOver
<1>2. {} \in P
  BY <1>1
<1>3. ASSUME NEW S \in SUBSET D, S # {}, S \ {Pick(S)} \in P PROVE S \in P
  BY <1>1, <1>3
<1>. HIDE DEF P
<1>4. \A S \in SUBSET D : S \in P
  BY <1>2, <1>3, PartsInduction
<1>. QED BY <1>4 DEF P

\* A sum of natural numbers is one.
LEMMA SumNotNegative ==
  ASSUME NEW D, IsFiniteSet(D), NEW f \in [D -> Nat]
  PROVE  SumOf(f, D) \in Nat
<1>0. f \in [D -> Int]
  OBVIOUS
<1>1. PICK g : SumsOver(g, f, D) /\ SumOf(f, D) = g[D]
  BY <1>0, SumIs
<1>. DEFINE P == {S \in SUBSET D : g[S] \in Nat}
<1>2. {} \in P
  BY <1>1, SumsOverStep
<1>3. ASSUME NEW S \in SUBSET D, S # {}, S \ {Pick(S)} \in P PROVE S \in P
  <2>1. g[S] = f[Pick(S)] + g[S \ {Pick(S)}]
    BY <1>1, <1>3, SumsOverStep
  <2>2. f[Pick(S)] \in Nat /\ g[S \ {Pick(S)}] \in Nat
    BY <1>3, PickIs
  <2>. QED BY <2>1, <2>2
<1>. HIDE DEF P
<1>4. \A S \in SUBSET D : S \in P
  BY <1>2, <1>3, PartsInduction
<1>. QED BY <1>1, <1>4 DEF P

\* No element comes twice.
Distinct(s) == \A i, j \in DOMAIN s : s[i] = s[j] => i = j

\* What f has within S.
Within(f, S, D) == [x \in D |-> IF x \in S THEN f[x] ELSE 0]

\* A part of what is added up comes to no more.
LEMMA SumOfPart ==
  ASSUME NEW D, IsFiniteSet(D), NEW f \in [D -> Nat], NEW S
  PROVE  SumOf(Within(f, S, D), D) <= SumOf(f, D) /\ SumOf(Within(f, S, D), D) \in Int
<1>. DEFINE most == Within(f, S, D)
            rest == [x \in D |-> IF x \in S THEN 0 ELSE f[x]]
<1>1. most \in [D -> Int] /\ rest \in [D -> Int] /\ f \in [D -> Int]
  BY DEF Within
<1>2. rest \in [D -> Nat]
  OBVIOUS
<1>3. \A a \in D : f[a] = most[a] + rest[a]
  BY DEF Within
<1>. HIDE DEF most, rest
<1>4. SumOf(f, D) = SumOf(most, D) + SumOf(rest, D) /\ SumOf(most, D) \in Int
  BY <1>1, <1>3, SumAdds
<1>5. SumOf(rest, D) \in Nat
  BY <1>2, SumNotNegative
<1>. QED BY <1>4, <1>5 DEF most

\* One element more is added up.
LEMMA SumOfMore ==
  ASSUME NEW D, IsFiniteSet(D), NEW f \in [D -> Nat], NEW S, NEW x \in D \ S
  PROVE  SumOf(Within(f, S \cup {x}, D), D) = SumOf(Within(f, S, D), D) + f[x]
<1>. DEFINE more == Within(f, S \cup {x}, D)
            less == Within(f, S, D)
            one == [a \in D |-> IF a = x THEN f[x] ELSE 0]
<1>1. more \in [D -> Int] /\ less \in [D -> Int] /\ one \in [D -> Int] /\ f[x] \in Int
  BY DEF Within
<1>2. \A a \in D : more[a] = less[a] + one[a]
  BY DEF Within
<1>3. SumOf(one, D) = f[x]
  BY <1>1, SumOfOne
<1>. HIDE DEF more, less, one
<1>4. SumOf(more, D) = SumOf(less, D) + SumOf(one, D)
  BY <1>1, <1>2, SumAdds
<1>. QED BY <1>3, <1>4 DEF more, less

\* Adding up f over distinct elements does not exceed its sum.
LEMMA TotalWithinSum ==
  ASSUME NEW D, IsFiniteSet(D), NEW f \in [D -> Nat], NEW q \in Seq(D), Distinct(q)
  PROVE  Total([i \in DOMAIN q |-> f[q[i]]]) <= SumOf(f, D)
<1>. DEFINE n == Len(q)
            s == [i \in DOMAIN q |-> f[q[i]]]
            first(k) == {q[i] : i \in 1..k}
            part(k) == Within(f, first(k), D)
            sum(k) == SumOf(part(k), D)
<1>1. n \in Nat /\ Len(s) = n /\ \A i \in 1..n : q[i] \in D /\ s[i] = f[q[i]] /\ s[i] \in Int
  OBVIOUS
<1>2. ASSUME NEW k PROVE part(k) \in [D -> Nat] /\ part(k) \in [D -> Int]
  BY DEF Within
<1>. HIDE DEF s, first, part, sum
<1>3. PICK g \in [0..n -> Int] : SumsUp(g, s, n) /\ Total(s) = g[n]
  BY <1>1, TotalIs
<1>4. \A i \in 0..n : g[i] = IF i = 0 THEN 0 ELSE g[i - 1] + s[i]
  BY <1>3, Zenon DEF SumsUp
<1>. DEFINE K == {k \in Nat : k <= n => g[k] = sum(k)}
<1>5. 0 \in K
  <2>. DEFINE z == part(0)
  <2>1. z \in [D -> Int] /\ \A a \in D : z[a] = z[a] + z[a]
    BY DEF Within, part, first
  <2>. HIDE DEF z
  <2>2. SumOf(z, D) = SumOf(z, D) + SumOf(z, D) /\ SumOf(z, D) \in Int
    BY <2>1, SumAdds
  <2>3. sum(0) = 0
    BY <2>2 DEF z, sum
  <2>4. g[0] = 0
    BY <1>1, <1>4
  <2>. QED BY <2>3, <2>4
<1>6. ASSUME NEW k \in Nat, k \in K PROVE k + 1 \in K
  <2>1. SUFFICES ASSUME k + 1 <= n PROVE g[k + 1] = sum(k + 1)
    OBVIOUS
  <2>2. g[k + 1] = g[k] + s[k + 1] /\ g[k] = sum(k)
    <3>1. k + 1 \in 0..n /\ k + 1 # 0 /\ (k + 1) - 1 = k
      BY <1>1, <2>1
    <3>. QED BY <1>4, <1>6, <2>1, <3>1
  <2>. DEFINE x == q[k + 1]
  <2>3. x \in D /\ s[k + 1] = f[x] /\ f[x] \in Int
    BY <1>1, <2>1
  <2>4. x \notin first(k)
    <3>1. ASSUME NEW i \in 1..k PROVE q[i] # q[k + 1]
      <4>1. i \in DOMAIN q /\ k + 1 \in DOMAIN q /\ i # k + 1
        BY <2>1
      <4>. QED BY <4>1, Zenon DEF Distinct
    <3>. QED BY <3>1 DEF first
  <2>5. first(k + 1) = first(k) \cup {x}
    <3>1. 1..k + 1 = (1..k) \cup {k + 1}
      OBVIOUS
    <3>. QED BY <3>1 DEF first
  <2>. HIDE DEF x
  <2>6. SumOf(part(k + 1), D) = SumOf(part(k), D) + f[x]
    BY <2>3, <2>4, <2>5, SumOfMore DEF part
  <2>. QED BY <2>2, <2>3, <2>6 DEF sum
<1>7. n \in K
  <2>. HIDE DEF K
  <2>. QED BY <1>1, <1>5, <1>6, Induction
<1>8. Total(s) = sum(n)
  BY <1>1, <1>3, <1>7
<1>9. SumOf(f, D) >= sum(n) /\ sum(n) \in Int
  <2>1. SumOf(part(n), D) <= SumOf(f, D) /\ SumOf(part(n), D) \in Int
    BY SumOfPart DEF part
  <2>2. SumOf(f, D) \in Nat
    BY SumNotNegative
  <2>. QED BY <2>1, <2>2 DEF sum
<1>. QED BY <1>8, <1>9 DEF s
-----------------------------------------------------------------------------
(* Filtered *)

\* f collects the elements of seq that are in S, step by step.
Collects(f, seq, S) ==
  f = [i \in 0..Len(seq) |->
        IF i = 0 THEN <<>>
        ELSE IF seq[i] \in S THEN Append(f[i - 1], seq[i]) ELSE f[i - 1]]

LEMMA CollectionExists ==
  ASSUME NEW T, NEW seq \in Seq(T), NEW S
  PROVE  \E f \in [0..Len(seq) -> Seq(T)] : Collects(f, seq, S)
<1>. DEFINE n == Len(seq)
            step == [p \in (1..n) \X Seq(T) |->
                       IF seq[p[1]] \in S THEN Append(p[2], seq[p[1]]) ELSE p[2]]
<1>1. ASSUME NEW i \in 1..n, NEW v \in Seq(T)
      PROVE  /\ step[<<i, v>>] = IF seq[i] \in S THEN Append(v, seq[i]) ELSE v
             /\ step[<<i, v>>] \in Seq(T)
  OBVIOUS
<1>2. n \in Nat /\ <<>> \in Seq(T)
  OBVIOUS
<1>. HIDE DEF step
<1>3. PICK f \in [0..n -> Seq(T)] : Recurs(f, n, <<>>, step)
  BY <1>1, <1>2, Recursion
<1>4. ASSUME NEW i \in 0..n
      PROVE  f[i] = IF i = 0 THEN <<>>
                    ELSE IF seq[i] \in S THEN Append(f[i - 1], seq[i]) ELSE f[i - 1]
  <2>1. f[i] = IF i = 0 THEN <<>> ELSE step[<<i, f[i - 1]>>]
    BY <1>3, Zenon DEF Recurs
  <2>2. i # 0 => i \in 1..n /\ f[i - 1] \in Seq(T)
    BY <1>2
  <2>. QED BY <1>1, <2>1, <2>2
<1>5. f = [i \in 0..n |-> f[i]]
  OBVIOUS
<1>6. Collects(f, seq, S)
  BY <1>4, <1>5, Zenon DEF Collects
<1>. QED BY <1>6

\* What is collected is no longer than seq, and as long only if it is all of seq.
LEMMA FilteredIs ==
  ASSUME NEW T, NEW seq \in Seq(T), NEW S
  PROVE  /\ Filtered(seq, S) \in Seq(T \cap S)
         /\ Len(Filtered(seq, S)) <= Len(seq)
         /\ Len(Filtered(seq, S)) = Len(seq) => ToSet(seq) \subseteq S
         /\ ToSet(seq) \subseteq S => Filtered(seq, S) = seq
<1>. DEFINE n == Len(seq)
            F == CHOOSE f : Collects(f, seq, S)
            all(k) == \A j \in 1..k : seq[j] \in S
            good(k) == /\ F[k] \in Seq(T \cap S) /\ Len(F[k]) <= k
                       /\ Len(F[k]) = k => all(k)
                       /\ all(k) => Len(F[k]) = k /\ \A j \in 1..k : F[k][j] = seq[j]
            G == {k \in Nat : k <= n => good(k)}
<1>1. Collects(F, seq, S)
  BY CollectionExists, Zenon
<1>2. Filtered(seq, S) = F[n]
  BY DEF Filtered, Collects
<1>. HIDE DEF F
<1>3. \A i \in 0..n : F[i] = IF i = 0 THEN <<>>
                    ELSE IF seq[i] \in S THEN Append(F[i - 1], seq[i]) ELSE F[i - 1]
  BY <1>1, Zenon DEF Collects
<1>4. n \in Nat
  OBVIOUS
<1>5. 0 \in G
  <2>1. F[0] = <<>>
    BY <1>3, <1>4
  <2>2. <<>> \in Seq(T \cap S) /\ Len(<<>>) = 0
    OBVIOUS
  <2>3. F[0] \in Seq(T \cap S) /\ Len(F[0]) = 0 /\ \A j \in 1..0 : FALSE
    BY <2>1, <2>2
  <2>4. good(0)
    BY <2>3
  <2>. QED BY <2>4
<1>6. ASSUME NEW k \in Nat, k \in G PROVE k + 1 \in G
  <2>1. SUFFICES ASSUME k + 1 <= n PROVE good(k + 1)
    OBVIOUS
  <2>2. good(k)
    BY <1>4, <1>6, <2>1
  <2>3. F[k + 1] = IF seq[k + 1] \in S THEN Append(F[k], seq[k + 1]) ELSE F[k]
    BY <1>3, <1>4, <2>1
  <2>4. seq[k + 1] \in T
    BY <1>4, <2>1
  <2>5. CASE seq[k + 1] \in S
    <3>1. F[k + 1] \in Seq(T \cap S) /\ Len(F[k + 1]) = Len(F[k]) + 1
      BY <2>2, <2>3, <2>4, <2>5
    <3>2. all(k + 1) <=> all(k)
      BY <2>5
    <3>3. ASSUME all(k), NEW j \in 1..k + 1 PROVE F[k + 1][j] = seq[j]
      BY <2>2, <2>3, <2>4, <2>5, <3>3
    <3>. QED BY <2>2, <3>1, <3>2, <3>3
  <2>6. CASE seq[k + 1] \notin S
    <3>1. F[k + 1] = F[k] /\ ~ all(k + 1)
      BY <2>3, <2>6
    <3>2. F[k] \in Seq(T \cap S) /\ Len(F[k]) \in Nat /\ Len(F[k]) <= k
      BY <2>2
    <3>. QED BY <3>1, <3>2
  <2>. QED BY <2>5, <2>6
<1>7. n \in G
  <2>. HIDE DEF G
  <2>. QED BY <1>4, <1>5, <1>6, Induction
<1>8. good(n)
  BY <1>4, <1>7
<1>9. all(n) <=> ToSet(seq) \subseteq S
  BY DEF ToSet
<1>10. ASSUME all(n) PROVE F[n] = seq
  <2>1. F[n] \in Seq(T) /\ Len(F[n]) = Len(seq) /\ \A j \in 1..n : F[n][j] = seq[j]
    BY <1>8, <1>10
  <2>. QED BY <2>1
<1>. QED BY <1>2, <1>8, <1>9, <1>10

\* What is collected are the elements that are in S, each as often as before.
LEMMA FilteredKeeps ==
  ASSUME NEW T, NEW seq \in Seq(T), NEW S
  PROVE  /\ ToSet(Filtered(seq, S)) = ToSet(seq) \cap S
         /\ Distinct(seq) => Distinct(Filtered(seq, S))
<1>. DEFINE n == Len(seq)
            F == CHOOSE f : Collects(f, seq, S)
            first(k) == {seq[i] : i \in 1..k}
            good(k) == /\ F[k] \in Seq(T) /\ ToSet(F[k]) = first(k) \cap S
                       /\ Distinct(seq) => Distinct(F[k])
            G == {k \in Nat : k <= n => good(k)}
<1>1. Collects(F, seq, S)
  BY CollectionExists, Zenon
<1>2. Filtered(seq, S) = F[n]
  BY DEF Filtered, Collects
<1>. HIDE DEF F
<1>3. \A i \in 0..n : F[i] = IF i = 0 THEN <<>>
                    ELSE IF seq[i] \in S THEN Append(F[i - 1], seq[i]) ELSE F[i - 1]
  BY <1>1, Zenon DEF Collects
<1>4. n \in Nat
  OBVIOUS
<1>5. 0 \in G
  <2>1. F[0] = <<>>
    BY <1>3, <1>4
  <2>2. <<>> \in Seq(T) /\ ToSet(<<>>) = {} /\ first(0) = {} /\ Distinct(<<>>)
    BY DEF ToSet, Distinct
  <2>. QED BY <2>1, <2>2
<1>6. ASSUME NEW k \in Nat, k \in G PROVE k + 1 \in G
  <2>1. SUFFICES ASSUME k + 1 <= n PROVE good(k + 1)
    OBVIOUS
  <2>. DEFINE x == seq[k + 1]
              p == F[k]
  <2>2. p \in Seq(T) /\ ToSet(p) = first(k) \cap S /\ (Distinct(seq) => Distinct(p))
    BY <1>4, <1>6, <2>1
  <2>3. F[k + 1] = IF x \in S THEN Append(p, x) ELSE p
    <3>1. k + 1 \in 0..n /\ k + 1 # 0 /\ (k + 1) - 1 = k
      BY <1>4, <2>1
    <3>. QED BY <1>3, <3>1
  <2>4. x \in T /\ first(k + 1) = first(k) \cup {x}
    <3>1. 1..k + 1 = (1..k) \cup {k + 1}
      OBVIOUS
    <3>2. first(k + 1) = first(k) \cup {x}
      BY <3>1, Zenon
    <3>. QED BY <1>4, <2>1, <3>2
  <2>5. Distinct(seq) => x \notin first(k)
    <3>1. SUFFICES ASSUME Distinct(seq), NEW i \in 1..k PROVE seq[i] # seq[k + 1]
      OBVIOUS
    <3>2. i \in DOMAIN seq /\ k + 1 \in DOMAIN seq /\ i # k + 1
      BY <2>1
    <3>. QED BY <3>1, <3>2, Zenon DEF Distinct
  <2>. HIDE DEF x, p, first
  <2>6. CASE x \in S
    <3>. DEFINE q == Append(p, x)
    <3>1. /\ q \in Seq(T) /\ Len(q) = Len(p) + 1 /\ q[Len(p) + 1] = x /\ Len(p) \in Nat
          /\ \A i \in 1..Len(p) : q[i] = p[i]
      BY <2>2, <2>4
    <3>2. F[k + 1] = q
      BY <2>3, <2>6
    <3>. HIDE DEF q
    <3>3. ToSet(q) = ToSet(p) \cup {x}
      <4>1. DOMAIN q = (1..Len(p)) \cup {Len(p) + 1} /\ DOMAIN p = 1..Len(p)
        BY <2>2, <3>1
      <4>. QED BY <3>1, <4>1 DEF ToSet
    <3>4. ASSUME Distinct(p), x \notin ToSet(p) PROVE Distinct(q)
      <4>1. DOMAIN q = (1..Len(p)) \cup {Len(p) + 1} /\ DOMAIN p = 1..Len(p)
        BY <2>2, <3>1
      <4>2. \A i \in 1..Len(p) : q[i] # x
        BY <3>1, <3>4, <4>1 DEF ToSet
      <4>. QED BY <3>1, <3>4, <4>1, <4>2 DEF Distinct
    <3>. QED BY <2>2, <2>4, <2>5, <2>6, <3>1, <3>2, <3>3, <3>4
  <2>7. CASE x \notin S
    BY <2>2, <2>3, <2>4, <2>7 DEF p
  <2>. QED BY <2>6, <2>7
<1>7. good(n)
  <2>1. n \in G
    <3>. HIDE DEF G
    <3>. QED BY <1>4, <1>5, <1>6, Induction
  <2>. QED BY <1>4, <2>1
<1>8. first(n) = ToSet(seq)
  BY DEF ToSet
<1>. QED BY <1>2, <1>7, <1>8
-----------------------------------------------------------------------------
(* What the transactions of a sequence change together *)

Amounts(T) == \A t \in T : t.amount \in Nat /\ t.fee \in Nat

LEMMA NetEffectInt ==
  ASSUME NEW T, Amounts(T), NEW txs \in Seq(T), NEW a
  PROVE  NetEffect(txs, a) \in Int
<1>. DEFINE s == [i \in DOMAIN txs |-> Effect(txs[i], a)]
<1>1. Len(s) = Len(txs) /\ Len(txs) \in Nat /\ \A i \in 1..Len(txs) : s[i] \in Int
  BY DEF Amounts, Effect
<1>. HIDE DEF s
<1>2. Total(s) \in Int
  BY <1>1, TotalInt
<1>. QED BY <1>2 DEF NetEffect, s

LEMMA TotalNotNegative ==
  ASSUME NEW seq, Len(seq) \in Nat, \A i \in 1..Len(seq) : seq[i] \in Int /\ seq[i] >= 0
  PROVE  Total(seq) >= 0
<1>1. PICK f \in [0..Len(seq) -> Int] : SumsUp(f, seq, Len(seq)) /\ Total(seq) = f[Len(seq)]
  BY TotalIs
<1>. DEFINE S == {k \in Nat : k <= Len(seq) => f[k] >= 0}
<1>0. \A i \in 0..Len(seq) : f[i] = IF i = 0 THEN 0 ELSE f[i - 1] + seq[i]
  BY <1>1, Zenon DEF SumsUp
<1>2. 0 \in S
  BY <1>0
<1>3. ASSUME NEW k \in Nat, k \in S PROVE k + 1 \in S
  <2>1. SUFFICES ASSUME k + 1 <= Len(seq) PROVE f[k + 1] >= 0
    OBVIOUS
  <2>2. k + 1 \in 0..Len(seq) /\ k + 1 # 0 /\ (k + 1) - 1 = k
    BY <2>1
  <2>3. f[k + 1] = f[k] + seq[k + 1]
    BY <1>0, <2>2
  <2>4. f[k] >= 0 /\ f[k] \in Int /\ seq[k + 1] \in Int /\ seq[k + 1] >= 0
    BY <1>1, <1>3, <2>1
  <2>. QED BY <2>3, <2>4
<1>. HIDE DEF S
<1>4. Len(seq) \in S
  BY <1>2, <1>3, Induction
<1>. QED BY <1>1, <1>4 DEF S

\* An account that loses has sent one of the transactions.
LEMMA LoserSends ==
  ASSUME NEW T, Amounts(T), NEW txs \in Seq(T), NEW a, NetEffect(txs, a) < 0
  PROVE  \E i \in DOMAIN txs : txs[i].from = a
<1>. DEFINE s == [i \in DOMAIN txs |-> Effect(txs[i], a)]
<1>1. SUFFICES ASSUME \A i \in DOMAIN txs : txs[i].from # a
               PROVE  NetEffect(txs, a) >= 0
  BY NetEffectInt
<1>2. Len(s) = Len(txs) /\ Len(txs) \in Nat
      /\ \A i \in 1..Len(txs) : s[i] \in Int /\ s[i] >= 0
  BY <1>1 DEF Amounts, Effect
<1>. HIDE DEF s
<1>3. Total(s) >= 0
  BY <1>2, TotalNotNegative
<1>. QED BY <1>3 DEF NetEffect, s

\* No account comes to owe.
Pays(txs, bal) == \A a \in Involved(txs) : bal[a] + NetEffect(txs, a) >= 0

\* Among some payments of a sequence, one is the first of the dearest.
LEMMA DearestExists ==
  ASSUME NEW T, Amounts(T), NEW trans \in Seq(T), NEW own \in SUBSET DOMAIN trans, own # {}
  PROVE  \E i \in own : \A j \in own : ~ \/ trans[j].amount > trans[i].amount
                                         \/ trans[j].amount = trans[i].amount /\ j < i
<1>. DEFINE best(i, k) ==
       \A j \in own : j <= k => ~ \/ trans[j].amount > trans[i].amount
                                  \/ trans[j].amount = trans[i].amount /\ j < i
            S == {k \in Nat : k <= Len(trans) /\ (\E i \in own : i <= k)
                              => \E i \in own : i <= k /\ best(i, k)}
<1>1. \A j \in own : j \in 1..Len(trans) /\ trans[j].amount \in Nat
  BY DEF Amounts
<1>2. 0 \in S
  BY <1>1
<1>3. ASSUME NEW k \in Nat, k \in S PROVE k + 1 \in S
  <2>1. SUFFICES ASSUME k + 1 <= Len(trans), NEW h \in own, h <= k + 1
                 PROVE \E i \in own : i <= k + 1 /\ best(i, k + 1)
    OBVIOUS
  <2>2. CASE k + 1 \notin own
    <3>1. h <= k /\ \A j \in own : j <= k + 1 => j <= k
      BY <1>1, <2>1, <2>2
    <3>2. PICK i \in own : i <= k /\ best(i, k)
      BY <1>1, <1>3, <2>1, <3>1
    <3>. QED BY <1>1, <3>1, <3>2
  <2>3. CASE k + 1 \in own /\ ~ \E i \in own : i <= k
    <3>1. \A j \in own : j <= k + 1 => j = k + 1
      BY <1>1, <2>3
    <3>2. ASSUME NEW j \in own, j <= k + 1
          PROVE  ~ \/ trans[j].amount > trans[k + 1].amount
                   \/ trans[j].amount = trans[k + 1].amount /\ j < k + 1
      <4>1. j = k + 1 /\ trans[j].amount \in Nat
        BY <1>1, <3>1, <3>2
      <4>. QED BY <4>1
    <3>3. best(k + 1, k + 1)
      BY <3>2
    <3>. HIDE DEF best
    <3>. QED BY <1>1, <2>3, <3>3
  <2>4. CASE k + 1 \in own /\ \E i \in own : i <= k
    <3>1. PICK i \in own : i <= k /\ best(i, k)
      <4>1. \E i \in own : i <= k /\ best(i, k)
        <5>. HIDE DEF best
        <5>. QED BY <1>3, <2>1, <2>4
      <4>. QED BY <4>1
    <3>2. \A j \in own : j <= k => trans[j].amount <= trans[i].amount
      BY <1>1, <3>1
    <3>3. CASE trans[k + 1].amount > trans[i].amount
      <4>1. ASSUME NEW j \in own, j <= k + 1
            PROVE  ~ \/ trans[j].amount > trans[k + 1].amount
                     \/ trans[j].amount = trans[k + 1].amount /\ j < k + 1
        <5>1. trans[j].amount \in Nat /\ trans[i].amount \in Nat /\ trans[k + 1].amount \in Nat
          BY <1>1, <2>4
        <5>2. CASE j = k + 1
          BY <5>1, <5>2
        <5>3. CASE j # k + 1
          <6>1. trans[j].amount <= trans[i].amount
            BY <1>1, <3>2, <4>1, <5>3
          <6>. QED BY <3>3, <5>1, <6>1
        <5>. QED BY <5>2, <5>3
      <4>2. best(k + 1, k + 1)
        BY <4>1
      <4>. HIDE DEF best
      <4>. QED BY <2>4, <4>2
    <3>4. CASE ~ (trans[k + 1].amount > trans[i].amount)
      <4>1. best(i, k + 1)
        <5> TAKE j \in own
        <5>1. CASE j = k + 1
          BY <1>1, <2>4, <3>1, <3>4, <5>1
        <5>2. CASE j # k + 1
          BY <1>1, <3>1, <5>2
        <5>. QED BY <5>1, <5>2
      <4>. QED BY <1>1, <3>1, <4>1
    <3>. QED BY <3>3, <3>4
  <2>. QED BY <2>2, <2>3, <2>4
<1>. HIDE DEF S
<1>4. Len(trans) \in S
  BY <1>2, <1>3, Induction
<1>5. \A j \in own : j <= Len(trans)
  BY <1>1
<1>6. PICK i \in own : best(i, Len(trans))
  BY <1>4, <1>5 DEF S
<1>. QED BY <1>5, <1>6
-----------------------------------------------------------------------------
(* One round of validate *)

LEMMA PayableIsPart ==
  ASSUME NEW T, NEW trans, NEW txs \in Seq(T), NEW bal
  PROVE  Payable(trans, txs, bal) \in Seq(T) /\ Len(Payable(trans, txs, bal)) <= Len(txs)
<1>1. ASSUME NEW S PROVE Filtered(txs, S) \in Seq(T) /\ Len(Filtered(txs, S)) <= Len(txs)
  <2>1. Filtered(txs, S) \in Seq(T \cap S) /\ Len(Filtered(txs, S)) <= Len(txs)
    BY FilteredIs
  <2>. QED BY <2>1
<1>. QED BY <1>1 DEF Payable

\* A round keeps everything that can be paid ...
LEMMA PayableKeeps ==
  ASSUME NEW T, NEW trans, NEW txs \in Seq(T), NEW bal, Pays(txs, bal), Amounts(T),
         \A a \in Account : bal[a] \in Int
  PROVE  Payable(trans, txs, bal) = txs
<1>1. {x \in Involved(txs) : bal[x] + NetEffect(txs, x) < 0} = {}
  <2>1. ASSUME NEW x \in Involved(txs) PROVE ~ (bal[x] + NetEffect(txs, x) < 0)
    <3>1. x \in Account
      BY DEF Involved
    <3>. QED BY <3>1, NetEffectInt DEF Pays
  <2>. QED BY <2>1
<1>2. Filtered(txs, ToSet(txs)) = txs
  BY FilteredIs
<1>3. Payable(trans, txs, bal) = Filtered(txs, ToSet(txs) \ {})
  <2>1. UNION {ToRemove(trans, bal[a] + NetEffect(txs, a), a) : a \in {}} = {}
    OBVIOUS
  <2>. QED BY <1>1, <2>1 DEF Payable
<1>. QED BY <1>2, <1>3

\* The first of the dearest payments of an account that owes is removed.
LEMMA DearestIsRemoved ==
  ASSUME NEW T, Amounts(T), NEW txs \in Seq(T), NEW a, NEW debt \in Int, debt < 0,
         \E i \in DOMAIN txs : txs[i].from = a
  PROVE  ToRemove(txs, debt, a) \cap ToSet(txs) # {}
<1>. DEFINE own == {i \in DOMAIN txs : txs[i].from = a}
            before(i) == {j \in own : \/ txs[j].amount > txs[i].amount
                                      \/ txs[j].amount = txs[i].amount /\ j < i}
            part(i) == [j \in DOMAIN txs |->
                          IF j \in before(i) THEN txs[j].amount + txs[j].fee ELSE 0]
<1>1. PICK i \in own : before(i) = {}
  <2>0. own \in SUBSET DOMAIN txs /\ own # {}
    OBVIOUS
  <2>1. \E i \in own : \A j \in own : ~ \/ txs[j].amount > txs[i].amount
                                        \/ txs[j].amount = txs[i].amount /\ j < i
    <3>. HIDE DEF own
    <3>. QED BY <2>0, DearestExists
  <2>. QED BY <2>1
<1>2. Len(part(i)) \in Nat /\ \A j \in 1..Len(part(i)) : part(i)[j] = 0
  BY <1>1
<1>3. Total(part(i)) = 0
  <2>. HIDE DEF part
  <2>. QED BY <1>2, TotalZero
<1>4. debt + Total(part(i)) < 0
  BY <1>3
<1>5. txs[i] \in ToRemove(txs, debt, a)
  BY <1>4 DEF ToRemove
<1>6. txs[i] \in ToSet(txs)
  BY DEF ToSet
<1>. QED BY <1>5, <1>6

\* ... and removes something while an account owes.
LEMMA PayableRemoves ==
  ASSUME NEW T, Amounts(T), NEW txs \in Seq(T), NEW bal, ~ Pays(txs, bal),
         \A a \in Account : bal[a] \in Nat
  PROVE  Len(Payable(txs, txs, bal)) < Len(txs)
<1>. DEFINE after(a) == bal[a] + NetEffect(txs, a)
            removed == UNION {ToRemove(txs, after(a), a) :
                                a \in {x \in Involved(txs) : after(x) < 0}}
<1>1. PICK a \in Involved(txs) : ~ (after(a) >= 0)
  BY DEF Pays
<1>2. a \in Account /\ NetEffect(txs, a) \in Int /\ after(a) \in Int
  BY NetEffectInt DEF Involved
<1>3. after(a) < 0 /\ NetEffect(txs, a) < 0
  BY <1>1, <1>2
<1>4. \E i \in DOMAIN txs : txs[i].from = a
  BY <1>3, LoserSends
<1>5. ToRemove(txs, after(a), a) \cap ToSet(txs) # {}
  <2>. HIDE DEF after
  <2>. QED BY <1>2, <1>3, <1>4, DearestIsRemoved
<1>6. ToRemove(txs, after(a), a) \subseteq removed
  BY <1>3
<1>7. Payable(txs, txs, bal) = Filtered(txs, ToSet(txs) \ removed)
  BY DEF Payable
<1>. HIDE DEF removed
<1>8. ~ (ToSet(txs) \subseteq ToSet(txs) \ removed)
  BY <1>5, <1>6
<1>9. /\ Len(Filtered(txs, ToSet(txs) \ removed)) <= Len(txs)
      /\ Len(Filtered(txs, ToSet(txs) \ removed)) # Len(txs)
      /\ Filtered(txs, ToSet(txs) \ removed) \in Seq(T \cap (ToSet(txs) \ removed))
  BY <1>8, FilteredIs
<1>10. Len(txs) \in Nat /\ Len(Filtered(txs, ToSet(txs) \ removed)) \in Nat
  BY <1>9
<1>. QED BY <1>7, <1>9, <1>10

\* A round spares the payments of those who do not owe.
LEMMA PayableSpares ==
  ASSUME NEW T, Amounts(T), NEW trans \in Seq(T), NEW txs \in Seq(T), NEW bal,
         NEW t \in ToSet(txs), bal[t.from] \in Int, bal[t.from] + NetEffect(txs, t.from) >= 0
  PROVE  t \in ToSet(Payable(trans, txs, bal))
<1>. DEFINE after(a) == bal[a] + NetEffect(txs, a)
            removed == UNION {ToRemove(trans, after(a), a) :
                                a \in {x \in Involved(txs) : after(x) < 0}}
<1>1. ~ (after(t.from) < 0)
  BY NetEffectInt
<1>2. ASSUME NEW a, NEW debt, NEW u \in ToRemove(trans, debt, a) PROVE u.from = a
  BY DEF ToRemove
<1>. HIDE DEF after
<1>3. t \notin removed
  BY <1>1, <1>2
<1>4. Payable(trans, txs, bal) = Filtered(txs, ToSet(txs) \ removed)
  BY DEF Payable, after
<1>. HIDE DEF removed
<1>. QED BY <1>3, <1>4, FilteredKeeps
-----------------------------------------------------------------------------
(* validate *)

Parts(trans) == UNION {[1..n -> ToSet(trans)] : n \in 0..Len(trans)}

LEMMA SequenceOver ==
  ASSUME NEW T, NEW s \in Seq(T), NEW D, ToSet(s) \subseteq D
  PROVE  s \in Seq(D)
<1>1. \A i \in 1..Len(s) : s[i] \in D
  BY DEF ToSet
<1>. QED BY <1>1

LEMMA PartsAre ==
  ASSUME NEW T, NEW trans \in Seq(T)
  PROVE  /\ \A s \in Parts(trans) : s \in Seq(ToSet(trans)) /\ s \in Seq(T)
                                    /\ Len(s) <= Len(trans)
         /\ \A s \in Seq(ToSet(trans)) : Len(s) <= Len(trans) => s \in Parts(trans)
         /\ trans \in Seq(ToSet(trans))
<1>1. ToSet(trans) \subseteq T
  BY DEF ToSet
<1>2. ASSUME NEW s \in Parts(trans)
      PROVE  s \in Seq(ToSet(trans)) /\ s \in Seq(T) /\ Len(s) <= Len(trans)
  <2>1. PICK n \in 0..Len(trans) : s \in [1..n -> ToSet(trans)]
    BY DEF Parts
  <2>2. s \in Seq(ToSet(trans)) /\ Len(s) = n
    BY <2>1
  <2>. QED BY <1>1, <2>1, <2>2
<1>3. ASSUME NEW s \in Seq(ToSet(trans)), Len(s) <= Len(trans)
      PROVE  s \in Parts(trans)
  <2>1. Len(s) \in 0..Len(trans) /\ s \in [1..Len(s) -> ToSet(trans)]
    BY <1>3
  <2>. QED BY <2>1 DEF Parts
<1>4. trans \in Seq(ToSet(trans))
  BY DEF ToSet
<1>. QED BY <1>2, <1>3, <1>4

\* What a round considers: the transactions it was given, and those that are ok.
Considered(s, ok) == [trans |-> s, txs |-> Filtered(s, ok)]

\* What the round after r considers.
After(r, bal, ok) ==
  IF Len(Payable(r.trans, r.txs, bal)) = Len(r.txs) THEN r
  ELSE Considered(Payable(r.trans, r.txs, bal), ok)

\* The rounds of validate.
Validates(f, trans, bal, ok) ==
  /\ f \in [0..Len(trans) -> [trans : Parts(trans), txs : Parts(trans)]]
  /\ \A i \in 0..Len(trans) :
       f[i] = IF i = 0 THEN Considered(trans, ok) ELSE After(f[i - 1], bal, ok)

LEMMA ConsideredIs ==
  ASSUME NEW T, NEW trans \in Seq(T), NEW s \in Parts(trans), NEW ok
  PROVE  Considered(s, ok) \in [trans : Parts(trans), txs : Parts(trans)]
<1>1. s \in Seq(ToSet(trans)) /\ Len(s) <= Len(trans)
  BY PartsAre
<1>2. /\ Filtered(s, ok) \in Seq(ToSet(trans) \cap ok)
      /\ Len(Filtered(s, ok)) <= Len(s)
  BY <1>1, FilteredIs
<1>3. Filtered(s, ok) \in Seq(ToSet(trans)) /\ Len(Filtered(s, ok)) \in Nat
      /\ Len(s) \in Nat /\ Len(trans) \in Nat
  BY <1>1, <1>2
<1>4. Filtered(s, ok) \in Parts(trans)
  BY <1>1, <1>2, <1>3, PartsAre
<1>. QED BY <1>4 DEF Considered

LEMMA AfterIs ==
  ASSUME NEW T, NEW trans \in Seq(T), NEW bal, NEW ok,
         NEW r \in [trans : Parts(trans), txs : Parts(trans)]
  PROVE  After(r, bal, ok) \in [trans : Parts(trans), txs : Parts(trans)]
<1>1. r.txs \in Seq(ToSet(trans)) /\ Len(r.txs) <= Len(trans)
  BY PartsAre
<1>2. /\ Payable(r.trans, r.txs, bal) \in Seq(ToSet(trans))
      /\ Len(Payable(r.trans, r.txs, bal)) <= Len(r.txs)
  BY <1>1, PayableIsPart
<1>3. Len(Payable(r.trans, r.txs, bal)) \in Nat /\ Len(r.txs) \in Nat /\ Len(trans) \in Nat
  BY <1>1, <1>2
<1>4. Payable(r.trans, r.txs, bal) \in Parts(trans)
  BY <1>1, <1>2, <1>3, PartsAre
<1>. QED BY <1>4, ConsideredIs DEF After

\* ValidateAll is what the last of its rounds considers.
LEMMA ValidateAllIs ==
  ASSUME NEW T, NEW trans \in Seq(T), NEW bal, NEW ok
  PROVE  \E f : Validates(f, trans, bal, ok)
                /\ ValidateAll(trans, bal, ok) = f[Len(trans)].txs
<1>. DEFINE n == Len(trans)
            V == [trans : Parts(trans), txs : Parts(trans)]
            again == [r \in V |-> After(r, bal, ok)]
            step == [p \in (1..n) \X V |-> again[p[2]]]
            base == Considered(trans, ok)
            F == CHOOSE f : f = [i \in 0..n |-> IF i = 0 THEN base ELSE again[f[i - 1]]]
<1>1. n \in Nat
  OBVIOUS
<1>2. base \in V
  <2>1. trans \in Parts(trans)
    BY PartsAre
  <2>. QED BY <2>1, ConsideredIs
<1>3. ASSUME NEW r \in V PROVE again[r] = After(r, bal, ok) /\ again[r] \in V
  BY AfterIs
<1>4. ValidateAll(trans, bal, ok) = F[n].txs
  BY DEF ValidateAll, Parts, Considered, After
<1>. HIDE DEF again, base, V
<1>5. ASSUME NEW i \in 1..n, NEW v \in V PROVE step[<<i, v>>] = again[v] /\ step[<<i, v>>] \in V
  BY <1>3
<1>. HIDE DEF step
<1>6. PICK g \in [0..n -> V] : Recurs(g, n, base, step)
  BY <1>1, <1>2, <1>5, Recursion
<1>7. g = [i \in 0..n |-> IF i = 0 THEN base ELSE again[g[i - 1]]]
  <2>1. ASSUME NEW i \in 0..n PROVE g[i] = IF i = 0 THEN base ELSE again[g[i - 1]]
    <3>1. g[i] = IF i = 0 THEN base ELSE step[<<i, g[i - 1]>>]
      BY <1>6, Zenon DEF Recurs
    <3>2. i # 0 => i \in 1..n /\ g[i - 1] \in V
      BY <1>1
    <3>. QED BY <1>5, <3>1, <3>2
  <2>2. g = [i \in 0..n |-> g[i]]
    OBVIOUS
  <2>. QED BY <2>1, <2>2, Zenon
<1>8. F = [i \in 0..n |-> IF i = 0 THEN base ELSE again[F[i - 1]]]
  <2>. DEFINE IsF(f) == f = [i \in 0..n |-> IF i = 0 THEN base ELSE again[f[i - 1]]]
  <2>1. \E f : IsF(f)
    BY <1>7
  <2>2. F = CHOOSE f : IsF(f)
    OBVIOUS
  <2>. HIDE DEF IsF, F
  <2>3. IsF(F)
    BY <2>1, <2>2, Zenon
  <2>. QED BY <2>3 DEF IsF
<1>. HIDE DEF F
<1>9. \A i \in 0..n : F[i] = IF i = 0 THEN base ELSE again[F[i - 1]]
  BY <1>8, Zenon
<1>10. ASSUME NEW k \in 0..n PROVE F[k] \in V
  <2>1. F[0] \in V
    BY <1>1, <1>2, <1>9
  <2>2. ASSUME NEW i \in 1..k, F[i - 1] \in V PROVE F[i] \in V
    BY <1>1, <1>3, <1>9, <2>2
  <2>3. k \in Nat
    OBVIOUS
  <2>. QED BY <2>1, <2>2, <2>3, RecursionStays
<1>11. F \in [0..n -> V]
  <2>1. F = [i \in 0..n |-> F[i]]
    BY <1>8, <1>9, Zenon
  <2>. QED BY <1>10, <2>1
<1>12. \A i \in 0..n : F[i] = IF i = 0 THEN base ELSE After(F[i - 1], bal, ok)
  <2> TAKE i \in 0..n
  <2>1. i # 0 => again[F[i - 1]] = After(F[i - 1], bal, ok)
    <3>1. i # 0 => i - 1 \in 0..n
      BY <1>1
    <3>. QED BY <1>3, <1>10, <3>1
  <2>. QED BY <1>9, <2>1
<1>13. Validates(F, trans, bal, ok)
  BY <1>11, <1>12 DEF Validates, V, base
<1>. QED BY <1>4, <1>13

\* A round that is given nothing but what is ok ends validate if all of it can be
\* paid, and gives less to the next one if not.
LEMMA FreshRound ==
  ASSUME NEW T, Amounts(T), NEW q \in Seq(T), NEW bal, NEW ok, ToSet(q) \subseteq ok,
         \A a \in Account : bal[a] \in Nat
  PROVE  \E p \in Seq(ToSet(q)) :
           /\ After([trans |-> q, txs |-> q], bal, ok) = [trans |-> p, txs |-> p]
           /\ Pays(q, bal) => p = q
           /\ ~ Pays(q, bal) => Len(p) < Len(q)
<1>. DEFINE left == Payable(q, q, bal)
<1>1. q \in Seq(ToSet(q))
  BY DEF ToSet
<1>2. CASE Pays(q, bal)
  <2>1. left = q
    BY <1>2, PayableKeeps
  <2>2. After([trans |-> q, txs |-> q], bal, ok) = [trans |-> q, txs |-> q]
    BY <2>1 DEF After
  <2>. QED BY <1>1, <1>2, <2>2
<1>3. CASE ~ Pays(q, bal)
  <2>1. Len(left) < Len(q)
    BY <1>3, PayableRemoves
  <2>2. left \in Seq(ToSet(q))
    BY <1>1, PayableIsPart
  <2>. HIDE DEF left
  <2>3. ToSet(left) \subseteq ok
    BY <2>2 DEF ToSet
  <2>4. Filtered(left, ok) = left
    BY <2>2, <2>3, FilteredIs
  <2>5. Len(left) # Len(q)
    BY <2>1, <2>2
  <2>6. After([trans |-> q, txs |-> q], bal, ok) = [trans |-> left, txs |-> left]
    BY <2>4, <2>5 DEF After, Considered, left
  <2>. QED BY <1>3, <2>1, <2>2, <2>6
<1>. QED BY <1>2, <1>3

\* Asked about nothing but what is ok, validate answers what can be paid together,
\* and everything if that can be paid.
LEMMA FreshValidates ==
  ASSUME NEW T, Amounts(T), NEW trans \in Seq(T), NEW bal, NEW ok, ToSet(trans) \subseteq ok,
         \A a \in Account : bal[a] \in Nat
  PROVE  /\ Pays(ValidateAll(trans, bal, ok), bal)
         /\ Pays(trans, bal) => ValidateAll(trans, bal, ok) = trans
         /\ Len(ValidateAll(trans, bal, ok)) = Len(trans) => ValidateAll(trans, bal, ok) = trans
<1>. DEFINE n == Len(trans)
            good(q, k) == /\ q \in Seq(ToSet(trans)) /\ Len(q) <= n
                          /\ Len(q) = n => q = trans
                          /\ Pays(trans, bal) => q = trans
                          /\ Pays(q, bal) \/ Len(q) <= n - k
<1>1. PICK f : Validates(f, trans, bal, ok) /\ ValidateAll(trans, bal, ok) = f[n].txs
  BY ValidateAllIs
<1>2. n \in Nat /\ trans \in Seq(ToSet(trans)) /\ ToSet(trans) \subseteq T
  BY DEF ToSet
<1>3. \A i \in 0..n : f[i] = IF i = 0 THEN Considered(trans, ok) ELSE After(f[i - 1], bal, ok)
  BY <1>1 DEF Validates
<1>. DEFINE reached(k) == \E q : f[k] = [trans |-> q, txs |-> q] /\ good(q, k)
            S == {k \in Nat : k <= n => reached(k)}
<1>4. 0 \in S
  <2>1. f[0] = Considered(trans, ok)
    BY <1>2, <1>3
  <2>2. Filtered(trans, ok) = trans
    BY FilteredIs
  <2>3. f[0] = [trans |-> trans, txs |-> trans]
    BY <2>1, <2>2 DEF Considered
  <2>4. good(trans, 0)
    BY <1>2
  <2>. QED BY <2>3, <2>4
<1>5. ASSUME NEW k \in Nat, k \in S PROVE k + 1 \in S
  <2>1. SUFFICES ASSUME k + 1 <= n PROVE reached(k + 1)
    <3>. HIDE DEF reached
    <3>. QED OBVIOUS
  <2>2. PICK q : f[k] = [trans |-> q, txs |-> q] /\ good(q, k)
    <3>1. reached(k)
      <4>. HIDE DEF reached
      <4>. QED BY <1>2, <1>5, <2>1
    <3>. QED BY <3>1
  <2>3. f[k + 1] = After(f[k], bal, ok)
    BY <1>2, <1>3, <2>1
  <2>4. q \in Seq(ToSet(trans)) /\ q \in Seq(T) /\ ToSet(q) \subseteq ToSet(trans)
        /\ Len(q) \in Nat
    BY <1>2, <2>2 DEF ToSet
  <2>5. PICK p \in Seq(ToSet(q)) :
           /\ After([trans |-> q, txs |-> q], bal, ok) = [trans |-> p, txs |-> p]
           /\ Pays(q, bal) => p = q
           /\ ~ Pays(q, bal) => Len(p) < Len(q)
    <3>1. ToSet(q) \subseteq ok
      BY <2>4
    <3>. QED BY <2>4, <3>1, FreshRound
  <2>6. f[k + 1] = [trans |-> p, txs |-> p]
    BY <2>2, <2>3, <2>5
  <2>7. p \in Seq(ToSet(trans)) /\ Len(p) \in Nat
    BY <2>4, <2>5
  <2>8. CASE Pays(q, bal)
    <3>1. p = q
      BY <2>5, <2>8
    <3>2. good(q, k + 1)
      BY <2>2, <2>8
    <3>. QED BY <2>6, <3>1, <3>2
  <2>9. CASE ~ Pays(q, bal)
    <3>1. Len(p) < Len(q) /\ Len(q) <= n - k /\ Len(q) <= n
      BY <2>2, <2>5, <2>9
    <3>2. ~ Pays(trans, bal)
      BY <2>2, <2>9
    <3>3. Len(p) <= n - (k + 1) /\ Len(p) <= n /\ Len(p) # n
      BY <1>2, <2>4, <2>7, <3>1
    <3>4. good(p, k + 1)
      BY <2>7, <3>2, <3>3
    <3>. QED BY <2>6, <3>4
  <2>. QED BY <2>8, <2>9
<1>6. n \in S
  <2>. HIDE DEF S
  <2>. QED BY <1>2, <1>4, <1>5, Induction
<1>7. PICK q : f[n] = [trans |-> q, txs |-> q] /\ good(q, n)
  BY <1>2, <1>6
<1>8. ValidateAll(trans, bal, ok) = q
  BY <1>1, <1>7
<1>9. Pays(q, bal)
  <2>1. ASSUME Len(q) <= n - n PROVE Pays(q, bal)
    <3>1. q = <<>>
      BY <1>2, <1>7, <2>1
    <3>2. Involved(<<>>) = {}
      BY DEF Involved, ToSet
    <3>. QED BY <3>1, <3>2 DEF Pays
  <2>. QED BY <1>7, <2>1
<1>. QED BY <1>7, <1>8, <1>9

\* Whatever it is asked about, validate answers a part of it, and as much only if
\* all of it is ok.
LEMMA ValidatesPart ==
  ASSUME NEW T, NEW trans \in Seq(T), NEW bal, NEW ok
  PROVE  /\ ValidateAll(trans, bal, ok) \in Seq(ToSet(trans))
         /\ ValidateAll(trans, bal, ok) \in Seq(T)
         /\ Len(ValidateAll(trans, bal, ok)) = Len(trans) => ToSet(trans) \subseteq ok
<1>. DEFINE n == Len(trans)
            V == [trans : Parts(trans), txs : Parts(trans)]
            m == Len(Filtered(trans, ok))
            W == {r \in V : Len(r.txs) <= m}
<1>1. PICK f : Validates(f, trans, bal, ok) /\ ValidateAll(trans, bal, ok) = f[n].txs
  BY ValidateAllIs
<1>2. /\ n \in Nat
      /\ f \in [0..n -> V]
      /\ \A i \in 0..n : f[i] = IF i = 0 THEN Considered(trans, ok) ELSE After(f[i - 1], bal, ok)
  BY <1>1 DEF Validates
<1>3. m \in Nat /\ m <= n /\ (m = n => ToSet(trans) \subseteq ok)
  <2>1. Filtered(trans, ok) \in Seq(T \cap ok)
    BY FilteredIs
  <2>. QED BY <2>1, FilteredIs
<1>. HIDE DEF V, m
<1>4. f[0] \in W
  <2>1. f[0] = Considered(trans, ok) /\ f[0] \in V
    BY <1>2
  <2>. QED BY <1>3, <2>1 DEF Considered, m
<1>5. ASSUME NEW i \in 1..n, f[i - 1] \in W PROVE f[i] \in W
  <2>. DEFINE r == f[i - 1]
              left == Payable(r.trans, r.txs, bal)
  <2>1. f[i] = After(r, bal, ok) /\ f[i] \in V
    BY <1>2
  <2>2. r.txs \in Seq(T) /\ Len(r.txs) <= m
    BY <1>5, PartsAre DEF V
  <2>. HIDE DEF r
  <2>3. left \in Seq(T) /\ Len(left) <= Len(r.txs)
    BY <2>2, PayableIsPart
  <2>. HIDE DEF left
  <2>4. Filtered(left, ok) \in Seq(T \cap ok) /\ Len(Filtered(left, ok)) <= Len(left)
    BY <2>3, FilteredIs
  <2>5. Len(Filtered(left, ok)) <= m
    BY <1>3, <2>2, <2>3, <2>4
  <2>6. f[i] = r \/ f[i] = Considered(left, ok)
    BY <2>1 DEF After, left
  <2>7. f[i] = Considered(left, ok) => f[i].txs = Filtered(left, ok)
    BY DEF Considered
  <2>. QED BY <2>1, <2>2, <2>5, <2>6, <2>7
<1>6. f[n] \in W
  <2>. HIDE DEF W
  <2>. QED BY <1>2, <1>4, <1>5, RecursionStays
<1>7. f[n].txs \in Parts(trans) /\ Len(f[n].txs) <= m
  BY <1>6 DEF V
<1>8. /\ f[n].txs \in Seq(ToSet(trans)) /\ f[n].txs \in Seq(T)
      /\ Len(f[n].txs) \in Nat
  BY <1>7, PartsAre
<1>. QED BY <1>1, <1>2, <1>3, <1>7, <1>8

\* An answer as long as the question is the question, and can be paid.
LEMMA ValidatesWhole ==
  ASSUME NEW T, Amounts(T), NEW trans \in Seq(T), NEW bal, NEW ok,
         \A a \in Account : bal[a] \in Nat,
         Len(ValidateAll(trans, bal, ok)) = Len(trans)
  PROVE  ToSet(trans) \subseteq ok /\ Pays(trans, bal)
<1>1. ToSet(trans) \subseteq ok
  BY ValidatesPart
<1>. QED BY <1>1, FreshValidates

\* What account a pays for a transaction it sends.
Cost(t, a) == IF t.from = a THEN t.amount + t.fee ELSE 0

\* Distinct transactions take no more from an account than all that it sends.
LEMMA SpendsAtMost ==
  ASSUME NEW D, IsFiniteSet(D), Amounts(D), NEW q \in Seq(D), Distinct(q), NEW a
  PROVE  NetEffect(q, a) + SumOf([t \in D |-> Cost(t, a)], D) >= 0
<1>. DEFINE n == Len(q)
            f == [t \in D |-> Cost(t, a)]
            paid == [i \in DOMAIN q |-> f[q[i]]]
            net == [i \in DOMAIN q |-> Effect(q[i], a)]
            got == [i \in DOMAIN q |-> IF a = q[i].to THEN q[i].amount ELSE 0]
<1>1. n \in Nat /\ Len(paid) = n /\ Len(net) = n /\ Len(got) = n
  OBVIOUS
<1>2. ASSUME NEW i \in 1..n
      PROVE  /\ net[i] \in Int /\ paid[i] \in Int /\ got[i] \in Int /\ got[i] >= 0
             /\ got[i] = net[i] + paid[i]
  <2>1. q[i] \in D /\ q[i].amount \in Nat /\ q[i].fee \in Nat
    BY DEF Amounts
  <2>2. /\ net[i] = Effect(q[i], a) /\ paid[i] = Cost(q[i], a)
        /\ got[i] = IF a = q[i].to THEN q[i].amount ELSE 0
    BY <2>1
  <2>. HIDE DEF net, paid, got, f
  <2>3. CASE a = q[i].from /\ a = q[i].to
    BY <2>1, <2>2, <2>3 DEF Effect, Cost
  <2>4. CASE a = q[i].from /\ a # q[i].to
    BY <2>1, <2>2, <2>4 DEF Effect, Cost
  <2>5. CASE a # q[i].from
    BY <2>1, <2>2, <2>5 DEF Effect, Cost
  <2>. QED BY <2>3, <2>4, <2>5
<1>3. f \in [D -> Nat]
  BY DEF Amounts, Cost
<1>4. Total(paid) <= SumOf(f, D)
  <2>. HIDE DEF f
  <2>. QED BY <1>3, TotalWithinSum
<1>5. SumOf(f, D) \in Nat
  <2>. HIDE DEF f
  <2>. QED BY <1>3, SumNotNegative
<1>6. NetEffect(q, a) = Total(net)
  BY DEF NetEffect
<1>. HIDE DEF paid, net, got, f
<1>7. Total(got) = Total(net) + Total(paid)
  BY <1>1, <1>2, TotalAdds
<1>8. Total(got) >= 0 /\ Total(net) \in Int /\ Total(paid) \in Int
  BY <1>1, <1>2, TotalNotNegative, TotalInt
<1>9. Total(net) + SumOf(f, D) >= 0
  BY <1>4, <1>5, <1>7, <1>8
<1>. QED BY <1>6, <1>9 DEF f

\* validate spares the transactions that are ok of an account that can pay for all
\* that it sends, whatever else it is asked about.
LEMMA ValidateSpares ==
  ASSUME NEW T, Amounts(T), NEW trans \in Seq(T), Distinct(trans), NEW bal, NEW ok,
         NEW D \in SUBSET T, IsFiniteSet(D), ToSet(trans) \cap ok \subseteq D,
         NEW t \in ToSet(trans) \cap ok, bal[t.from] \in Int,
         SumOf([x \in D |-> Cost(x, t.from)], D) <= bal[t.from]
  PROVE  t \in ToSet(ValidateAll(trans, bal, ok))
<1>. DEFINE n == Len(trans)
            V == [trans : Parts(trans), txs : Parts(trans)]
            W == {r \in V : Distinct(r.txs) /\ r.txs \in Seq(D) /\ t \in ToSet(r.txs)}
<1>1. PICK f : Validates(f, trans, bal, ok) /\ ValidateAll(trans, bal, ok) = f[n].txs
  BY ValidateAllIs
<1>2. /\ n \in Nat
      /\ f \in [0..n -> V]
      /\ \A i \in 0..n : f[i] = IF i = 0 THEN Considered(trans, ok) ELSE After(f[i - 1], bal, ok)
  BY <1>1 DEF Validates
<1>3. Amounts(D)
  BY DEF Amounts
<1>. HIDE DEF V
<1>4. ASSUME NEW s \in Seq(T), ToSet(s) \subseteq ToSet(trans), Distinct(s), t \in ToSet(s)
      PROVE  /\ Distinct(Filtered(s, ok)) /\ Filtered(s, ok) \in Seq(D)
             /\ t \in ToSet(Filtered(s, ok))
  <2>1. ToSet(Filtered(s, ok)) = ToSet(s) \cap ok /\ Distinct(Filtered(s, ok))
    BY <1>4, FilteredKeeps
  <2>2. Filtered(s, ok) \in Seq(T \cap ok)
    BY FilteredIs
  <2>3. Filtered(s, ok) \in Seq(D)
    BY <1>4, <2>1, <2>2, SequenceOver
  <2>. QED BY <1>4, <2>1, <2>3
<1>5. f[0] \in W
  <2>1. f[0] = Considered(trans, ok) /\ f[0] \in V
    BY <1>2
  <2>2. f[0].txs = Filtered(trans, ok)
    BY <2>1 DEF Considered
  <2>. QED BY <1>4, <2>1, <2>2
<1>6. ASSUME NEW i \in 1..n, f[i - 1] \in W PROVE f[i] \in W
  <2>. DEFINE r == f[i - 1]
              left == Payable(r.trans, r.txs, bal)
  <2>1. f[i] = After(r, bal, ok) /\ f[i] \in V
    BY <1>2
  <2>2. /\ r.trans \in Seq(T) /\ r.txs \in Seq(T) /\ ToSet(r.txs) \subseteq ToSet(trans)
        /\ Distinct(r.txs) /\ r.txs \in Seq(D) /\ t \in ToSet(r.txs) /\ r \in W
    <3>1. r \in V /\ Distinct(r.txs) /\ r.txs \in Seq(D) /\ t \in ToSet(r.txs)
      BY <1>6
    <3>2. r.trans \in Parts(trans) /\ r.txs \in Parts(trans)
      BY <3>1 DEF V
    <3>. HIDE DEF r
    <3>3. r.trans \in Seq(T) /\ r.txs \in Seq(T) /\ r.txs \in Seq(ToSet(trans))
      BY <3>2, PartsAre
    <3>4. ToSet(r.txs) \subseteq ToSet(trans)
      BY <3>3 DEF ToSet
    <3>. QED BY <3>1, <3>3, <3>4
  <2>. HIDE DEF r
  <2>3. bal[t.from] + NetEffect(r.txs, t.from) >= 0
    <3>1. NetEffect(r.txs, t.from) + SumOf([x \in D |-> Cost(x, t.from)], D) >= 0
      BY <1>3, <2>2, SpendsAtMost
    <3>2. NetEffect(r.txs, t.from) \in Int
      BY <2>2, NetEffectInt
    <3>3. [x \in D |-> Cost(x, t.from)] \in [D -> Nat]
      BY <1>3 DEF Amounts, Cost
    <3>4. SumOf([x \in D |-> Cost(x, t.from)], D) \in Nat
      BY <3>3, SumNotNegative
    <3>. QED BY <3>1, <3>2, <3>4
  <2>4. t \in ToSet(left)
    BY <2>2, <2>3, PayableSpares
  <2>5. \E S : left = Filtered(r.txs, S)
    BY DEF Payable
  <2>. HIDE DEF left
  <2>6. /\ left \in Seq(T) /\ Distinct(left) /\ ToSet(left) \subseteq ToSet(trans)
    <3>1. PICK S : left = Filtered(r.txs, S)
      BY <2>5
    <3>2. ToSet(left) = ToSet(r.txs) \cap S /\ Distinct(left) /\ left \in Seq(T \cap S)
      BY <2>2, <3>1, FilteredKeeps, FilteredIs
    <3>. QED BY <2>2, <3>2
  <2>7. /\ Distinct(Filtered(left, ok)) /\ Filtered(left, ok) \in Seq(D)
        /\ t \in ToSet(Filtered(left, ok))
    BY <1>4, <2>4, <2>6
  <2>8. f[i] = r \/ f[i] = Considered(left, ok)
    BY <2>1 DEF After, left
  <2>9. f[i] = Considered(left, ok) => f[i].txs = Filtered(left, ok)
    BY DEF Considered
  <2>. QED BY <2>1, <2>2, <2>7, <2>8, <2>9
<1>7. f[n] \in W
  <2>. HIDE DEF W
  <2>. QED BY <1>2, <1>5, <1>6, RecursionStays
<1>. QED BY <1>1, <1>7
=============================================================================
