----------------------- MODULE StoredBlockTreeProofs -----------------------
(* For every block set, reference structure, scores, MaxRollback and number  *)
(* of crashes: the stored tree is consistent, its best block has the highest *)
(* score of all completed appends, and the announced score never drops.      *)
EXTENDS StoredBlockTree, FiniteSetTheorems, WellFoundedInduction, TLAPS

TreeTyped ==
  /\ DOMAIN tree \subseteq Block
  /\ \A b \in DOMAIN tree : tree[b] \in [score : Nat, height : Nat \ {0}]

\* The inductive invariant.  While nothing is stored the best block can only
\* be none, or the genesis block of an append cut short.
TreeInv ==
  /\ TreeTyped
  /\ DOMAIN tree = {} => best \in {None, Genesis}
  /\ TreeConsistent
  /\ BestIsMax

\* Writing b under a stored parent, or Genesis as the root of an empty tree.
Writable(b) ==
  /\ b \in Block
  /\ \/ Stored(tree, Ref[b])
     \/ DOMAIN tree = {} /\ b = Genesis

LEMMA EmptyTree ==
  ASSUME TreeInv, Height = 0
  PROVE  DOMAIN tree = {}
BY DEF TreeInv, TreeTyped, TreeConsistent, Height, HeightIn, Stored

LEMMA IncomingWritable ==
  ASSUME TreeInv, NEW b \in Incoming, Linear(b) \/ Stored(tree, Ref[b])
  PROVE  Writable(b)
<1>1. b \in Block
  BY BlockTreeAssumption DEF Incoming
<1>2. CASE Height = 0
  <2>1. b = Genesis
    BY <1>2 DEF Incoming
  <2> QED BY <1>1, <1>2, <2>1, EmptyTree DEF Writable
<1>3. CASE Height # 0
  BY <1>1, <1>3 DEF Linear, Height, HeightIn, Writable
<1> QED BY <1>2, <1>3

\* The genesis block is never under another block, so a write to it is the
\* first one.
LEMMA EntryValue ==
  ASSUME TreeInv, NEW b, Writable(b)
  PROVE  /\ Entry(b) \in [score : Nat, height : Nat \ {0}]
         /\ IF b = Genesis
            THEN Entry(b) = [score |-> BlockScore[b], height |-> 1]
            ELSE /\ Stored(tree, Ref[b])
                 /\ Entry(b) = [score |-> tree[Ref[b]].score + BlockScore[b],
                                height |-> tree[Ref[b]].height + 1]
<1>1. b \in Block /\ BlockScore[b] \in Nat \ {0}
  BY BlockTreeAssumption DEF Writable
<1>2. CASE Stored(tree, Ref[b])
  <2>1. b # Genesis
    BY <1>2, BlockTreeAssumption DEF Stored, TreeInv, TreeTyped
  <2>2. tree[Ref[b]].score \in Nat /\ tree[Ref[b]].height \in Nat \ {0}
    BY <1>2 DEF Stored, TreeInv, TreeTyped
  <2> QED BY <1>1, <1>2, <2>1, <2>2 DEF Entry
<1>3. CASE ~Stored(tree, Ref[b])
  BY <1>1, <1>3 DEF Writable, Entry
<1> QED BY <1>2, <1>3

\* A rewrite of a stored block puts back the entry it has.
LEMMA PutKeeps ==
  ASSUME TreeInv, NEW b, Writable(b)
  PROVE  /\ DOMAIN Put(b) = DOMAIN tree \cup {b}
         /\ Put(b)[b] = Entry(b)
         /\ \A x \in DOMAIN tree : Put(b)[x] = tree[x]
<1>1. b \in DOMAIN tree => Entry(b) = tree[b]
  BY EntryValue DEF TreeInv, TreeConsistent
<1> QED BY <1>1 DEF Put

LEMMA WriteKeepsInv ==
  ASSUME TreeInv, NEW b, Writable(b), tree' = Put(b),
         best' \in DOMAIN tree', torn \ {b} \subseteq torn',
         tree'[best'].score >= Score,
         b \notin torn' => tree'[best'].score >= Entry(b).score
  PROVE  TreeInv'
<1>1. TreeTyped'
  <2>1. DOMAIN tree' = DOMAIN tree \cup {b} /\ b \in Block
    BY PutKeeps DEF Writable
  <2>2. ASSUME NEW x \in DOMAIN tree'
        PROVE  tree'[x] \in [score : Nat, height : Nat \ {0}]
    <3>1. CASE x = b
      <4>1. Entry(b) \in [score : Nat, height : Nat \ {0}]
        BY EntryValue
      <4>2. tree'[x] = Entry(b)
        BY <3>1, PutKeeps
      <4> QED BY <4>1, <4>2
    <3>2. CASE x # b
      BY <2>1, <3>2, PutKeeps DEF TreeInv, TreeTyped
    <3> QED BY <3>1, <3>2
  <2>3. DOMAIN tree \subseteq Block
    BY DEF TreeInv, TreeTyped
  <2> QED BY <2>1, <2>2, <2>3 DEF TreeTyped
<1>2. (DOMAIN tree = {} => best \in {None, Genesis})'
  OBVIOUS
<1>3. TreeConsistent'
  <2>1. \A x \in DOMAIN tree : tree'[x] = tree[x]
    BY PutKeeps
  <2>2. DOMAIN tree' = DOMAIN tree \cup {b} /\ tree'[b] = Entry(b)
    BY PutKeeps
  <2>3. ASSUME NEW x \in DOMAIN tree'
        PROVE  IF x = Genesis
               THEN tree'[x] = [score |-> BlockScore[x], height |-> 1]
               ELSE /\ Ref[x] \in DOMAIN tree'
                    /\ tree'[x] = [score |-> tree'[Ref[x]].score + BlockScore[x],
                                   height |-> tree'[Ref[x]].height + 1]
    <3>1. CASE x = b
      BY <2>1, <2>2, <3>1, EntryValue DEF Stored
    <3>2. CASE x # b
      <4>1. x \in DOMAIN tree
        BY <2>2, <3>2
      <4> QED BY <2>1, <2>2, <4>1 DEF TreeInv, TreeConsistent
    <3> QED BY <3>1, <3>2
  <2> QED BY <2>3 DEF TreeConsistent
<1>4. BestIsMax'
  <2>0. tree'[best'].score \in Nat
    BY <1>1 DEF TreeTyped
  <2> SUFFICES ASSUME NEW x \in DOMAIN tree', x \notin torn'
               PROVE  tree'[x].score <= tree'[best'].score
    BY DEF BestIsMax
  <2>1. CASE x = b
    BY <2>0, <2>1, PutKeeps, EntryValue
  <2>2. CASE x # b
    <3>1. x \in DOMAIN tree \ torn /\ tree'[x] = tree[x]
      BY <2>2, PutKeeps
    <3>2. tree[x].score <= tree[best].score /\ best \in DOMAIN tree
      BY <3>1 DEF TreeInv, BestIsMax, TreeConsistent
    <3>3. tree[x].score \in Nat /\ tree[best].score \in Nat
      BY <3>1, <3>2 DEF TreeInv, TreeTyped
    <3> QED BY <2>0, <3>1, <3>2, <3>3 DEF Score, Stored
  <2> QED BY <2>1, <2>2
<1> QED BY <1>1, <1>2, <1>3, <1>4 DEF TreeInv

LEMMA InitInv == Init => TreeInv
BY DEF Init, TreeInv, TreeTyped, TreeConsistent, BestIsMax

LEMMA ScoreValue ==
  ASSUME TreeInv
  PROVE  /\ Score \in Nat
         /\ DOMAIN tree # {} => Score = tree[best].score
BY DEF TreeInv, TreeTyped, TreeConsistent, Score, Stored

\* A write that makes b the best block, its score being no lower than the best.
LEMMA NewBest ==
  ASSUME TreeInv, NEW b, Writable(b), tree' = Put(b), best' = b,
         torn \ {b} \subseteq torn', Entry(b).score >= Score
  PROVE  TreeInv' /\ Score' >= Score
<1>1. best' \in DOMAIN tree' /\ tree'[best'] = Entry(b)
  BY PutKeeps
<1>2. Entry(b).score \in Nat
  BY EntryValue
<1> QED BY <1>1, <1>2, WriteKeepsInv DEF Score, Stored

\* A write under a stored parent that leaves the best block where it is.
LEMMA SameBest ==
  ASSUME TreeInv, NEW b, Writable(b), Stored(tree, Ref[b]),
         tree' = Put(b), best' = best, torn \ {b} \subseteq torn',
         b \notin torn' => Entry(b).score <= Score
  PROVE  TreeInv' /\ Score' >= Score
<1>1. best \in DOMAIN tree
  BY DEF Stored, TreeInv, TreeConsistent
<1>2. best' \in DOMAIN tree' /\ tree'[best'] = tree[best]
  BY <1>1, PutKeeps
<1>3. Score \in Nat /\ Score = tree[best].score
  BY <1>1, ScoreValue
<1>4. Entry(b).score \in Nat
  BY EntryValue
<1> QED BY <1>2, <1>3, <1>4, WriteKeepsInv DEF Score, Stored

LEMMA NextInv == TreeInv /\ [Next]_vars => TreeInv' /\ Score' >= Score
<1> SUFFICES ASSUME TreeInv, [Next]_vars
             PROVE  TreeInv' /\ Score' >= Score
  OBVIOUS
<1>1. ASSUME UNCHANGED <<tree, best, torn>>
      PROVE  TreeInv' /\ Score' >= Score
  BY <1>1, ScoreValue
     DEF TreeInv, TreeTyped, TreeConsistent, BestIsMax, Score, Stored
<1>2. ASSUME NEW b \in Incoming, AppendLinear(b)
      PROVE  TreeInv' /\ Score' >= Score
  <2>1. Writable(b)
    BY <1>2, IncomingWritable DEF AppendLinear
  <2>2. Entry(b).score >= Score
    <3>1. CASE Height = 0
      BY <2>1, <3>1, EmptyTree, EntryValue DEF Score, Stored
    <3>2. CASE Height # 0
      <4>1. Stored(tree, best) /\ Ref[b] = best
        BY <1>2, <3>2 DEF AppendLinear, Linear, Height, HeightIn
      <4>2. BlockScore[b] \in Nat /\ Score = tree[best].score /\ Score \in Nat
        BY <2>1, <4>1, ScoreValue, BlockTreeAssumption DEF Writable, Stored
      <4>3. Entry(b).score = Score + BlockScore[b]
        BY <4>1, <4>2 DEF Entry
      <4> QED BY <4>2, <4>3
    <3> QED BY <3>1, <3>2
  <2> QED BY <1>2, <2>1, <2>2, NewBest DEF AppendLinear
<1>3. ASSUME NEW b \in Incoming, AppendSide(b)
      PROVE  TreeInv' /\ Score' >= Score
  <2>1. Writable(b)
    BY <1>3, IncomingWritable DEF AppendSide
  <2>2. Score \in Nat /\ Entry(b).score \in Nat
    BY <2>1, ScoreValue, EntryValue
  <2> QED BY <1>3, <2>1, <2>2, SameBest DEF AppendSide
<1>4. ASSUME NEW b \in Incoming, SwitchBranch(b)
      PROVE  TreeInv' /\ Score' >= Score
  <2>1. Writable(b)
    BY <1>4, IncomingWritable DEF SwitchBranch
  <2> QED BY <1>4, <2>1, NewBest DEF SwitchBranch
<1>5. ASSUME NEW b \in Incoming, SwitchBranchFails(b)
      PROVE  TreeInv' /\ Score' >= Score
  <2>1. Writable(b)
    BY <1>5, IncomingWritable DEF SwitchBranchFails
  <2> QED BY <1>5, <2>1, NewBest DEF SwitchBranchFails
<1>6. ASSUME NEW b \in Incoming, AppendRejected(b)
      PROVE  TreeInv' /\ Score' >= Score
  BY <1>1, <1>6 DEF AppendRejected
<1>7. ASSUME NEW b \in Incoming, CrashInAppend(b)
      PROVE  TreeInv' /\ Score' >= Score
  <2>1. CASE Height = 0
    <3>1. best' = Genesis /\ tree' = tree /\ torn' = torn
      BY <1>7, <2>1 DEF CrashInAppend, Incoming
    <3>2. DOMAIN tree = {}
      BY <2>1, EmptyTree
    <3> QED BY <3>1, <3>2
         DEF TreeInv, TreeTyped, TreeConsistent, BestIsMax, Score, Stored
  <2>2. CASE Height # 0
    <3>1. Stored(tree, Ref[b]) /\ tree' = Put(b) /\ best' = best
      BY <1>7, <2>2 DEF CrashInAppend
    <3>2. torn \ {b} \subseteq torn' /\ (b \notin torn' => b = best)
      BY <1>7, <2>2 DEF CrashInAppend
    <3>3. Writable(b)
      BY <3>1, IncomingWritable
    <3>4. b = best => Entry(b).score <= Score
      <4>1. ASSUME b = best PROVE Entry(b) = tree[best] /\ best \in DOMAIN tree
        BY <3>1, <3>3, <4>1, EntryValue DEF TreeInv, TreeConsistent, Stored
      <4> QED BY <4>1, ScoreValue
    <3> QED BY <3>1, <3>2, <3>3, <3>4, SameBest
  <2> QED BY <2>1, <2>2
<1>8. CASE CrashIdle
  BY <1>1, <1>8 DEF CrashIdle
<1>9. CASE UNCHANGED vars
  BY <1>1, <1>9 DEF vars
<1> QED
  BY <1>2, <1>3, <1>4, <1>5, <1>6, <1>7, <1>8, <1>9 DEF Next, AppendBlock

\* The inductive invariant holds in every reachable state.
THEOREM TreeInvariant == Spec => []TreeInv
<1>1. TreeInv /\ [Next]_vars => TreeInv'
  BY NextInv
<1> QED BY <1>1, InitInv, PTL DEF Spec

\* Whatever blocks arrive in whatever order, and wherever a crash cuts an
\* append short, writeBlock keeps score and height consistent with the parent.
THEOREM TreeIsConsistent == Spec => []TreeConsistent
<1>1. TreeInv => TreeConsistent
  BY DEF TreeInv
<1> QED BY <1>1, TreeInvariant, PTL

\* No block of a completed append beats the best block.
THEOREM BestBlockIsMax == Spec => []BestIsMax
<1>1. TreeInv => BestIsMax
  BY DEF TreeInv
<1> QED BY <1>1, TreeInvariant, PTL

\* The score a node announces to its peers never goes down.
THEOREM ScoreIsMonotone == Spec => ScoreNeverDrops
<1>1. TreeInv /\ [Next]_vars => [Score' >= Score]_vars
  BY NextInv
<1> QED BY <1>1, TreeInvariant, PTL DEF Spec, ScoreNeverDrops
-----------------------------------------------------------------------------
(* How far the best block falls back *)

\* The height at a best block b after b was written.
LEMMA HeightOfNew ==
  ASSUME TreeInv, NEW b, Writable(b), tree' = Put(b), best' = b
  PROVE  HeightIn(tree, best)' = Entry(b).height
BY PutKeeps DEF HeightIn, Stored

LEMMA HeightIsNatural ==
  ASSUME TreeInv
  PROVE  Height \in Nat /\ HeightIn(tree, best) = Height
BY DEF TreeInv, TreeTyped, Height, HeightIn, Stored

\* A branch that becomes the best one grew from a block not too old.
LEMMA SwitchHeight ==
  ASSUME TreeInv, NEW b, Writable(b), Stored(tree, Ref[b]), ~TooOld(b),
         tree' = Put(b), best' = b
  PROVE  HeightIn(tree, best)' > HeightIn(tree, best) - MaxRollback
<1>1. Entry(b).height = tree[Ref[b]].height + 1 /\ tree[Ref[b]].height \in Nat
  BY DEF Entry, TreeInv, TreeTyped, Stored
<1>2. MaxRollback \in Nat
  BY BlockTreeAssumption
<1>3. Height - tree[Ref[b]].height <= MaxRollback
  BY <1>1, <1>2, HeightIsNatural DEF TooOld
<1>. QED
  BY <1>1, <1>2, <1>3, HeightIsNatural, HeightOfNew

\* The best block never moves to one lower than MaxRollback - 1 below it
\* (appendBlock, StoredBlockTree.scala:178-209).
THEOREM RollbackIsBounded == Spec => RollbackBounded
<1>1. TreeInv /\ [Next]_vars => [HeightIn(tree, best)' > HeightIn(tree, best) - MaxRollback]_vars
  <2>. SUFFICES ASSUME TreeInv, Next
                PROVE  HeightIn(tree, best)' > HeightIn(tree, best) - MaxRollback
    OBVIOUS
  <2>0. MaxRollback \in Nat \ {0} /\ Height \in Nat /\ HeightIn(tree, best) = Height
    BY HeightIsNatural, BlockTreeAssumption
  <2>1. ASSUME HeightIn(tree, best)' = HeightIn(tree, best)
        PROVE  HeightIn(tree, best)' > HeightIn(tree, best) - MaxRollback
    BY <2>0, <2>1
  <2>2. ASSUME NEW b \in Incoming, AppendLinear(b)
        PROVE  HeightIn(tree, best)' > HeightIn(tree, best) - MaxRollback
    <3>1. Writable(b) /\ tree' = Put(b) /\ best' = b
      BY <2>2, IncomingWritable DEF AppendLinear
    <3>2. Entry(b).height \in Nat \ {0} /\ HeightIn(tree, best)' = Entry(b).height
      BY <3>1, EntryValue, HeightOfNew
    <3>3. CASE Height = 0
      BY <2>0, <3>2, <3>3
    <3>4. CASE Height # 0
      <4>1. Stored(tree, best) /\ Ref[b] = best
        BY <2>2, <3>4 DEF AppendLinear, Linear, Height, HeightIn
      <4>2. Entry(b).height = Height + 1
        BY <4>1 DEF Entry, Height, HeightIn
      <4>. QED
        BY <2>0, <3>2, <4>2
    <3>. QED
      BY <3>3, <3>4
  <2>3. ASSUME NEW b \in Incoming, AppendSide(b) \/ (CrashInAppend(b) /\ Height # 0)
        PROVE  HeightIn(tree, best)' = HeightIn(tree, best)
    <3>1. Stored(tree, Ref[b]) /\ tree' = Put(b) /\ best' = best
      BY <2>3 DEF AppendSide, CrashInAppend
    <3>2. Writable(b)
      BY <3>1, IncomingWritable
    <3>3. best \in DOMAIN tree
      BY <3>1 DEF TreeInv, TreeConsistent, Stored
    <3>. QED
      BY <3>1, <3>2, <3>3, PutKeeps DEF HeightIn, Stored
  <2>4. ASSUME NEW b \in Incoming, SwitchBranch(b) \/ SwitchBranchFails(b)
        PROVE  HeightIn(tree, best)' > HeightIn(tree, best) - MaxRollback
    <3>1. Stored(tree, Ref[b]) /\ ~TooOld(b) /\ tree' = Put(b) /\ best' = b
      BY <2>4 DEF SwitchBranch, SwitchBranchFails
    <3>. QED
      BY <3>1, IncomingWritable, SwitchHeight
  <2>5. ASSUME NEW b \in Incoming, CrashInAppend(b), Height = 0
        PROVE  HeightIn(tree, best)' = HeightIn(tree, best)
    BY <2>5, EmptyTree DEF CrashInAppend, HeightIn, Stored
  <2>6. ASSUME CrashIdle \/ \E b \in Incoming : AppendRejected(b)
        PROVE  HeightIn(tree, best)' = HeightIn(tree, best)
    BY <2>6 DEF AppendRejected, CrashIdle, HeightIn, Stored
  <2>. QED
    BY <2>1, <2>2, <2>3, <2>4, <2>5, <2>6 DEF Next, AppendBlock
<1>. QED
  BY <1>1, TreeInvariant, PTL DEF Spec, RollbackBounded
-----------------------------------------------------------------------------
(* Induction and recursive functions *)

Less == {ss \in Nat \X Nat : ss[1] < ss[2]}

LEMMA SmallestExists ==
  ASSUME NEW S \in SUBSET Nat, S # {}
  PROVE  \E m \in S : \A x \in S : m <= x
<1>1. IsWellFoundedOn(Less, Nat)
  BY Zenon, NatLessThanWellFounded DEF OpToRel, Less
<1>2. PICK m \in S : \A x \in S : ~ (<<x, m>> \in Less)
  BY <1>1, WFMin, Zenon
<1>3. ASSUME NEW x \in S PROVE m <= x
  <2>1. x < m => <<x, m>> \in Less
    BY DEF Less
  <2>. QED BY <1>2, <2>1
<1>. QED BY <1>3

LEMMA Induction ==
  ASSUME NEW S, 0 \in S, \A n \in Nat : n \in S => n + 1 \in S
  PROVE  Nat \subseteq S
<1>1. SUFFICES ASSUME Nat \ S # {} PROVE FALSE
  OBVIOUS
<1>2. PICK m \in Nat \ S : \A x \in Nat \ S : m <= x
  <2>1. Nat \ S \in SUBSET Nat
    OBVIOUS
  <2>. QED BY <1>1, <2>1, SmallestExists
<1>3. m - 1 \in Nat /\ m - 1 \in S
  BY <1>2
<1>. QED BY <1>2, <1>3

\* f goes on from base by step, n times.
Recurs(f, n, base, step) ==
  f = [i \in 0..n |-> IF i = 0 THEN base ELSE step[<<i, f[i - 1]>>]]

\* A recursion that cannot leave V exists and stays in V.
LEMMA Recursion ==
  ASSUME NEW V, NEW n \in Nat, NEW base \in V, NEW step,
         \A i \in 1..n, v \in V : step[<<i, v>>] \in V
  PROVE  \E f \in [0..n -> V] : Recurs(f, n, base, step)
<1>. DEFINE S == {k \in Nat : k <= n => \E f \in [0..k -> V] : Recurs(f, k, base, step)}
<1>1. 0 \in S
  <2>1. [i \in 0..0 |-> base] \in [0..0 -> V] /\ Recurs([i \in 0..0 |-> base], 0, base, step)
    BY DEF Recurs
  <2>. QED BY <2>1
<1>2. ASSUME NEW k \in Nat, k \in S PROVE k + 1 \in S
  <2>1. SUFFICES ASSUME k + 1 <= n
                 PROVE \E f \in [0..k + 1 -> V] : Recurs(f, k + 1, base, step)
    OBVIOUS
  <2>2. PICK f \in [0..k -> V] : Recurs(f, k, base, step)
    BY <1>2, <2>1
  <2>. DEFINE g == [i \in 0..k + 1 |-> IF i = k + 1 THEN step[<<k + 1, f[k]>>] ELSE f[i]]
  <2>3. g \in [0..k + 1 -> V]
    BY <2>1
  <2>4. ASSUME NEW i \in 0..k + 1
        PROVE  g[i] = IF i = 0 THEN base ELSE step[<<i, g[i - 1]>>]
    <3>1. CASE i = k + 1
      <4>1. /\ k + 1 \in 0..k + 1 /\ k \in 0..k + 1 /\ k # k + 1 /\ k + 1 # 0
            /\ (k + 1) - 1 = k
        OBVIOUS
      <4>2. g[k + 1] = step[<<k + 1, f[k]>>] /\ g[k] = f[k]
        BY <4>1
      <4>. HIDE DEF g
      <4>. QED BY <3>1, <4>1, <4>2
    <3>2. CASE i # k + 1
      <4>1. i \in 0..k /\ (i # 0 => i - 1 \in 0..k)
        BY <3>2
      <4>2. f[i] = IF i = 0 THEN base ELSE step[<<i, f[i - 1]>>]
        BY <2>2, <4>1, Zenon DEF Recurs
      <4>3. g[i] = f[i] /\ (i # 0 => g[i - 1] = f[i - 1])
        <5>1. i - 1 # k + 1 /\ i \in 0..k + 1 /\ (i # 0 => i - 1 \in 0..k + 1)
          BY <4>1
        <5>. QED BY <3>2, <5>1
      <4>. HIDE DEF g
      <4>4. CASE i = 0
        BY <4>2, <4>3, <4>4
      <4>5. CASE i # 0
        BY <4>2, <4>3, <4>5
      <4>. QED BY <4>4, <4>5
    <3>. QED BY <3>1, <3>2
  <2>. HIDE DEF g
  <2>5. g = [i \in 0..k + 1 |-> g[i]]
    BY <2>3
  <2>6. Recurs(g, k + 1, base, step)
    BY <2>4, <2>5, Zenon DEF Recurs
  <2>. QED BY <2>3, <2>6
<1>. HIDE DEF S
<1>3. n \in S
  BY <1>1, <1>2, Induction
<1>. QED BY <1>3 DEF S

\* A recursion whose steps do not leave V ends in V.
LEMMA RecursionStays ==
  ASSUME NEW V, NEW n \in Nat, NEW f, f[0] \in V,
         \A i \in 1..n : f[i - 1] \in V => f[i] \in V
  PROVE  f[n] \in V
<1>. DEFINE S == {k \in Nat : k <= n => f[k] \in V}
<1>1. 0 \in S
  OBVIOUS
<1>2. ASSUME NEW k \in Nat, k \in S PROVE k + 1 \in S
  <2>1. SUFFICES ASSUME k + 1 <= n PROVE f[k + 1] \in V
    OBVIOUS
  <2>2. f[k] \in V /\ k + 1 \in 1..n /\ (k + 1) - 1 = k
    BY <1>2, <2>1
  <2>3. f[(k + 1) - 1] \in V => f[k + 1] \in V
    BY <2>2
  <2>. QED BY <2>2, <2>3
<1>. HIDE DEF S
<1>3. n \in S
  BY <1>1, <1>2, Induction
<1>. QED BY <1>3 DEF S

(* Lines of blocks in a tree t *)

\* Every block is one above its parent, if that is stored.
Heights(t) ==
  \A b \in DOMAIN t :
    /\ b \in Block /\ t[b].height \in Nat
    /\ Ref[b] \in DOMAIN t => t[Ref[b]].height = t[b].height - 1

\* Stored blocks from b downwards.
Lines(t, b) ==
  {s \in Seq(DOMAIN t) :
     /\ s # <<>> /\ s[1] = b
     /\ \A i \in 1..Len(s) : t[s[i]].height = t[b].height - i + 1}

LEMMA LineGrows ==
  ASSUME NEW t, Heights(t), NEW b \in DOMAIN t, NEW s \in Lines(t, b),
         Stored(t, Ref[Last(s)])
  PROVE  Append(s, Ref[Last(s)]) \in Lines(t, b)
<1>. DEFINE T == DOMAIN t
            r == Append(s, Ref[Last(s)])
<1>1. s \in Seq(T) /\ s # <<>> /\ s[1] = b /\ \A i \in 1..Len(s) : t[s[i]].height = t[b].height - i + 1
  BY DEF Lines
<1>2. Len(s) \in Nat \ {0} /\ Last(s) = s[Len(s)] /\ s[Len(s)] \in T
  <2>. HIDE DEF T
  <2>. QED
    BY <1>1 DEF Last
<1>3. Ref[Last(s)] \in T
  BY DEF Stored
<1>4. t[Ref[Last(s)]].height = t[b].height - Len(s)
  <2>1. t[s[Len(s)]].height = t[b].height - Len(s) + 1 /\ t[b].height \in Nat
    BY <1>1, <1>2 DEF Heights
  <2>2. t[Ref[Last(s)]].height = t[s[Len(s)]].height - 1
    BY <1>2, <1>3 DEF Heights
  <2>. QED
    BY <1>2, <2>1, <2>2
<1>5. /\ r \in Seq(T) /\ r # <<>> /\ r[1] = s[1] /\ Len(r) = Len(s) + 1
      /\ \A i \in 1..Len(s) : r[i] = s[i]
      /\ r[Len(s) + 1] = Ref[Last(s)]
  <2>. DEFINE x == Ref[Last(s)]
  <2>1. x \in T
    BY <1>3
  <2>. HIDE DEF T, x
  <2>2. LET y == Append(s, x) IN
        /\ y \in Seq(T) /\ y # <<>> /\ Len(y) = Len(s) + 1
        /\ \A i \in 1..Len(s) : y[i] = s[i]
        /\ y[Len(s) + 1] = x
    BY <1>1, <1>2, <2>1
  <2>3. 1 \in 1..Len(s)
    BY <1>2
  <2>. QED
    BY <2>2, <2>3 DEF x
<1>. HIDE DEF r
<1>6. ASSUME NEW i \in 1..Len(r) PROVE t[r[i]].height = t[b].height - i + 1
  <2>1. CASE i \in 1..Len(s)
    BY <1>1, <1>5, <2>1
  <2>2. CASE i = Len(s) + 1
    <3>1. t[b].height \in Nat
      BY DEF Heights
    <3>. QED
      BY <1>2, <1>4, <1>5, <2>2, <3>1
  <2>. QED
    BY <1>2, <1>5, <2>1, <2>2
<1>. QED
  BY <1>1, <1>5, <1>6 DEF Lines, r

LEMMA UpIsLine ==
  ASSUME NEW t, Heights(t), NEW b \in DOMAIN t, NEW n \in Nat
  PROVE  Up(t, b, n) \in Lines(t, b)
<1>. DEFINE V == Lines(t, b)
            longer(s) == IF Stored(t, Ref[Last(s)]) THEN Append(s, Ref[Last(s)]) ELSE s
            step == [p \in (1..n) \X V |-> longer(p[2])]
            F == CHOOSE f : f = [i \in 0..n |-> IF i = 0 THEN <<b>> ELSE longer(f[i - 1])]
<1>1. <<b>> \in V
  BY DEF Lines, Heights
<1>2. \A s \in V : longer(s) \in V
  BY LineGrows
<1>3. Up(t, b, n) = F[n]
  BY DEF Up
<1>. HIDE DEF V, longer
<1>4. \A i \in 1..n, v \in V : step[<<i, v>>] = longer(v)
  OBVIOUS
<1>5. \A i \in 1..n, v \in V : step[<<i, v>>] \in V
  BY <1>2, <1>4
<1>. HIDE DEF step
<1>6. PICK g \in [0..n -> V] : Recurs(g, n, <<b>>, step)
  BY <1>1, <1>5, Recursion
<1>7. g = [i \in 0..n |-> IF i = 0 THEN <<b>> ELSE longer(g[i - 1])]
  <2>1. \A i \in 0..n : (IF i = 0 THEN <<b>> ELSE step[<<i, g[i - 1]>>])
                         = (IF i = 0 THEN <<b>> ELSE longer(g[i - 1]))
    BY <1>4
  <2>2. g = [i \in 0..n |-> IF i = 0 THEN <<b>> ELSE step[<<i, g[i - 1]>>]]
    BY <1>6 DEF Recurs
  <2>. QED
    BY <2>1, <2>2
<1>8. F = [i \in 0..n |-> IF i = 0 THEN <<b>> ELSE longer(F[i - 1])]
  BY <1>7
<1>. HIDE DEF F
<1>9. F[0] \in V
  BY <1>1, <1>8
<1>10. ASSUME NEW i \in 1..n, F[i - 1] \in V PROVE F[i] \in V
  <2>1. i \in 0..n /\ i # 0
    OBVIOUS
  <2>2. F[i] = longer(F[i - 1])
    BY <1>8, <2>1
  <2>. QED BY <1>2, <1>10, <2>2
<1>11. F[n] \in V
  BY <1>9, <1>10, RecursionStays
<1>. QED
  BY <1>3, <1>11 DEF V

\* The blocks lastBlocks answers are stored.
LEMMA LastBlocksStored ==
  ASSUME NEW t, Heights(t), NEW b \in DOMAIN t, NEW n \in Nat
  PROVE  LastBlocks(t, b, n) \in Seq(DOMAIN t)
<1>. DEFINE s == Up(t, b, n)
            T == DOMAIN t
<1>1. s \in Seq(T)
  BY UpIsLine DEF Lines
<1>2. LastBlocks(t, b, n) = [i \in 1..Len(s) |-> s[(Len(s) - i) + 1]]
  BY DEF LastBlocks, Reverse
<1>. HIDE DEF s, T
<1>. QED
  BY <1>1, <1>2 DEF T

\* A branch point other than the two blocks is below both.
LEMMA BranchBlockBelow ==
  ASSUME NEW t, Heights(t), NEW b1 \in DOMAIN t, NEW b2 \in DOMAIN t, NEW n \in Nat,
         BranchBlock(t, b1, b2, n) \notin {None, b1}
  PROVE  /\ t[b1].height - t[BranchBlock(t, b1, b2, n)].height - 1 \in Nat
         /\ t[b2].height - t[BranchBlock(t, b1, b2, n)].height - 1 \in Nat
<1>. DEFINE up1 == Up(t, b1, n)
            up2 == Up(t, b2, n)
            line == Tail(up2)
            common == {i \in DOMAIN line : line[i] \in ToSet(up1)}
            node == BranchBlock(t, b1, b2, n)
            T == DOMAIN t
<1>1. up1 \in Lines(t, b1) /\ up2 \in Lines(t, b2)
  BY UpIsLine
<1>2. /\ up1 \in Seq(T) /\ up1 # <<>> /\ up2 \in Seq(T) /\ up2 # <<>>
      /\ \A i \in 1..Len(up1) : t[up1[i]].height = t[b1].height - i + 1
      /\ \A i \in 1..Len(up2) : t[up2[i]].height = t[b2].height - i + 1
  BY <1>1 DEF Lines
<1>3. common # {} /\ node = line[Min(common)] /\ node # b1
  BY DEF BranchBlock
<1>4. t[b1].height \in Nat /\ t[b2].height \in Nat
  BY DEF Heights
<1>. HIDE DEF up1, up2, T, node
<1>5. Len(line) = Len(up2) - 1 /\ Len(up2) \in Nat \ {0} /\ DOMAIN line = 1..Len(line)
      /\ \A i \in 1..Len(line) : line[i] = up2[i + 1]
  BY <1>2
<1>. HIDE DEF line
<1>6. Min(common) \in common
  <2>1. common \in SUBSET Nat
    BY <1>5
  <2>. HIDE DEF common
  <2>2. \E m \in common : \A x \in common : m <= x
    BY <1>3, <2>1, SmallestExists
  <2>. QED
    BY <2>2 DEF Min
<1>7. PICK i \in 1..Len(line) : node = line[i] /\ node \in ToSet(up1)
  BY <1>3, <1>5, <1>6
<1>8. t[node].height = t[b2].height - i /\ i >= 1
  <2>1. i + 1 \in 1..Len(up2) /\ node = up2[i + 1]
    BY <1>5, <1>7
  <2>2. \A j \in 1..Len(up2) : t[up2[j]].height = t[b2].height - j + 1
    BY <1>2, Zenon
  <2>3. t[node].height = t[b2].height - (i + 1) + 1
    BY <2>1, <2>2
  <2>. QED
    BY <1>4, <2>3
<1>9. PICK k \in 1..Len(up1) : node = up1[k]
  BY <1>2, <1>7 DEF ToSet
<1>10. t[node].height = t[b1].height - k + 1
  BY <1>2, <1>9
<1>11. k # 1
  <2>1. up1[1] = b1
    BY <1>1 DEF Lines
  <2>. QED
    BY <1>3, <1>9, <2>1
<1>12. t[b2].height - t[node].height - 1 \in Nat
  BY <1>4, <1>8
<1>13. t[b1].height - t[node].height - 1 \in Nat
  BY <1>4, <1>10, <1>11
<1>. QED
  BY <1>12, <1>13, Zenon DEF node

(* The links of the best chain *)

Maps == UNION {[D -> Block \cup {None}] : D \in SUBSET Block}

\* Every link of the map c is from a block to a child of it in T.
Linked(c, T) ==
  /\ c \in Maps /\ T \subseteq Block
  /\ \A x \in DOMAIN c : c[x] # None => c[x] \in T /\ Ref[c[x]] = x

Outcomes(T) == {acc \in [chain : Maps, ok : BOOLEAN] : Linked(acc.chain, T)}

LEMMA MapsAre ==
  ASSUME NEW c
  PROVE  c \in Maps <=> /\ c = [x \in DOMAIN c |-> c[x]] /\ DOMAIN c \subseteq Block
                        /\ \A x \in DOMAIN c : c[x] \in Block \cup {None}
<1>1. ASSUME c \in Maps
      PROVE  /\ c = [x \in DOMAIN c |-> c[x]] /\ DOMAIN c \subseteq Block
             /\ \A x \in DOMAIN c : c[x] \in Block \cup {None}
  <2>1. PICK D \in SUBSET Block : c \in [D -> Block \cup {None}]
    BY <1>1 DEF Maps
  <2>. QED
    BY <2>1
<1>2. ASSUME c = [x \in DOMAIN c |-> c[x]], DOMAIN c \subseteq Block,
             \A x \in DOMAIN c : c[x] \in Block \cup {None}
      PROVE  c \in Maps
  <2>1. c \in [DOMAIN c -> Block \cup {None}]
    BY <1>2
  <2>. QED
    BY <1>2, <2>1 DEF Maps
<1>. QED
  BY <1>1, <1>2

\* One change links a stored block to its parent or nothing at all; a root has
\* no parent to be linked to.
LEMMA ChangeStepLinked ==
  ASSUME NEW T, NEW acc \in Outcomes(T), NEW c, c.block \in Block,
         c.forward /\ Ref[c.block] \in Block => c.block \in T
  PROVE  ChangeStep(acc, c) \in Outcomes(T)
<1>. DEFINE entries == IF c.forward THEN DOMAIN acc.chain \cup {c.block}
                                    ELSE DOMAIN acc.chain \ {c.block}
            own == [x \in entries |-> IF x = c.block THEN None ELSE acc.chain[x]]
            parent == Ref[c.block]
            link == IF c.forward THEN c.block ELSE None
            new == [own EXCEPT ![parent] = link]
<1>0. acc \in [chain : Maps, ok : BOOLEAN] /\ Linked(acc.chain, T)
  BY DEF Outcomes
<1>1. entries \subseteq Block /\ T \subseteq Block
  BY <1>0, MapsAre DEF Linked
<1>2. \A x \in entries : own[x] # None => own[x] \in T /\ Ref[own[x]] = x
  BY <1>0 DEF Linked
<1>3. ASSUME NEW m, m \in [entries -> T \cup {None}],
             \A x \in entries : m[x] # None => Ref[m[x]] = x
      PROVE  Linked(m, T)
  <2>1. DOMAIN m = entries /\ m = [x \in DOMAIN m |-> m[x]]
        /\ \A x \in DOMAIN m : m[x] \in T \cup {None}
    BY <1>3
  <2>. HIDE DEF entries
  <2>2. m \in Maps
    BY <1>1, <2>1, MapsAre
  <2>. QED
    BY <1>1, <1>3, <2>1, <2>2 DEF Linked
<1>4. CASE ~acc.ok
  BY <1>4 DEF ChangeStep
<1>5. own \in [entries -> T \cup {None}]
  BY <1>2
<1>6. CASE acc.ok /\ parent \in entries
  <2>1. ChangeStep(acc, c) = [chain |-> new, ok |-> TRUE]
    BY <1>6 DEF ChangeStep
  <2>2. link \in T \cup {None} /\ (link # None => Ref[link] = parent)
    <3>1. parent \in Block
      BY <1>1, <1>6
    <3>. QED
      BY <3>1
  <2>. HIDE DEF own, entries, link, parent
  <2>3. new \in [entries -> T \cup {None}]
    BY <1>5, <2>2
  <2>4. ASSUME NEW x \in entries, new[x] # None
        PROVE  Ref[new[x]] = x
    <3>1. CASE x = parent
      BY <1>5, <2>2, <2>4, <3>1
    <3>2. CASE x # parent
      <4>1. new[x] = own[x]
        BY <1>5, <3>2
      <4>. QED
        BY <1>2, <2>4, <4>1
    <3>. QED
      BY <3>1, <3>2
  <2>. HIDE DEF new
  <2>5. Linked(new, T)
    BY <1>3, <2>3, <2>4
  <2>. QED
    BY <2>1, <2>5 DEF Outcomes, Linked
<1>7. CASE acc.ok /\ parent \notin entries
  <2>1. ChangeStep(acc, c) = [chain |-> own, ok |-> FALSE]
    BY <1>7 DEF ChangeStep
  <2>. HIDE DEF own, entries
  <2>2. Linked(own, T)
    BY <1>2, <1>3, <1>5
  <2>. QED
    BY <2>1, <2>2 DEF Outcomes, Linked
<1>. QED
  BY <1>4, <1>6, <1>7

\* However far changeBestChain comes before it throws, what it leaves is linked.
LEMMA ChangesLinked ==
  ASSUME NEW T, NEW chain, Linked(chain, T), NEW changes, Len(changes) \in Nat,
         \A i \in 1..Len(changes) :
           /\ changes[i].block \in Block
           /\ changes[i].forward /\ Ref[changes[i].block] \in Block
              => changes[i].block \in T
  PROVE  Linked(ChangeBestChain(chain, changes), T)
<1>. DEFINE n == Len(changes)
            V == Outcomes(T)
            base == [chain |-> chain, ok |-> TRUE]
            changed(acc, i) == ChangeStep(acc, changes[i])
            step == [p \in (1..n) \X V |-> changed(p[2], p[1])]
            F == CHOOSE f : f = [i \in 0..n |-> IF i = 0 THEN base
                                                ELSE changed(f[i - 1], i)]
<1>1. base \in V
  BY DEF Outcomes, Linked
<1>2. \A i \in 1..n, v \in V : changed(v, i) \in V
  BY ChangeStepLinked
<1>3. ChangeBestChain(chain, changes) = F[n].chain
  BY DEF ChangeBestChain
<1>. HIDE DEF V, changed
<1>4. \A i \in 1..n, v \in V : step[<<i, v>>] = changed(v, i)
  OBVIOUS
<1>5. \A i \in 1..n, v \in V : step[<<i, v>>] \in V
  BY <1>2, <1>4
<1>. HIDE DEF step, base
<1>6. PICK g \in [0..n -> V] : Recurs(g, n, base, step)
  BY <1>1, <1>5, Recursion
<1>7. g = [i \in 0..n |-> IF i = 0 THEN base ELSE changed(g[i - 1], i)]
  <2>1. \A i \in 0..n : (IF i = 0 THEN base ELSE step[<<i, g[i - 1]>>])
                         = (IF i = 0 THEN base ELSE changed(g[i - 1], i))
    BY <1>4
  <2>2. g = [i \in 0..n |-> IF i = 0 THEN base ELSE step[<<i, g[i - 1]>>]]
    BY <1>6 DEF Recurs
  <2>. QED
    BY <2>1, <2>2
<1>8. F = [i \in 0..n |-> IF i = 0 THEN base ELSE changed(F[i - 1], i)]
  BY <1>7
<1>. HIDE DEF F
<1>9. F[0] \in V
  BY <1>1, <1>8
<1>10. ASSUME NEW i \in 1..n, F[i - 1] \in V PROVE F[i] \in V
  <2>1. i \in 0..n /\ i # 0
    OBVIOUS
  <2>2. F[i] = changed(F[i - 1], i)
    BY <1>8, <2>1
  <2>. QED BY <1>2, <1>10, <2>2
<1>11. F[n] \in V
  BY <1>9, <1>10, RecursionStays
<1>. QED
  BY <1>3, <1>11 DEF V, Outcomes

(* lookForward *)

\* The stored children one after the other from parent on.
Paths(parent, T) ==
  {p \in Seq(T) : \A i \in 1..Len(p) : Ref[p[i]] = IF i = 1 THEN parent ELSE p[i - 1]}

LEMMA PathGrows ==
  ASSUME NEW T, NEW parent, NEW p \in Paths(parent, T), NEW x \in T,
         Ref[x] = IF p = <<>> THEN parent ELSE Last(p)
  PROVE  Append(p, x) \in Paths(parent, T)
<1>. DEFINE q == Append(p, x)
<1>1. p \in Seq(T) /\ \A i \in 1..Len(p) : Ref[p[i]] = IF i = 1 THEN parent ELSE p[i - 1]
  BY DEF Paths
<1>2. /\ q \in Seq(T) /\ Len(p) \in Nat /\ Len(q) = Len(p) + 1
      /\ \A i \in 1..Len(p) : q[i] = p[i]
      /\ q[Len(p) + 1] = x /\ (p = <<>> <=> Len(p) = 0)
  BY <1>1
<1>. HIDE DEF q
<1>3. ASSUME NEW i \in 1..Len(q) PROVE Ref[q[i]] = IF i = 1 THEN parent ELSE q[i - 1]
  <2>1. CASE i \in 1..Len(p)
    <3>1. q[i] = p[i] /\ (i # 1 => i - 1 \in 1..Len(p))
      BY <1>2, <2>1
    <3>2. i # 1 => q[i - 1] = p[i - 1]
      BY <1>2, <3>1
    <3>. QED
      BY <1>1, <2>1, <3>1, <3>2
  <2>2. CASE i = Len(p) + 1
    <3>1. CASE p = <<>>
      BY <1>2, <2>2, <3>1
    <3>2. CASE p # <<>>
      <4>1. Len(p) \in 1..Len(p) /\ i # 1 /\ i - 1 = Len(p)
        BY <1>2, <2>2, <3>2
      <4>2. q[i - 1] = Last(p)
        BY <1>2, <4>1 DEF Last
      <4>. QED
        BY <1>2, <2>2, <3>2, <4>1, <4>2
    <3>. QED
      BY <3>1, <3>2
  <2>. QED
    BY <1>2, <2>1, <2>2
<1>. QED
  BY <1>2, <1>3 DEF Paths, q

LEMMA LookForwardPath ==
  ASSUME NEW T, Linked(bestChain, T), NEW parent, NEW n \in Nat
  PROVE  LookForward(parent, n) \in Paths(parent, T)
<1>. DEFINE V == Paths(parent, T)
            from(p) == IF p = <<>> THEN parent ELSE Last(p)
            longer(p) == IF from(p) \in DOMAIN bestChain /\ bestChain[from(p)] # None
                         THEN Append(p, bestChain[from(p)]) ELSE p
            step == [p \in (1..n) \X V |-> longer(p[2])]
<1>0. PICK F : F = CHOOSE f : f = [i \in 0..n |-> IF i = 0 THEN <<>> ELSE longer(f[i - 1])]
  OBVIOUS
<1>1. <<>> \in V
  BY DEF Paths
<1>2. \A p \in V : longer(p) \in V
  BY PathGrows DEF Linked
<1>3. LookForward(parent, n) = F[n]
  BY <1>0 DEF LookForward
<1>. HIDE DEF V, longer
<1>4. \A i \in 1..n, v \in V : step[<<i, v>>] = longer(v)
  OBVIOUS
<1>5. \A i \in 1..n, v \in V : step[<<i, v>>] \in V
  BY <1>2, <1>4
<1>. HIDE DEF step
<1>6. PICK g \in [0..n -> V] : Recurs(g, n, <<>>, step)
  BY <1>1, <1>5, Recursion
<1>7. g = [i \in 0..n |-> IF i = 0 THEN <<>> ELSE longer(g[i - 1])]
  <2>1. \A i \in 0..n : (IF i = 0 THEN <<>> ELSE step[<<i, g[i - 1]>>])
                         = (IF i = 0 THEN <<>> ELSE longer(g[i - 1]))
    BY <1>4
  <2>2. g = [i \in 0..n |-> IF i = 0 THEN <<>> ELSE step[<<i, g[i - 1]>>]]
    BY <1>6 DEF Recurs
  <2>. QED
    BY <2>1, <2>2
<1>8. F = [i \in 0..n |-> IF i = 0 THEN <<>> ELSE longer(F[i - 1])]
  BY <1>0, <1>7
<1>9. F[0] \in V
  BY <1>1, <1>8
<1>10. ASSUME NEW i \in 1..n, F[i - 1] \in V PROVE F[i] \in V
  <2>1. i \in 0..n /\ i # 0
    OBVIOUS
  <2>2. F[i] = longer(F[i - 1])
    BY <1>8, <2>1
  <2>. QED BY <1>2, <1>10, <2>2
<1>11. F[n] \in V
  BY <1>9, <1>10, RecursionStays
<1>. QED
  BY <1>3, <1>11 DEF V

\* The inductive invariant: the links in memory and those on disk are between
\* stored blocks.
LinksInv == Linked(bestChain, DOMAIN tree) /\ Linked(diskChain, DOMAIN tree)

LEMMA LinkedMore ==
  ASSUME NEW c, NEW T, Linked(c, T), NEW U \in SUBSET Block, T \subseteq U
  PROVE  Linked(c, U)
BY DEF Linked

LEMMA TreeHeights ==
  ASSUME TreeInv
  PROVE  Heights(tree) /\ DOMAIN tree \subseteq Block
<1>1. None \notin DOMAIN tree
  BY BlockTreeAssumption DEF TreeInv, TreeTyped
<1>2. ASSUME NEW b \in DOMAIN tree, Ref[b] \in DOMAIN tree
      PROVE  tree[Ref[b]].height = tree[b].height - 1
  <2>1. b # Genesis
    BY <1>1, <1>2, BlockTreeAssumption
  <2>2. tree[b] = [score |-> tree[Ref[b]].score + BlockScore[b],
                   height |-> tree[Ref[b]].height + 1]
    BY <2>1 DEF TreeInv, TreeConsistent
  <2>3. tree[Ref[b]].height \in Nat
    BY <1>2 DEF TreeInv, TreeTyped
  <2>. QED
    BY <2>2, <2>3
<1>. QED
  BY <1>2 DEF Heights, TreeInv, TreeTyped

LEMMA TreeHeightsNext == (TreeInv => Heights(tree))'
<1>1. TreeInv => Heights(tree)
  BY TreeHeights
<1>. QED
  BY <1>1, PTL

LEMMA InitLinks == Init => LinksInv
<1>. SUFFICES ASSUME Init PROVE LinksInv
  OBVIOUS
<1>1. bestChain = <<>> /\ diskChain = <<>> /\ DOMAIN tree = {}
  BY DEF Init
<1>2. <<>> \in Maps
  <2>1. DOMAIN <<>> = {}
    OBVIOUS
  <2>2. <<>> = [x \in DOMAIN <<>> |-> <<>>[x]]
    BY <2>1, SMT
  <2>. QED
    BY <2>1, <2>2, MapsAre, Zenon
<1>. QED
  BY <1>1, <1>2 DEF LinksInv, Linked

LEMMA AppendLinked ==
  ASSUME NEW T, Linked(bestChain, T), NEW b \in Block,
         Ref[b] \in Block => b \in T
  PROVE  Linked(ChangeBestChain(bestChain, <<Forward(b)>>), T)
<1>. DEFINE changes == <<Forward(b)>>
<1>1. Len(changes) = 1 /\ changes[1].block = b
  BY DEF Forward
<1>. HIDE DEF changes
<1>2. \A i \in 1..Len(changes) : changes[i].block = b
  BY <1>1
<1>3. Len(changes) \in Nat
  BY <1>1
<1>4. Linked(ChangeBestChain(bestChain, changes), T)
  BY <1>2, <1>3, ChangesLinked
<1>. QED
  BY <1>4 DEF changes

LEMMA SwitchLinked ==
  ASSUME NEW T, Linked(bestChain, T), NEW toReverse \in Seq(T), NEW toProcess \in Seq(T)
  PROVE  Linked(ChangeBestChain(bestChain,
                  [i \in DOMAIN toReverse |-> Reversed(toReverse[i])] \o
                  [i \in DOMAIN toProcess |-> Forward(toProcess[i])]), T)
<1>. DEFINE back == [i \in DOMAIN toReverse |-> Reversed(toReverse[i])]
            forth == [i \in DOMAIN toProcess |-> Forward(toProcess[i])]
            Changes == [block : T, forward : BOOLEAN]
<1>1. \A i \in DOMAIN toReverse : Reversed(toReverse[i]) \in Changes
  BY DEF Reversed
<1>2. \A i \in DOMAIN toProcess : Forward(toProcess[i]) \in Changes
  BY DEF Forward
<1>. HIDE DEF Changes
<1>3. back \in Seq(Changes)
  BY <1>1
<1>4. forth \in Seq(Changes)
  BY <1>2
<1>. HIDE DEF back, forth
<1>5. back \o forth \in Seq(Changes)
  BY <1>3, <1>4
<1>6. PICK changes : changes = back \o forth
  OBVIOUS
<1>7. Len(changes) \in Nat /\ \A i \in 1..Len(changes) : changes[i] \in Changes
  BY <1>5, <1>6
<1>8. T \subseteq Block
  BY DEF Linked
<1>9. \A i \in 1..Len(changes) : changes[i].block \in T
  BY <1>7 DEF Changes
<1>10. Linked(ChangeBestChain(bestChain, changes), T)
  BY <1>7, <1>8, <1>9, ChangesLinked
<1>. QED
  BY <1>6, <1>10 DEF back, forth

LEMMA NextLinks ==
  ASSUME TreeInv, TreeInv', LinksInv, Next
  PROVE  LinksInv'
<1>. DEFINE T == DOMAIN tree
            U == DOMAIN tree'
<1>1. Linked(bestChain, T) /\ Linked(diskChain, T) /\ T \subseteq Block /\ U \subseteq Block
  BY TreeHeights DEF LinksInv, TreeInv, TreeTyped
<1>2. ASSUME NEW b, tree' = Put(b)
      PROVE  T \subseteq U /\ b \in U /\ Linked(bestChain, U) /\ Linked(diskChain, U)
  <2>1. T \subseteq U /\ b \in U
    BY <1>2 DEF Put
  <2>. QED
    BY <1>1, <2>1, LinkedMore
<1>3. ASSUME NEW b \in Incoming, AppendLinear(b)
      PROVE  LinksInv'
  <2>1. tree' = Put(b) /\ b \in Block
    BY <1>3, IncomingWritable DEF AppendLinear, Writable
  <2>2. Linked(ChangeBestChain(bestChain, <<Forward(b)>>), U)
    BY <1>2, <2>1, AppendLinked
  <2>. QED
    BY <1>3, <2>2 DEF AppendLinear, LinksInv
<1>4. ASSUME NEW b \in Incoming, AppendSide(b) \/ SwitchBranchFails(b)
      PROVE  LinksInv'
  <2>1. tree' = Put(b) /\ bestChain' = bestChain /\ diskChain' = bestChain
    BY <1>4 DEF AppendSide, SwitchBranchFails
  <2>. QED
    BY <1>2, <2>1 DEF LinksInv
<1>5. ASSUME NEW b \in Incoming, SwitchBranch(b)
      PROVE  LinksInv'
  <2>. DEFINE t == tree'
              node == BranchBlock(t, best, b, MaxRollback)
              toReverse == <<best>> \o LastBlocks(t, best, t[best].height - t[node].height - 1)
              toProcess == <<b>> \o LastBlocks(t, b, t[b].height - t[node].height - 1)
  <2>1. tree' = Put(b) /\ Stored(tree, Ref[b]) /\ node \notin {None, best}
        /\ diskChain' = bestChain
        /\ bestChain' = ChangeBestChain(bestChain,
             [i \in DOMAIN toReverse |-> Reversed(toReverse[i])] \o
             [i \in DOMAIN toProcess |-> Forward(toProcess[i])])
    BY <1>5 DEF SwitchBranch
  <2>2. b \in U /\ best \in U
    BY <1>2, <2>1 DEF Stored, TreeInv, TreeConsistent
  <2>3. Heights(t)
    BY TreeHeightsNext DEF Heights
  <2>4. PICK u : u = tree'
    OBVIOUS
  <2>5. /\ u[best].height - u[node].height - 1 \in Nat
        /\ u[b].height - u[node].height - 1 \in Nat
    BY <2>1, <2>2, <2>3, <2>4, BranchBlockBelow, BlockTreeAssumption
  <2>6. toReverse \in Seq(U) /\ toProcess \in Seq(U)
    BY <2>2, <2>3, <2>4, <2>5, LastBlocksStored
  <2>. HIDE DEF toReverse, toProcess
  <2>7. Linked(bestChain', U)
    BY <1>2, <2>1, <2>6, SwitchLinked
  <2>. QED
    BY <1>2, <2>1, <2>7 DEF LinksInv
<1>6. ASSUME NEW b \in Incoming, CrashInAppend(b)
      PROVE  LinksInv'
  <2>1. CASE Height = 0
    <3>1. b = Genesis /\ tree' = tree /\ Ref[b] = None /\ b \in Block /\ None \notin Block
      BY <1>6, <2>1, BlockTreeAssumption DEF CrashInAppend, Incoming
    <3>2. Linked(ChangeBestChain(bestChain, <<Forward(b)>>), T)
      BY <1>1, <3>1, AppendLinked
    <3>3. bestChain' = ChangeBestChain(bestChain, <<Forward(b)>>) /\ diskChain' = bestChain'
      BY <1>6, <2>1 DEF CrashInAppend, Linear
    <3>. QED
      BY <3>1, <3>2, <3>3 DEF LinksInv
  <2>2. CASE Height # 0
    <3>1. tree' = Put(b) /\ b \in Block
      BY <1>6, <2>2 DEF CrashInAppend, Incoming
    <3>2. Linked(ChangeBestChain(bestChain, <<Forward(b)>>), U)
      BY <1>2, <3>1, AppendLinked
    <3>3. diskChain' = bestChain'
          /\ bestChain' \in {bestChain, ChangeBestChain(bestChain, <<Forward(b)>>)}
      BY <1>6 DEF CrashInAppend
    <3>. QED
      BY <1>2, <3>1, <3>2, <3>3 DEF LinksInv
  <2>. QED
    BY <2>1, <2>2
<1>7. ASSUME CrashIdle \/ \E b \in Incoming : AppendRejected(b)
      PROVE  LinksInv'
  <2>1. tree' = tree /\ diskChain' = diskChain /\ bestChain' \in {bestChain, diskChain}
    BY <1>7 DEF CrashIdle, AppendRejected
  <2>. QED
    BY <2>1 DEF LinksInv
<1>. QED
  BY <1>3, <1>4, <1>5, <1>6, <1>7 DEF Next, AppendBlock

\* What lookForward answers is always a line of stored blocks, each the child
\* of the one before, however many blocks it is asked for and wherever
\* changeBestChain gave up or a crash undid it (StoredBlockTree.scala:95-124).
THEOREM LookForwardAnswersPath == Spec => []LookForwardIsPath
<1>1. TreeInv /\ TreeInv' /\ LinksInv /\ [Next]_vars => LinksInv'
  <2>1. CASE UNCHANGED vars
    BY <2>1 DEF vars, LinksInv
  <2>. QED
    BY <2>1, NextLinks
<1>2. LinksInv => LookForwardIsPath
  <2>. SUFFICES ASSUME LinksInv, NEW b \in DOMAIN tree
                PROVE  LET path == <<b>> \o LookForward(b, Cardinality(Block)) IN
                       \A i \in 1..Len(path) - 1 :
                         path[i + 1] \in DOMAIN tree /\ Ref[path[i + 1]] = path[i]
    BY DEF LookForwardIsPath
  <2>. DEFINE T == DOMAIN tree
              p == LookForward(b, Cardinality(Block))
              path == <<b>> \o p
  <2>1. Cardinality(Block) \in Nat
    BY BlockTreeAssumption, FS_CardinalityType
  <2>2. p \in Paths(b, T)
    BY <2>1, LookForwardPath DEF LinksInv
  <2>3. p \in Seq(T) /\ \A i \in 1..Len(p) : Ref[p[i]] = IF i = 1 THEN b ELSE p[i - 1]
    BY <2>2 DEF Paths
  <2>. HIDE DEF p, T
  <2>4. /\ Len(p) \in Nat /\ Len(path) = Len(p) + 1 /\ path[1] = b
        /\ \A i \in 1..Len(p) : path[i + 1] = p[i] /\ p[i] \in T
    BY <2>3
  <2>. HIDE DEF path
  <2>5. ASSUME NEW i \in 1..Len(path) - 1
        PROVE  path[i + 1] \in T /\ Ref[path[i + 1]] = path[i]
    <3>1. i \in 1..Len(p) /\ path[i + 1] = p[i] /\ p[i] \in T
      BY <2>4
    <3>2. i # 1 => path[i] = p[i - 1]
      <4>1. ASSUME i # 1 PROVE i - 1 \in 1..Len(p) /\ (i - 1) + 1 = i
        BY <3>1, <4>1
      <4>. QED
        BY <2>4, <4>1
    <3>. QED
      BY <2>3, <2>4, <3>1, <3>2
  <2>. QED
    BY <2>5 DEF path, p, T
<1>. QED
  BY <1>1, <1>2, InitLinks, TreeInvariant, PTL DEF Spec
=============================================================================
