--------------------------- MODULE ConsensusProofs ---------------------------
(* For any balances, hits, delays and parameters: what an account generates  *)
(* is valid for those who check it, and a Nxt miner's one attempt comes in   *)
(* the first second in which it succeeds.                                    *)
EXTENDS Consensus, TLAPS

Data == IF algo = "nxt" THEN 0..MaxBaseTarget ELSE MinBalance..MaxBalance

\* A generating balance and a base target keep to their limits, whatever a
\* retarget makes of them, and every block is later than its parent.
ConsensusInv ==
  /\ algo \in {"nxt", "qora"} /\ hit \in [Account -> Nat]
  /\ chain \in Seq([time : Int, data : Data]) /\ chain # <<>>
  /\ \A i, j \in 1..Len(chain) : i < j => chain[i].time < chain[j].time
-----------------------------------------------------------------------------
(* Arithmetic *)

LEMMA MinOfTwo ==
  ASSUME NEW x \in Int, NEW y \in Int
  PROVE  Min({x, y}) \in {x, y} /\ Min({x, y}) <= x /\ Min({x, y}) <= y
<1>1. \E m \in {x, y} : \A z \in {x, y} : m <= z
  <2>1. CASE x <= y
    BY <2>1
  <2>2. CASE y <= x
    BY <2>2
  <2>. QED
    BY <2>1, <2>2
<1>. QED
  BY <1>1 DEF Min

LEMMA MaxOfTwo ==
  ASSUME NEW x \in Int, NEW y \in Int
  PROVE  Max({x, y}) \in {x, y} /\ Max({x, y}) >= x /\ Max({x, y}) >= y
<1>1. \E m \in {x, y} : \A z \in {x, y} : m >= z
  <2>1. CASE x >= y
    BY <2>1
  <2>2. CASE y >= x
    BY <2>2
  <2>. QED
    BY <2>1, <2>2
<1>. QED
  BY <1>1 DEF Max

LEMMA DivisionBounds ==
  ASSUME NEW n \in Int, NEW d \in Nat \ {0}
  PROVE  n \div d \in Int /\ d * (n \div d) <= n /\ n < d * (n \div d + 1)
OBVIOUS

LEMMA DivisionAtLeast ==
  ASSUME NEW n \in Int, NEW d \in Nat \ {0}, NEW k \in Int, n >= d * k
  PROVE  n \div d >= k
<1>1. n < d * (n \div d + 1) /\ n \div d \in Int
  BY DivisionBounds
<1>2. d * k < d * (n \div d + 1)
  BY <1>1
<1>. QED
  BY <1>1, <1>2

LEMMA DivisionAtMost ==
  ASSUME NEW n \in Int, NEW d \in Nat \ {0}, NEW k \in Int, n <= d * k
  PROVE  n \div d <= k
<1>1. d * (n \div d) <= n /\ n \div d \in Int
  BY DivisionBounds
<1>2. d * (n \div d) <= d * k
  BY <1>1
<1>. QED
  BY <1>1, <1>2

\* A product that a Long holds is what it is.
LEMMA LongOfLong ==
  ASSUME NEW n \in 1..LongMax
  PROVE  Long(n) = n
<1>. USE ConsensusAssumption
<1>. DEFINE range == 2 * (LongMax + 1)
            shifted == n + LongMax + 1
<1>1. range \in Nat \ {0} /\ shifted \in 0..range - 1
  OBVIOUS
<1>2. shifted % range = shifted
  <2>. HIDE DEF range, shifted
  <2>. QED
    BY <1>1
<1>. QED
  BY <1>2 DEF Long
-----------------------------------------------------------------------------
LEMMA BlockTypes ==
  ASSUME ConsensusInv
  PROVE  /\ Height \in Nat \ {0} /\ LastBlock = chain[Height]
         /\ \A i \in 1..Height : chain[i].time \in Int /\ chain[i].data \in Data
<1>. DEFINE Blocks == [time : Int, data : Data]
<1>1. chain \in Seq(Blocks) /\ chain # <<>>
  BY DEF ConsensusInv
<1>. HIDE DEF Blocks
<1>2. Len(chain) \in Nat \ {0} /\ \A i \in 1..Len(chain) : chain[i] \in Blocks
  BY <1>1
<1>. QED
  BY <1>2 DEF Height, LastBlock, Last, Blocks

(* Qora *)

LEMMA MinMaxBalanceLimits ==
  ASSUME NEW n \in Int
  PROVE  MinMaxBalance(n) \in MinBalance..MaxBalance
<1>0. MaxBalance \in Int /\ MinBalance \in Int /\ MinBalance <= MaxBalance
  BY ConsensusAssumption
<1>1. Min({MaxBalance, n}) \in Int /\ Min({MaxBalance, n}) <= MaxBalance
  <2>1. Min({MaxBalance, n}) \in {MaxBalance, n} /\ Min({MaxBalance, n}) <= MaxBalance
    BY <1>0, MinOfTwo
  <2>. QED
    BY <1>0, <2>1
<1>2. /\ Max({MinBalance, Min({MaxBalance, n})}) \in {MinBalance, Min({MaxBalance, n})}
      /\ Max({MinBalance, Min({MaxBalance, n})}) >= MinBalance
  BY <1>0, <1>1, MaxOfTwo
<1>. QED
  BY <1>0, <1>1, <1>2 DEF MinMaxBalance

LEMMA BlockTimeLimits ==
  ASSUME NEW balance \in Int
  PROVE  GetBlockTime(balance) \in MinBlockTime..MaxBlockTime
<1>. USE ConsensusAssumption
<1>. DEFINE m == MinMaxBalance(balance)
            n == MaxBlockTime * MaxBalance - (MaxBlockTime - MinBlockTime) * m
<1>1. m \in 1..MaxBalance /\ MaxBalance \in Nat \ {0} /\ MinBlockTime \in 1..MaxBlockTime
      /\ MaxBlockTime \in Nat
  BY MinMaxBalanceLimits
<1>. HIDE DEF m
<1>2. n \in Int /\ n >= MaxBalance * MinBlockTime /\ n <= MaxBalance * MaxBlockTime
  <2>1. /\ (MaxBlockTime - MinBlockTime) * m <= (MaxBlockTime - MinBlockTime) * MaxBalance
        /\ (MaxBlockTime - MinBlockTime) * m >= 0
    BY <1>1
  <2>. QED
    BY <1>1, <2>1
<1>. HIDE DEF n
<1>3. n \div MaxBalance \in Int /\ n \div MaxBalance >= MinBlockTime
      /\ n \div MaxBalance <= MaxBlockTime
  BY <1>1, <1>2, DivisionBounds, DivisionAtLeast, DivisionAtMost
<1>. QED
  BY <1>1, <1>3 DEF GetBlockTime, m, n

\* Every generating balance leaves a target to everyone who has a stake.
LEMMA TargetIsPositive ==
  ASSUME NEW balance \in Int, NEW a \in Account, Balance[a] > 0
  PROVE  QoraTarget(balance, a) \in Nat \ {0}
<1>0. /\ MaxBalance \in Nat /\ MaxBlockTime \in Nat /\ TargetBytes \in Nat
      /\ MinBalance \in 1..MaxBalance /\ MinBlockTime \in 1..MaxBlockTime
      /\ TargetBytes >= MaxBalance * MaxBlockTime /\ Balance \in [Account -> Nat]
  BY ConsensusAssumption
<1>1. MinMaxBalance(balance) \in 1..MaxBalance /\ GetBlockTime(balance) \in 1..MaxBlockTime
      /\ MaxBalance \in Nat /\ MaxBlockTime \in Nat /\ TargetBytes \in Nat
  BY <1>0, MinMaxBalanceLimits, BlockTimeLimits
<1>2. /\ GetBaseTarget(balance) \in Nat \ {0}
      /\ GetBaseTarget(balance) <= MaxBalance * MaxBlockTime
  <2>. DEFINE m == MinMaxBalance(balance)
              t == GetBlockTime(balance)
  <2>1. m \in 1..MaxBalance /\ t \in 1..MaxBlockTime
    BY <1>1
  <2>. HIDE DEF m, t
  <2>2. m * t \in Nat \ {0} /\ m * t <= m * MaxBlockTime /\ m * MaxBlockTime <= MaxBalance * MaxBlockTime
    BY <1>1, <2>1
  <2>. QED
    BY <1>1, <2>1, <2>2 DEF GetBaseTarget, m, t
<1>3. TargetBytes \div GetBaseTarget(balance) \in Int
      /\ TargetBytes \div GetBaseTarget(balance) >= 1
  <2>. DEFINE base == GetBaseTarget(balance)
  <2>1. base \in Nat \ {0} /\ TargetBytes \in Int /\ TargetBytes >= base * 1
    BY <1>0, <1>1, <1>2
  <2>. HIDE DEF base
  <2>2. TargetBytes \div base \in Int /\ TargetBytes \div base >= 1
    BY <2>1, DivisionBounds, DivisionAtLeast
  <2>. QED
    BY <2>2 DEF base
<1>4. Balance[a] \in Nat \ {0}
  BY <1>0
<1>. QED
  BY <1>3, <1>4 DEF QoraTarget

\* Cutting a balance to its limits takes it past none of them.
LEMMA MinMaxBalanceNear ==
  ASSUME NEW n \in Int, NEW m \in MinBalance..MaxBalance
  PROVE  /\ n <= m => MinMaxBalance(n) <= m
         /\ n >= m => MinMaxBalance(n) >= m
<1>1. MaxBalance \in Int /\ MinBalance \in Int /\ MinBalance <= MaxBalance
      /\ m \in Int /\ MinBalance <= m /\ m <= MaxBalance
  BY ConsensusAssumption
<1>. DEFINE cut == Min({MaxBalance, n})
<1>2. cut \in {MaxBalance, n} /\ cut <= n
  BY <1>1, MinOfTwo
<1>. HIDE DEF cut
<1>3. /\ Max({MinBalance, cut}) \in {MinBalance, cut}
      /\ Max({MinBalance, cut}) >= cut
  BY <1>1, <1>2, MaxOfTwo
<1>4. MinMaxBalance(n) = Max({MinBalance, cut})
  BY DEF MinMaxBalance, cut
<1>. QED
  BY <1>1, <1>2, <1>3, <1>4

\* A retarget divides by the time of a whole period, which is never zero.
LEMMA PeriodTakesTime ==
  ASSUME ConsensusInv, IsRetarget
  PROVE  GeneratingTime \in Nat \ {0}
<1>. DEFINE first == Height - (ReTarget - 1)
<1>1. Height \in Nat \ {0} /\ LastBlock = chain[Height] /\ Height = Len(chain)
      /\ \A i \in 1..Height : chain[i].time \in Int
  BY BlockTypes DEF Height
<1>2. ReTarget \in Nat \ {0, 1}
  BY ConsensusAssumption
<1>3. Height >= ReTarget
  BY <1>1, <1>2 DEF IsRetarget
<1>4. first \in 1..Height /\ Height \in 1..Height /\ first < Height
  BY <1>1, <1>2, <1>3
<1>. HIDE DEF first
<1>5. chain[first].time < chain[Height].time
  BY <1>1, <1>4 DEF ConsensusInv
<1>6. chain[first].time \in Int /\ chain[Height].time \in Int
  BY <1>1, <1>4
<1>7. GeneratingTime = chain[Height].time - chain[first].time
  BY <1>1 DEF GeneratingTime, first
<1>. QED
  BY <1>5, <1>6, <1>7

\* Whatever the times of the blocks, the next generating balance keeps its limits.
LEMMA GeneratingBalanceLimits ==
  ASSUME ConsensusInv, algo = "qora"
  PROVE  GetNextBlockGeneratingBalance \in MinBalance..MaxBalance
<1>0. ReTarget \in Nat \ {0, 1} /\ MinBalance \in 1..MaxBalance /\ MaxBalance \in Nat
      /\ MinBlockTime \in 1..MaxBlockTime /\ MaxBlockTime \in Nat
  BY ConsensusAssumption
<1>1. /\ Height \in Nat \ {0} /\ LastBlock = chain[Height]
      /\ LastBlock.time \in Int /\ LastBlock.data \in MinBalance..MaxBalance
  BY <1>0, BlockTypes DEF Data
<1>2. CASE IsRetarget
  <2>2. GeneratingTime \in Nat \ {0}
    BY <1>2, PeriodTakesTime
  <2>3. LastBlock.data \in Int /\ ExpectedGeneratingTime \in Int
    BY <1>0, <1>1, BlockTimeLimits DEF ExpectedGeneratingTime
  <2>4. (LastBlock.data * ExpectedGeneratingTime) \div GeneratingTime \in Int
    <3>. DEFINE n == LastBlock.data * ExpectedGeneratingTime
    <3>1. n \in Int /\ GeneratingTime \in Nat \ {0}
      BY <2>2, <2>3
    <3>. HIDE DEF n
    <3>2. n \div GeneratingTime \in Int
      BY <3>1, DivisionBounds
    <3>. QED
      BY <3>2 DEF n
  <2>. QED
    BY <1>2, <2>4, MinMaxBalanceLimits DEF GetNextBlockGeneratingBalance
<1>3. CASE ~IsRetarget
  BY <1>1, <1>3 DEF GetNextBlockGeneratingBalance
<1>. QED
  BY <1>2, <1>3

\* The guess that a hit gives is the one whose interval it is in.
LEMMA GuessIsRight ==
  ASSUME NEW h \in Nat, NEW target \in Nat \ {0}
  PROVE  LET guesses == h \div target + 1 IN
         guesses \in Nat \ {0} /\ h >= target * (guesses - 1) /\ h < target * guesses
<1>1. h \div target \in Int /\ target * (h \div target) <= h /\ h < target * (h \div target + 1)
  BY DivisionBounds
<1>2. h \div target >= 0
  BY DivisionAtLeast
<1>. QED
  BY <1>1, <1>2

LEMMA QoraGeneratedIsValid ==
  ASSUME ConsensusInv, algo = "qora", NEW a \in Account, Balance[a] > 0,
         NEW b \in QoraGenerates(a)
  PROVE  /\ b.time \in Int /\ b.time > LastBlock.time /\ b.data \in MinBalance..MaxBalance
         /\ QoraIsValid(b, a)
<1>. DEFINE balance == GetNextBlockGeneratingBalance
            target == QoraTarget(balance, a)
            guesses == hit[a] \div target + 1
<1>1. balance \in MinBalance..MaxBalance /\ balance \in Int
  BY GeneratingBalanceLimits, ConsensusAssumption
<1>2. target \in Nat \ {0}
  BY <1>1, TargetIsPositive
<1>3. hit[a] \in Nat /\ LastBlock.time \in Int
  BY BlockTypes DEF ConsensusInv
<1>4. guesses \in Nat \ {0} /\ hit[a] >= target * (guesses - 1) /\ hit[a] < target * guesses
  <2>. HIDE DEF target
  <2>. QED
    BY <1>2, <1>3, GuessIsRight
<1>5. b = [time |-> LastBlock.time + guesses, data |-> balance]
  BY DEF QoraGenerates, Guesses
<1>. HIDE DEF guesses
<1>6. b.time - LastBlock.time = guesses /\ b.time > LastBlock.time /\ b.time \in Int
  BY <1>3, <1>4, <1>5
<1>. QED
  BY <1>1, <1>4, <1>5, <1>6 DEF QoraIsValid

\* While the product of balance and block time grows with the balance, a lower
\* balance has a lower base target, up to the seconds cut off.
LEMMA BaseTargetOrder ==
  ASSUME NEW x \in MinBalance..MaxBalance, NEW y \in MinBalance..MaxBalance, x <= y,
         2 * (MaxBlockTime - MinBlockTime) * y <= MaxBlockTime * MaxBalance
  PROVE  GetBaseTarget(x) < GetBaseTarget(y) + y
<1>1. /\ MaxBalance \in Nat \ {0} /\ MinBalance \in 1..MaxBalance
      /\ MaxBlockTime \in Nat /\ MinBlockTime \in 1..MaxBlockTime
  BY ConsensusAssumption
<1>2. x \in 1..MaxBalance /\ y \in 1..MaxBalance
  BY <1>1
<1>3. ASSUME NEW m \in MinBalance..MaxBalance
      PROVE  MinMaxBalance(m) = m
  <2>1. m \in Int /\ m >= MinBalance /\ m <= MaxBalance /\ m <= m
    BY <1>1
  <2>2. Min({MaxBalance, m}) = m
    <3>1. Min({MaxBalance, m}) \in {MaxBalance, m} /\ Min({MaxBalance, m}) <= m
      <4>1. MaxBalance \in Int
        BY <1>1
      <4>. QED
        BY ONLY <2>1, <4>1, MinOfTwo
    <3>. QED
      BY <1>1, <2>1, <3>1
  <2>3. Max({MinBalance, m}) = m
    <3>1. Max({MinBalance, m}) \in {MinBalance, m} /\ Max({MinBalance, m}) >= m
      BY <1>1, <2>1, MaxOfTwo
    <3>. QED
      BY <1>1, <2>1, <3>1
  <2>. QED
    BY <2>2, <2>3 DEF MinMaxBalance
<1>. DEFINE all == MaxBlockTime * MaxBalance
            range == MaxBlockTime - MinBlockTime
            tx == (all - range * x) \div MaxBalance
            ty == (all - range * y) \div MaxBalance
<1>4. GetBaseTarget(x) = x * tx /\ GetBaseTarget(y) = y * ty
  BY <1>3 DEF GetBaseTarget, GetBlockTime
<1>5. /\ all \in Int /\ range \in Nat /\ range * x \in Int /\ range * y \in Int
      /\ 2 * range * y <= all
  BY <1>1, <1>2
<1>. HIDE DEF all, range
<1>6. /\ tx \in Int /\ MaxBalance * tx <= all - range * x
      /\ ty \in Int /\ all - range * y < MaxBalance * (ty + 1)
  BY <1>1, <1>5, DivisionBounds
<1>. HIDE DEF tx, ty
<1>7. x * (all - range * x) <= y * (all - range * y)
  <2>1. range * (x + y) <= all
    <3>1. range * x <= range * y
      BY <1>2, <1>5
    <3>. QED
      BY <1>2, <1>5, <3>1
  <2>2. (y - x) * (range * (x + y)) <= (y - x) * all
    BY <1>2, <1>5, <2>1
  <2>3. (y - x) * (range * (x + y)) = y * (range * y) - x * (range * x)
    BY <1>2, <1>5
  <2>. QED
    BY <1>2, <1>5, <2>2, <2>3
<1>8. x * (MaxBalance * tx) <= x * (all - range * x)
  BY <1>1, <1>2, <1>5, <1>6
<1>9. y * (all - range * y) < y * (MaxBalance * (ty + 1))
  BY <1>1, <1>2, <1>5, <1>6
<1>10. MaxBalance * (x * tx) < MaxBalance * (y * ty + y)
  <2>1. x * (MaxBalance * tx) = MaxBalance * (x * tx)
    BY <1>1, <1>2, <1>6
  <2>2. y * (MaxBalance * (ty + 1)) = MaxBalance * (y * ty + y)
    BY <1>1, <1>2, <1>6
  <2>3. /\ x * (all - range * x) \in Int /\ y * (all - range * y) \in Int
        /\ x * (MaxBalance * tx) \in Int /\ y * (MaxBalance * (ty + 1)) \in Int
    BY <1>1, <1>2, <1>5, <1>6
  <2>. QED
    BY <1>7, <1>8, <1>9, <2>1, <2>2, <2>3
<1>11. x * tx < y * ty + y
  <2>. DEFINE l == x * tx
              r == y * ty + y
  <2>1. l \in Int /\ r \in Int /\ MaxBalance * l < MaxBalance * r
    BY <1>1, <1>2, <1>6, <1>10
  <2>. HIDE DEF l, r
  <2>2. l < r
    BY <1>1, <2>1
  <2>. QED
    BY <2>2 DEF l, r
<1>. QED
  BY <1>4, <1>11

(* Nxt *)

LEMMA BlocktimeIsInteger ==
  ASSUME ConsensusInv, NEW time \in Int
  PROVE  BlocktimeAverage(time) \in Int
<1>1. /\ Height \in Nat \ {0} /\ LastBlock.time \in Int
      /\ \A i \in 1..Height : chain[i].time \in Int
  <2>1. LastBlock = chain[Height] /\ Height \in Nat \ {0}
        /\ \A i \in 1..Height : chain[i].time \in Int
    BY BlockTypes
  <2>. QED
    BY <2>1
<1>2. AvgBlockTimeDepth \in Nat \ {0}
  BY ConsensusAssumption
<1>3. CASE Height > AvgBlockTimeDepth - 1
  <2>1. Height - (AvgBlockTimeDepth - 1) \in 1..Height
    BY <1>1, <1>2, <1>3
  <2>2. time - chain[Height - (AvgBlockTimeDepth - 1)].time \in Int
    BY <1>1, <2>1
  <2>. QED
    BY <1>2, <1>3, <2>2, DivisionBounds DEF BlocktimeAverage
<1>4. CASE ~(Height > AvgBlockTimeDepth - 1)
  BY <1>1, <1>4 DEF BlocktimeAverage
<1>. QED
  BY <1>3, <1>4

\* After slow blocks a base target does not fall, and rises by 7/60 at most.
LEMMA RisenLimits ==
  ASSUME NEW target \in Nat, NEW average \in Int, average > AvgDelay
  PROVE  /\ Risen(target, average) \in Int /\ Risen(target, average) >= target
         /\ 60 * Risen(target, average) <= 67 * target
<1>1. AvgDelay \in Nat \ {0}
  BY ConsensusAssumption
<1>2. CASE 60 * average > 67 * AvgDelay
  <2>1. (target * 67) \div 60 \in Int /\ 60 * ((target * 67) \div 60) <= target * 67
    BY DivisionBounds
  <2>2. (target * 67) \div 60 >= target
    BY DivisionAtLeast
  <2>. QED
    BY <1>2, <2>1, <2>2 DEF Risen
<1>3. CASE ~(60 * average > 67 * AvgDelay)
  <2>. DEFINE r == (target * average) \div AvgDelay
  <2>1. r \in Int /\ AvgDelay * r <= target * average
    BY <1>1, DivisionBounds
  <2>2. target * average >= AvgDelay * target
    BY <1>1
  <2>3. r >= target
    BY <1>1, <2>2, DivisionAtLeast
  <2>4. 60 * r <= 67 * target
    <3>. HIDE DEF r
    <3>1. target * (60 * average) <= target * (67 * AvgDelay)
      BY <1>1, <1>3
    <3>2. AvgDelay * (60 * r) <= AvgDelay * (67 * target)
      BY <1>1, <2>1, <3>1
    <3>. QED
      BY <1>1, <2>1, <3>2
  <2>. QED
    BY <1>3, <2>1, <2>3, <2>4 DEF Risen
<1>. QED
  BY <1>2, <1>3

\* After fast blocks a base target does not rise, and falls by 7 AvgDelay in
\* 5625 at most.
LEMMA FallenLimits ==
  ASSUME NEW target \in Nat, NEW average \in Int, average <= AvgDelay
  PROVE  /\ Fallen(target, average) \in Nat /\ Fallen(target, average) <= target
         /\ Fallen(target, average) >= (target * (5625 - 7 * AvgDelay)) \div 5625
<1>1. AvgDelay \in Nat \ {0} /\ 7 * AvgDelay <= 5625
  BY ConsensusAssumption
<1>. DEFINE short == Min({60 * (AvgDelay - average), 7 * AvgDelay})
            most == (target * (5625 - 7 * AvgDelay)) \div 5625
<1>2. short \in 0..7 * AvgDelay
  <2>1. 60 * (AvgDelay - average) \in Nat /\ 7 * AvgDelay \in Nat
    BY <1>1
  <2>2. /\ short \in {60 * (AvgDelay - average), 7 * AvgDelay}
        /\ short <= 7 * AvgDelay
    <3>. DEFINE x == 60 * (AvgDelay - average)
                y == 7 * AvgDelay
    <3>1. x \in Int /\ y \in Int
      BY <2>1
    <3>. HIDE DEF x, y
    <3>2. Min({x, y}) \in {x, y} /\ Min({x, y}) <= y
      BY <3>1, MinOfTwo
    <3>. QED
      BY <3>2 DEF x, y
  <2>. QED
    BY <2>1, <2>2
<1>3. Fallen(target, average) = (target * 5625 - target * short) \div 5625
  BY DEF Fallen
<1>. HIDE DEF short
<1>4. /\ target * short >= 0 /\ target * short <= target * (7 * AvgDelay)
      /\ target * short \in Int /\ target * (7 * AvgDelay) \in Int
  BY <1>1, <1>2
<1>5. Fallen(target, average) \in Int /\ Fallen(target, average) <= target
  <2>. DEFINE n == target * 5625 - target * short
  <2>1. n \in Int /\ n <= 5625 * target
    BY <1>4
  <2>. HIDE DEF n
  <2>2. n \div 5625 \in Int /\ n \div 5625 <= target
    BY <2>1, DivisionBounds, DivisionAtMost
  <2>. QED
    BY <1>3, <2>2 DEF n
<1>6. most \in Int /\ 5625 * most <= target * (5625 - 7 * AvgDelay)
  BY <1>1, DivisionBounds
<1>7. most >= 0
  <2>1. target * (5625 - 7 * AvgDelay) >= 0
    BY <1>1
  <2>. QED
    BY <1>1, <2>1, DivisionAtLeast
<1>. HIDE DEF most
<1>8. target * 5625 - target * short >= 5625 * most
  BY <1>1, <1>4, <1>6
<1>9. Fallen(target, average) >= most
  BY <1>3, <1>4, <1>6, <1>8, DivisionAtLeast
<1>. QED
  BY <1>5, <1>6, <1>7, <1>9 DEF most

\* What one retarget makes of a base target that is in its limits.
LEMMA BaseTargetLimits ==
  ASSUME ConsensusInv, algo = "nxt", NEW time \in Int
  PROVE  LET average == BlocktimeAverage(time)
             last == LastBlock.data
             next == CalcBaseTarget(time)
         IN  /\ next \in 0..MaxBaseTarget /\ 60 * next <= 67 * last
             /\ next >= (last * (5625 - 7 * AvgDelay)) \div 5625
             /\ average > AvgDelay => next >= last
             /\ average < AvgDelay => next <= last
<1>. DEFINE average == BlocktimeAverage(time)
            last == LastBlock.data
            most == (last * (5625 - 7 * AvgDelay)) \div 5625
            moved == IF average > AvgDelay THEN Risen(last, average) ELSE Fallen(last, average)
<1>1. average \in Int /\ last \in 0..MaxBaseTarget
  BY BlocktimeIsInteger, BlockTypes DEF Data
<1>2. AvgDelay \in Nat \ {0} /\ 7 * AvgDelay <= 5625 /\ MaxBaseTarget \in Nat
  <2>1. AvgDelay \in Nat \ {0} /\ 7 * AvgDelay <= 5625 /\ LongMax \in Nat
    BY ConsensusAssumption
  <2>. QED
    BY <2>1 DEF MaxBaseTarget
<1>. HIDE DEF average, last
<1>3. most \in Int /\ most <= last
  <2>1. last * (5625 - 7 * AvgDelay) <= 5625 * last
    BY <1>1, <1>2
  <2>. QED
    BY <1>1, <1>2, <2>1, DivisionBounds, DivisionAtMost
<1>. HIDE DEF most
<1>4. /\ moved \in Nat /\ 60 * moved <= 67 * last /\ moved >= most
      /\ average > AvgDelay => moved >= last
      /\ average <= AvgDelay => moved <= last
  <2>1. CASE average > AvgDelay
    <3>1. moved = Risen(last, average) /\ last \in Nat
      BY <1>1, <1>2, <2>1
    <3>2. /\ moved \in Int /\ moved >= last /\ 60 * moved <= 67 * last
      BY <1>1, <2>1, <3>1, RisenLimits
    <3>. HIDE DEF moved
    <3>. QED
      BY <1>1, <1>2, <1>3, <2>1, <3>1, <3>2
  <2>2. CASE ~(average > AvgDelay)
    <3>1. moved = Fallen(last, average) /\ last \in Nat /\ average <= AvgDelay
      BY <1>1, <1>2, <2>2
    <3>2. /\ moved \in Nat /\ moved <= last /\ moved >= most
      BY <1>1, <3>1, FallenLimits DEF most
    <3>. HIDE DEF moved
    <3>. QED
      BY <1>1, <1>2, <2>2, <3>1, <3>2
  <2>. QED
    BY <2>1, <2>2
<1>. HIDE DEF moved
<1>5. CASE Height % 2 = 1
  <2>1. CalcBaseTarget(time) = last
    BY <1>5 DEF CalcBaseTarget, last
  <2>. QED
    BY <1>1, <1>2, <1>3, <2>1 DEF average, last, most
<1>6. CASE Height % 2 # 1
  <2>. DEFINE next == Min({MaxBaseTarget, moved})
  <2>1. CalcBaseTarget(time) = next
    BY <1>6 DEF CalcBaseTarget, average, last, moved
  <2>2. next \in {MaxBaseTarget, moved} /\ next <= MaxBaseTarget /\ next <= moved
    <3>1. MaxBaseTarget \in Int /\ moved \in Int
      BY <1>2, <1>4
    <3>. QED
      BY <3>1, MinOfTwo
  <2>. HIDE DEF next
  <2>3. /\ next \in 0..MaxBaseTarget /\ 60 * next <= 67 * last /\ next >= most
        /\ average > AvgDelay => next >= last
        /\ average < AvgDelay => next <= last
    BY <1>1, <1>2, <1>3, <1>4, <2>2
  <2>. QED
    BY <2>1, <2>3 DEF average, last, most
<1>. QED
  BY <1>5, <1>6

LEMMA NxtGeneratedIsValid ==
  ASSUME ConsensusInv, algo = "nxt", NEW a \in Account, NEW d \in Delays,
         NEW b \in NxtGenerates(a, LastBlock.time + d)
  PROVE  /\ b.time \in Int /\ b.time > LastBlock.time /\ b.data \in 0..MaxBaseTarget
         /\ NxtIsValid(b, a)
<1>1. LastBlock.time \in Int /\ d \in Nat \ {0}
  BY BlockTypes, ConsensusAssumption
<1>2. /\ b = [time |-> LastBlock.time + d, data |-> CalcBaseTarget(LastBlock.time + d)]
      /\ hit[a] < CalcTarget(LastBlock.time + d, a)
  BY DEF NxtGenerates
<1>3. b.time = LastBlock.time + d /\ b.data = CalcBaseTarget(b.time)
  BY <1>2
<1>4. CalcBaseTarget(LastBlock.time + d) \in 0..MaxBaseTarget
  BY <1>1, BaseTargetLimits
<1>. QED
  BY <1>1, <1>2, <1>3, <1>4 DEF NxtIsValid
-----------------------------------------------------------------------------
LEMMA GeneratedBlocks ==
  ASSUME ConsensusInv, NEW a \in Account, Balance[a] > 0, NEW b \in Generates(a)
  PROVE  /\ b.time \in Int /\ b.time > LastBlock.time /\ b.data \in Data
         /\ IsValid(b, a)
<1>1. CASE algo = "qora"
  BY <1>1, QoraGeneratedIsValid DEF Generates, IsValid, Data
<1>2. CASE algo = "nxt"
  BY <1>2, NxtGeneratedIsValid DEF Generates, IsValid, Data
<1>. QED
  BY <1>1, <1>2 DEF ConsensusInv

LEMMA InitInv == Init => ConsensusInv
<1>. SUFFICES ASSUME Init PROVE ConsensusInv
  OBVIOUS
<1>1. hit \in [Account -> Nat]
  BY ConsensusAssumption DEF Init, Hits
<1>2. InitialBaseTarget \in 0..MaxBaseTarget
  <2>1. AvgDelay \in Nat \ {0} /\ LongMax \in Nat
    BY ConsensusAssumption
  <2>. QED
    BY <2>1 DEF InitialBaseTarget, MaxBaseTarget
<1>3. (IF algo = "nxt" THEN InitialBaseTarget ELSE GenesisBalance) \in Data
  <2>1. GenesisBalance \in MinBalance..MaxBalance
    BY ConsensusAssumption
  <2>. QED
    BY <1>2, <2>1 DEF Data
<1>4. chain \in Seq([time : Int, data : Data]) /\ Len(chain) = 1
  BY <1>3 DEF Init
<1>. QED
  BY <1>1, <1>4 DEF Init, ConsensusInv

LEMMA NextInv ==
  ASSUME ConsensusInv, [Next]_vars
  PROVE  ConsensusInv'
<1>1. ASSUME NEW a \in Account, GenerateNextBlock(a) PROVE ConsensusInv'
  <2>1. PICK b \in Generates(a) : chain' = Append(chain, b)
    BY <1>1 DEF GenerateNextBlock
  <2>2. b.time \in Int /\ b.time > LastBlock.time /\ b.data \in Data
    BY <1>1, <2>1, GeneratedBlocks DEF GenerateNextBlock
  <2>3. b = [time |-> b.time, data |-> b.data]
    BY DEF Generates, QoraGenerates, NxtGenerates
  <2>4. b \in [time : Int, data : Data]
    BY <2>2, <2>3
  <2>5. algo' = algo /\ Data' = Data /\ algo \in {"nxt", "qora"}
    BY <1>1 DEF GenerateNextBlock, Data, ConsensusInv
  <2>6. hit' \in [Account -> Nat]
    BY <1>1, ConsensusAssumption DEF GenerateNextBlock, Hits
  <2>7. Append(chain, b) \in Seq([time : Int, data : Data]) /\ Append(chain, b) # <<>>
    BY <2>4 DEF ConsensusInv
  <2>8. chain' \in Seq([time : Int, data : Data]) /\ chain' # <<>>
    BY <2>1, <2>7
  <2>9. \A i, j \in 1..Len(chain') : i < j => chain'[i].time < chain'[j].time
    <3>1. /\ Height \in Nat \ {0} /\ Height = Len(chain) /\ LastBlock = chain[Height]
          /\ \A i \in 1..Height : chain[i].time \in Int
      BY BlockTypes DEF Height
    <3>2. /\ Len(chain') = Height + 1 /\ chain'[Height + 1] = b
          /\ \A i \in 1..Height : chain'[i] = chain[i]
      BY <2>1, <2>4, <3>1 DEF ConsensusInv
    <3>3. \A i, j \in 1..Height : i < j => chain[i].time < chain[j].time
      BY <3>1 DEF ConsensusInv
    <3>4. \A i \in 1..Height : chain[i].time <= chain[Height].time
      BY <3>1, <3>3
    <3>. SUFFICES ASSUME NEW i \in 1..Height + 1, NEW j \in 1..Height + 1, i < j
                  PROVE  chain'[i].time < chain'[j].time
      BY <3>2
    <3>5. CASE j \in 1..Height
      BY <3>1, <3>2, <3>3, <3>5
    <3>6. CASE j = Height + 1
      <4>1. i \in 1..Height
        BY <3>1, <3>6
      <4>2. chain[i].time <= LastBlock.time /\ chain[i].time \in Int /\ LastBlock.time \in Int
        BY <3>1, <3>4, <4>1
      <4>3. chain'[i] = chain[i] /\ chain'[j] = b
        BY <3>2, <3>6, <4>1
      <4>. QED
        BY <2>2, <4>2, <4>3
    <3>. QED
      BY <3>1, <3>5, <3>6
  <2>. QED
    BY <2>5, <2>6, <2>8, <2>9 DEF ConsensusInv
<1>2. CASE UNCHANGED vars
  BY <1>2 DEF vars, ConsensusInv, Data
<1>. QED
  BY <1>1, <1>2 DEF Next

\* Every block that is generated is valid for those who check it
\* (NxtLikeConsensusModule.scala:36-112, QoraLikeConsensusModule.scala:93-178).
THEOREM GeneratedIsAlwaysValid == Spec => []GeneratedIsValid
<1>1. ConsensusInv => GeneratedIsValid
  BY GeneratedBlocks DEF GeneratedIsValid, Staking
<1>. QED
  BY InitInv, NextInv, <1>1, PTL DEF Spec

\* The time a Nxt miner waits for is the first second in which its attempt
\* succeeds, unless the product it divides by overflows or is zero
\* (Miner.scala:72, NxtLikeConsensusModule.scala:114-123).
THEOREM ScheduledAttemptIsEarliest == Spec => []ScheduledIsEarliest
<1>1. ConsensusInv => ScheduledIsEarliest
  <2>. SUFFICES ASSUME ConsensusInv, algo = "nxt", NEW a \in Staking,
                       LastBlock.data * Balance[a] \in 1..LongMax
                PROVE  /\ hit[a] < CalcTarget(ScheduledTime(a), a)
                       /\ hit[a] >= CalcTarget(ScheduledTime(a) - 1, a)
    BY DEF ScheduledIsEarliest
  <2>. DEFINE product == LastBlock.data * Balance[a]
              wait == hit[a] \div product
  <2>1. /\ a \in Account /\ Balance[a] \in Nat /\ hit[a] \in Nat
        /\ LastBlock.data \in Int /\ LastBlock.time \in Int
    <3>1. a \in Account /\ Balance[a] \in Nat
      BY ConsensusAssumption DEF Staking
    <3>2. hit[a] \in Nat
      BY <3>1 DEF ConsensusInv
    <3>. QED
      BY <3>1, <3>2, BlockTypes DEF Data
  <2>2. Product(a) = product
    BY LongOfLong DEF Product
  <2>3. product \in Nat \ {0}
    BY ConsensusAssumption
  <2>4. wait \in Int /\ product * wait <= hit[a] /\ hit[a] < product * (wait + 1)
    <3>. DEFINE h == hit[a]
    <3>1. h \in Int
      BY <2>1
    <3>. HIDE DEF product, h
    <3>2. h \div product \in Int /\ product * (h \div product) <= h
          /\ h < product * (h \div product + 1)
      BY <2>3, <3>1, DivisionBounds
    <3>. QED
      BY <3>2, Zenon DEF h
  <2>5. ScheduledTime(a) = LastBlock.time + wait + 1
    BY <2>2, <2>3 DEF ScheduledTime, Quotient, BlockGenerationTimeShift
  <2>. HIDE DEF wait
  <2>6. /\ CalcTarget(ScheduledTime(a), a) = LastBlock.data * (wait + 1) * Balance[a]
        /\ CalcTarget(ScheduledTime(a) - 1, a) = LastBlock.data * wait * Balance[a]
    BY <2>1, <2>4, <2>5 DEF CalcTarget
  <2>7. \A k \in Int : LastBlock.data * k * Balance[a] = product * k
    BY <2>1
  <2>. QED
    BY <2>4, <2>6, <2>7
<1>. QED
  BY InitInv, NextInv, <1>1, PTL DEF Spec

\* A retarget of either consensus module stays in its limits and moves against
\* the deviation of the times of the last blocks, for any parameters and chain
\* (NxtLikeConsensusModule.scala:133-157, QoraLikeConsensusModule.scala:50-90).
THEOREM RetargetsAreBounded == Spec => []RetargetsTheRightWay
<1>1. ConsensusInv => RetargetsTheRightWay
  <2>. SUFFICES ASSUME ConsensusInv PROVE RetargetsTheRightWay
    OBVIOUS
  <2>1. CASE algo = "nxt"
    <3>1. ASSUME NEW d \in Delays
          PROVE  LastBlock.time + d \in Int
      BY BlockTypes, ConsensusAssumption
    <3>. QED
      BY <2>1, <3>1, BaseTargetLimits DEF RetargetsTheRightWay
  <2>2. CASE algo = "qora"
    <3>. DEFINE last == LastBlock.data
                next == GetNextBlockGeneratingBalance
                n == last * ExpectedGeneratingTime
    <3>1. /\ MaxBalance \in Nat /\ MinBalance \in 1..MaxBalance
          /\ MinBlockTime \in 1..MaxBlockTime /\ MaxBlockTime \in Nat
          /\ ReTarget \in Nat \ {0, 1}
      BY ConsensusAssumption
    <3>2. next \in MinBalance..MaxBalance /\ last \in MinBalance..MaxBalance
      BY <2>2, GeneratingBalanceLimits, BlockTypes DEF Data
    <3>3. ASSUME IsRetarget
          PROVE  /\ next = MinMaxBalance(n \div GeneratingTime)
                 /\ GeneratingTime \in Nat \ {0} /\ n \in Int
                 /\ ExpectedGeneratingTime \in Nat
      <4>1. ExpectedGeneratingTime \in Nat
        <5>1. last \in Int
          BY <3>1, <3>2
        <5>2. GetBlockTime(last) \in MinBlockTime..MaxBlockTime
          BY <5>1, BlockTimeLimits
        <5>. QED
          BY <3>1, <5>2 DEF ExpectedGeneratingTime
      <4>2. n \in Int
        BY <3>1, <3>2, <4>1
      <4>. QED
        BY <2>2, <3>3, <4>1, <4>2, PeriodTakesTime DEF GetNextBlockGeneratingBalance
    <3>4. ASSUME IsRetarget, GeneratingTime >= ExpectedGeneratingTime
          PROVE  next <= last
      <4>. DEFINE q == n \div GeneratingTime
      <4>1. n <= GeneratingTime * last
        BY <3>1, <3>2, <3>3, <3>4
      <4>2. q \in Int /\ q <= last
        <5>. HIDE DEF n
        <5>1. last \in Int
          BY <3>1, <3>2
        <5>. QED
          BY <3>3, <3>4, <4>1, <5>1, DivisionBounds, DivisionAtMost
      <4>. HIDE DEF q
      <4>. QED
        BY <3>3, <3>4, <3>1, <3>2, <4>2, MinMaxBalanceNear DEF q
    <3>5. ASSUME IsRetarget, GeneratingTime <= ExpectedGeneratingTime
          PROVE  next >= last
      <4>. DEFINE q == n \div GeneratingTime
      <4>1. n >= GeneratingTime * last
        BY <3>1, <3>2, <3>3, <3>5
      <4>2. q \in Int /\ q >= last
        <5>. HIDE DEF n
        <5>1. last \in Int
          BY <3>1, <3>2
        <5>. QED
          BY <3>3, <3>5, <4>1, <5>1, DivisionBounds, DivisionAtLeast
      <4>. HIDE DEF q
      <4>. QED
        BY <3>3, <3>5, <3>1, <3>2, <4>2, MinMaxBalanceNear DEF q
    <3>6. ASSUME next <= last,
                 2 * (MaxBlockTime - MinBlockTime) * last <= MaxBlockTime * MaxBalance
          PROVE  GetBaseTarget(next) < GetBaseTarget(last) + last
      BY <3>2, <3>6, BaseTargetOrder
    <3>. HIDE DEF next, last
    <3>7. /\ next \in MinBalance..MaxBalance
          /\ IsRetarget /\ GeneratingTime >= ExpectedGeneratingTime =>
               /\ next <= last
               /\ 2 * (MaxBlockTime - MinBlockTime) * last <= MaxBlockTime * MaxBalance
                  => GetBaseTarget(next) < GetBaseTarget(last) + last
          /\ IsRetarget /\ GeneratingTime <= ExpectedGeneratingTime => next >= last
      BY <3>2, <3>4, <3>5, <3>6
    <3>. QED
      BY <2>2, <3>7 DEF RetargetsTheRightWay, next, last
  <2>. QED
    BY <2>1, <2>2 DEF ConsensusInv
<1>. QED
  BY InitInv, NextInv, <1>1, PTL DEF Spec
=============================================================================
