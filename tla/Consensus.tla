------------------------------ MODULE Consensus ------------------------------
(* The two proofs of stake: which block an account may generate next, when,   *)
(* and how the difficulty follows the times of the blocks.  Nxt keeps a base  *)
(* target in a block, Qora a generating balance.  Times are in seconds; the   *)
(* hits stand for the hashes of the generators' signatures.                   *)
EXTENDS Integers, SequencesExt, FiniteSetsExt

CONSTANTS
  Account, Balance,   \* Balance[a]: the generating balance of a
  Delays,             \* Nxt: when after its parent a block may be generated
  AvgDelay, AvgBlockTimeDepth,
  LongMax,            \* the greatest Long
  NxtHits,            \* hits there may be
  ReTarget, MinBalance, MaxBalance, GenesisBalance, MinBlockTime, MaxBlockTime,
  TargetBytes,        \* Qora: the greatest target
  QoraHits,
  MaxHeight           \* bound on the chain

ASSUME ConsensusAssumption ==
  /\ Balance \in [Account -> Nat] /\ Delays \subseteq Nat \ {0}
  /\ {AvgDelay, AvgBlockTimeDepth, LongMax} \subseteq Nat \ {0}
  /\ {MaxBalance, MaxBlockTime} \subseteq Nat
  /\ MinBalance \in 1..MaxBalance /\ MinBlockTime \in 1..MaxBlockTime
  /\ GenesisBalance \in MinBalance..MaxBalance /\ ReTarget \in Nat \ {0, 1}
  /\ NxtHits \cup QoraHits \cup {TargetBytes, MaxHeight} \subseteq Nat
  /\ TargetBytes >= MaxBalance * MaxBlockTime
  /\ 7 * AvgDelay <= 5625   \* the limit under which no base target is negative

VARIABLES
  algo,   \* "nxt" or "qora"
  chain,  \* the blocks [time, data], data the base target or generating balance
  hit     \* hit[a]: what a draws for the next block

vars == <<algo, chain, hit>>

LastBlock == Last(chain)
Height == Len(chain)
-----------------------------------------------------------------------------
(* NxtLikeConsensusModule *)

\* What remains of an integer in a Long.
Long(n) == ((n + LongMax + 1) % (2 * (LongMax + 1))) - (LongMax + 1)

MaxBaseTarget == LongMax \div AvgDelay

InitialBaseTarget == MaxBaseTarget \div 2

\* The time of one block: over the last AvgBlockTimeDepth when there are as many.
BlocktimeAverage(time) ==
  IF Height > AvgBlockTimeDepth - 1
    THEN (time - chain[Height - (AvgBlockTimeDepth - 1)].time) \div AvgBlockTimeDepth
    ELSE time - LastBlock.time

\* Limited to 67/60 of AvgDelay, in integers.
Risen(target, average) ==
  IF 60 * average > 67 * AvgDelay THEN (target * 67) \div 60
  ELSE (target * average) \div AvgDelay

\* By 64/60 % of AvgDelay for each second that is missing, at most for 7/60 of
\* AvgDelay; in integers, with short in sixtieths of a second.
Fallen(target, average) ==
  LET short == Min({60 * (AvgDelay - average), 7 * AvgDelay})
  IN  (target * 5625 - target * short) \div 5625

\* (Defect for mutation: the base target is changed the other way.)
CalcBaseTargetTurned(time) ==
  LET average == BlocktimeAverage(time) IN
  IF average > AvgDelay THEN Fallen(LastBlock.data, 0) ELSE Risen(LastBlock.data, 2 * AvgDelay)

CalcBaseTarget(time) ==
  LET average == BlocktimeAverage(time) IN
  IF Height % 2 = 1 THEN LastBlock.data
  ELSE Min({MaxBaseTarget,
            IF average > AvgDelay THEN Risen(LastBlock.data, average)
                                  ELSE Fallen(LastBlock.data, average)})

CalcTarget(time, a) == LastBlock.data * (time - LastBlock.time) * Balance[a]

\* Division of integers as on the JVM, towards zero.
Quotient(n, d) == IF d > 0 THEN n \div d ELSE -(n \div (-d))

\* The product is a Long, whatever it comes to.
Product(a) == Long(LastBlock.data * Balance[a])

\* (Defect for mutation: the attempt is made when the target reaches the hit.)
AtTheTarget(a) == LastBlock.time + Quotient(hit[a], Product(a))

\* A second.
BlockGenerationTimeShift == 1

\* When the Miner makes its attempt: nextBlockGenerationTime and the shift.
ScheduledTime(a) ==
  LastBlock.time + Quotient(hit[a], Product(a)) + BlockGenerationTimeShift

NxtGenerates(a, time) ==
  IF hit[a] < CalcTarget(time, a) THEN {[time |-> time, data |-> CalcBaseTarget(time)]} ELSE {}

NxtIsValid(b, a) == b.data = CalcBaseTarget(b.time) /\ hit[a] < CalcTarget(b.time, a)
-----------------------------------------------------------------------------
(* QoraLikeConsensusModule *)

MinMaxBalance(n) == Max({MinBalance, Min({MaxBalance, n})})

GetBlockTime(balance) ==
  (MaxBlockTime * MaxBalance - (MaxBlockTime - MinBlockTime) * MinMaxBalance(balance))
    \div MaxBalance

GetBaseTarget(balance) == MinMaxBalance(balance) * GetBlockTime(balance)

\* From the first block of the period to its last: one interval less than blocks.
GeneratingTime == LastBlock.time - chain[Height - (ReTarget - 1)].time

ExpectedGeneratingTime == GetBlockTime(LastBlock.data) * ReTarget

IsRetarget == Height % ReTarget = 0

GetNextBlockGeneratingBalance ==
  IF IsRetarget
    THEN MinMaxBalance((LastBlock.data * ExpectedGeneratingTime) \div GeneratingTime)
    ELSE LastBlock.data

\* Per second.
QoraTarget(balance, a) == (TargetBytes \div GetBaseTarget(balance)) * Balance[a]

\* (Defect for mutation: the second in which the target is not reached yet.)
GuessesBefore(a) == hit[a] \div QoraTarget(GetNextBlockGeneratingBalance, a)

Guesses(a) == hit[a] \div QoraTarget(GetNextBlockGeneratingBalance, a) + 1

QoraGenerates(a) ==
  {[time |-> LastBlock.time + Guesses(a), data |-> GetNextBlockGeneratingBalance]}

\* The target of a second is reached in exactly one of them.
QoraIsValid(b, a) ==
  LET target == QoraTarget(b.data, a)
      guesses == b.time - LastBlock.time
  IN  /\ b.data = GetNextBlockGeneratingBalance
      /\ hit[a] >= target * (guesses - 1) /\ hit[a] < target * guesses
-----------------------------------------------------------------------------
Hits == IF algo = "nxt" THEN NxtHits ELSE QoraHits

Init ==
  /\ algo \in {"nxt", "qora"} /\ hit \in [Account -> Hits]
  /\ chain = <<[time |-> 0, data |-> IF algo = "nxt" THEN InitialBaseTarget
                                                     ELSE GenesisBalance]>>

\* generateNextBlock of a: with Nxt at the time it is called, with Qora for the
\* time that the hit says.
Generates(a) ==
  IF algo = "qora" THEN QoraGenerates(a)
  ELSE UNION {NxtGenerates(a, LastBlock.time + d) : d \in Delays}

IsValid(b, a) == IF algo = "nxt" THEN NxtIsValid(b, a) ELSE QoraIsValid(b, a)

GenerateNextBlock(a) ==
  /\ Height < MaxHeight /\ Balance[a] > 0
  /\ \E b \in Generates(a) : IsValid(b, a) /\ chain' = Append(chain, b)
  /\ hit' \in [Account -> Hits] /\ UNCHANGED algo

Next == \E a \in Account : GenerateNextBlock(a)

Spec == Init /\ [][Next]_vars
-----------------------------------------------------------------------------
Staking == {a \in Account : Balance[a] > 0}

\* Every block that is generated is valid for those who check it: what
\* generateNextBlock divides and rounds agrees with the bounds of isValid.
GeneratedIsValid ==
  \A a \in Staking : \A b \in Generates(a) : b.time > LastBlock.time /\ IsValid(b, a)

\* Unless the product of base target and balance is zero or no Long, a
\* Miner's one attempt for an account comes in the first second in which it
\* succeeds (Miner.scala:72, NxtLikeConsensusModule.scala:121).
ScheduledIsEarliest ==
  algo = "nxt" => \A a \in Staking :
    LastBlock.data * Balance[a] \in 1..LongMax =>
      /\ hit[a] < CalcTarget(ScheduledTime(a), a)
      /\ hit[a] >= CalcTarget(ScheduledTime(a) - 1, a)

\* A retarget stays in its limits, so that no base target falls to zero from one
\* high enough, and moves against the deviation.  With Nxt nobody's
\* target falls after slow blocks nor rises after fast ones, and none moves by
\* more than the limits of the average allow.  With Qora a longer time than
\* expected raises no generating balance and a shorter one lowers none; as long
\* as the product of balance and block time grows with the balance, slow blocks
\* raise the base target only by what cutting the block time to seconds costs.
RetargetsTheRightWay ==
  LET last == LastBlock.data IN
  IF algo = "nxt"
  THEN \A d \in Delays :
         LET average == BlocktimeAverage(LastBlock.time + d)
             next == CalcBaseTarget(LastBlock.time + d)
         IN  /\ next \in 0..MaxBaseTarget /\ 60 * next <= 67 * last
             /\ next >= (last * (5625 - 7 * AvgDelay)) \div 5625
             /\ average > AvgDelay => next >= last
             /\ average < AvgDelay => next <= last
  ELSE LET next == GetNextBlockGeneratingBalance IN
       /\ next \in MinBalance..MaxBalance
       /\ IsRetarget /\ GeneratingTime >= ExpectedGeneratingTime =>
            /\ next <= last
            /\ 2 * (MaxBlockTime - MinBlockTime) * last <= MaxBlockTime * MaxBalance
               => GetBaseTarget(next) < GetBaseTarget(last) + last
       /\ IsRetarget /\ GeneratingTime <= ExpectedGeneratingTime => next >= last
=============================================================================
