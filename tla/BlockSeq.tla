------------------------------ MODULE BlockSeq ------------------------------
(* The fork storage: the ids of a fork in order, and the blocks of it that   *)
(* have arrived.  The synchronizer fills it; the Coordinator reads it.       *)
EXTENDS Chains

VARIABLES
  forkIds,     \* the ids, oldest first
  forkBlocks,  \* arrived block -> the peer that sent it (the peer is a ghost)
  forkBase     \* the score of the chain at the common block

forkVars == <<forkIds, forkBlocks, forkBase>>

ForkInit == forkIds = <<>> /\ forkBlocks = <<>> /\ forkBase = 0

\* The ids are kept as a set in insertion order; that none occurs twice is part
\* of the type invariant.
Initialize(ids, initialScore) ==
  /\ forkIds' = ids /\ forkBlocks' = <<>> /\ forkBase' = initialScore

\* putIfAbsent of a block that is not there.
AddBlockToFork(b, peer) ==
  /\ forkBlocks' = [x \in DOMAIN forkBlocks \cup {b} |->
                      IF x = b THEN peer ELSE forkBlocks[x]]
  /\ UNCHANGED <<forkIds, forkBase>>

MissingOf(ids, blocks) ==
  LET missing[n \in 0..Len(ids)] ==
        IF n = 0 THEN <<>>
        ELSE IF ids[n] \in DOMAIN blocks THEN missing[n - 1]
        ELSE Append(missing[n - 1], ids[n])
  IN  missing[Len(ids)]

IdsWithoutBlock == MissingOf(forkIds, forkBlocks)

NumberOfBlocks == Cardinality(DOMAIN forkBlocks)

\* blocksInOrder stops at the first block that is missing.
PrefixOf(ids, blocks) ==
  LET gaps == {i \in DOMAIN ids : ids[i] \notin DOMAIN blocks}
  IN  Take(ids, Min({Len(ids) + 1} \cup gaps) - 1)

\* (Defect for mutation: the score of all blocks that arrived.)
ScoreWithGaps(ids, blocks) ==
  forkBase + Score(SelectSeq(ids, LAMBDA id : id \in DOMAIN blocks))

CumulativeBlockScore(ids, blocks) == forkBase + Score(PrefixOf(ids, blocks))
=============================================================================
