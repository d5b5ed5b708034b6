-------------------------- MODULE StoredBlockchain --------------------------
(* The linear history: the ids of the chain by height, the heights by id,    *)
(* the cumulative scores, and a cache of the blocks read.  The maps live in  *)
(* the store that BlockStorage commits and rolls back; the cache does not.   *)
EXTENDS Integers, FiniteSets, SequencesExt, Blocks

CONSTANTS
  Genesis,     \* the first block
  Ref,         \* Ref[b]: the block the reference field of b names, or None
  Depth,       \* Depth[b]: the height of b above the root of its references
  BlockScore   \* BlockScore[b]: consensusModule.blockScore(b)

\* A block signs its reference, so references have no cycle.
ASSUME BlockchainAssumption ==
  /\ Genesis \in Block /\ Ref \in [Block -> Block \cup {None}]
  /\ Depth \in [Block -> Nat \ {0}] /\ Depth[Genesis] = 1
  /\ \A b \in Block : Ref[b] \in Block => Depth[b] = Depth[Ref[b]] + 1
  /\ BlockScore \in [Block -> Nat]

VARIABLES
  signatures,         \* the maps "blocks" and "signatures", which go together
  signaturesReverse,  \* stored block -> height
  scoreMap,           \* height -> score; entries above the chain are stale
  blocksCache         \* height -> the block read there, or None

chainMaps == <<signatures, signaturesReverse, scoreMap>>
-----------------------------------------------------------------------------
Height == Len(signatures)

ContainsBlock(b) == b \in DOMAIN signaturesReverse

Score == IF Height = 0 THEN 0 ELSE scoreMap[Height]

PutAt(f, k, v) == [x \in DOMAIN f \cup {k} |-> IF x = k THEN v ELSE f[x]]

Without(f, k) == [x \in DOMAIN f \ {k} |-> f[x]]

\* readBlock empties a cache it has used often enough, then looks up the height
\* and keeps what it finds, None included.
CacheBases == {blocksCache, <<>>}

ReadIn(cache, h) ==
  IF h \in DOMAIN cache THEN cache[h]
  ELSE IF h \in DOMAIN signatures THEN signatures[h] ELSE None

Filled(cache, h) == PutAt(cache, h, ReadIn(cache, h))

\* lastBlock goes through the cache; None stands for its exception.
LastIn(cache) == ReadIn(cache, Height)

ChainInit ==
  /\ signatures = <<>> /\ signaturesReverse = <<>>
  /\ scoreMap = <<>> /\ blocksCache = <<>>

\* (Defect for mutation: any stored parent will do.)
ParentIsStored(cache, b) == Height = 0 \/ ContainsBlock(Ref[b])

ParentIsLast(cache, b) == Height = 0 \/ (LastIn(cache) # None /\ LastIn(cache) = Ref[b])

\* appendBlock on a history that accepts b; writeBlock leaves the cache alone.
AppendToHistory(b) ==
  \E cache \in CacheBases :
    /\ ParentIsLast(cache, b)
    /\ signatures' = Append(signatures, b)
    /\ signaturesReverse' = PutAt(signaturesReverse, b, Height + 1)
    /\ scoreMap' = PutAt(scoreMap, Height + 1, Score + BlockScore[b])
    /\ blocksCache' = IF Height = 0 THEN blocksCache ELSE Filled(cache, Height)

\* appendBlock on a history that refuses b, or whose lastBlock throws.
RefusedByHistory(b) ==
  \E cache \in CacheBases :
    /\ ~ParentIsLast(cache, b)
    /\ blocksCache' = Filled(cache, Height)
    /\ UNCHANGED chainMaps

ReverseWithoutTop == Without(signaturesReverse, Last(signatures))

\* One turn of the loop of removeAfter: the last block, read through the cache,
\* is not the wanted one and is discarded.
DiscardBlock(id) ==
  \E cache \in CacheBases :
    /\ LastIn(cache) \notin {None, id} /\ Height > 1
    /\ signatures' = Front(signatures)
    /\ signaturesReverse' = ReverseWithoutTop
    /\ blocksCache' = Without(Filled(cache, Height), Height)
    /\ UNCHANGED scoreMap

\* Any reader: blockAt of a height the chain has, or of the next one, which the
\* API asks for in children(lastBlock) or blocks/at.
ReadBlock ==
  /\ \E cache \in CacheBases, h \in 1..Height + 1 : blocksCache' = Filled(cache, h)
  /\ UNCHANGED chainMaps
=============================================================================
