------------------------------- MODULE Chains -------------------------------
(* What the network layer asks of a chain, its own or that of a peer: a      *)
(* sequence of blocks from the genesis block on.                             *)
EXTENDS Integers, FiniteSets, SequencesExt, Functions, Blocks

CONSTANTS
  Genesis,     \* the first block of every chain
  Ref,         \* Ref[b]: the block b references, or None
  BlockScore   \* BlockScore[b]: what b adds to the score of a chain

ASSUME ChainsAssumption ==
  /\ Genesis \in Block
  /\ Ref \in [Block -> Block \cup {None}]
  /\ BlockScore \in [Block -> Nat]

\* A block refers to one that was there before it: no blocks refer to each other
\* in a circle.
ASSUME RefIsWellFounded ==
  \A S \in SUBSET Block : S # {} => \E b \in S : Ref[b] \notin S

\* Every block is the child of the one before it.
Linked(chain) == \A i \in 2..Len(chain) : Ref[chain[i]] = chain[i - 1]

Has(chain, id) == id \in ToSet(chain)

HeightOf(chain, id) == CHOOSE h \in DOMAIN chain : chain[h] = id

Score(chain) ==
  LET sum[n \in 0..Len(chain)] == IF n = 0 THEN 0 ELSE sum[n - 1] + BlockScore[chain[n]]
  IN  sum[Len(chain)]

UpTo(chain, id) == SubSeq(chain, 1, HeightOf(chain, id))

\* The score at a block of the chain, 0 for any other.
ScoreOf(chain, id) == IF Has(chain, id) THEN Score(UpTo(chain, id)) ELSE 0

Take(seq, n) == SubSeq(seq, 1, Min({n, Len(seq)}))

\* The newest n ids, newest first.
LastBlockIds(chain, n) == Take(Reverse(chain), n)

\* Up to n ids that follow id in the chain.
LookForward(chain, id, n) ==
  IF Has(chain, id)
  THEN Take(SubSeq(chain, HeightOf(chain, id) + 1, Len(chain)), n)
  ELSE <<>>

\* HistoryReplier: the first id asked about that has a successor, and what
\* follows it; <<>> when there is none, and no message is sent.
SignaturesAfter(chain, ids, n) ==
  LET useful == {i \in DOMAIN ids : LookForward(chain, ids[i], n) # <<>>}
      parent == ids[Min(useful)]
  IN  IF useful = {} THEN <<>>
      ELSE <<parent>> \o LookForward(chain, parent, n)
=============================================================================
