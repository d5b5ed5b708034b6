--------------------------- MODULE StoredBlockTree ---------------------------
(* The block tree a node keeps when settings.history = "blocktree": every    *)
(* block whose parent is known is stored with its cumulative score and       *)
(* height; the stored block of the highest score is the best block; and      *)
(* bestChain links each block of the best chain to the next, for lookForward.*)
(* A block is identified with its uniqueId.  The database commits inside     *)
(* writeBlock, so a crash can split an append in two.                        *)
EXTENDS Integers, FiniteSets, SequencesExt

CONSTANTS
  Block,        \* the blocks that may arrive
  Genesis,      \* the first block, appended when the tree is empty
  Ref,          \* Ref[b]: the block the reference field of b names, or None
  BlockScore,   \* BlockScore[b]: consensusModule.blockScore(b)
  MaxRollback,  \* settings.MaxRollback
  MaxCrashes,   \* bound on the number of crashes explored
  None          \* "no block"

ASSUME BlockTreeAssumption ==
  /\ IsFiniteSet(Block)   \* uniqueIds have a fixed length
  /\ Genesis \in Block /\ None \notin Block
  /\ Ref \in [Block -> Block \cup {None}] /\ Ref[Genesis] = None
  /\ BlockScore \in [Block -> Nat \ {0}]
  /\ MaxRollback \in Nat \ {0} /\ MaxCrashes \in Nat

VARIABLES
  tree,       \* the map "blocks": stored block -> [score, height]
  best,       \* bestBlockId
  bestChain,  \* the map "bestChain": block -> its successor, or None
  diskChain,  \* bestChain as of the last commit (tree and best commit at once)
  result,     \* the answer of the last appendBlock: a Try of blocks to process
  torn,       \* ghost: blocks stored by an append that a crash cut short
  crashes     \* ghost: crashes so far

vars == <<tree, best, bestChain, diskChain, result, torn, crashes>>
-----------------------------------------------------------------------------
Stored(t, b) == b \in DOMAIN t

HeightIn(t, b) == IF Stored(t, b) THEN t[b].height ELSE 0

Height == HeightIn(tree, best)

\* (Defect for mutation: the best block's own score, not its cumulative one.)
BestOwnScore == IF Stored(tree, best) THEN BlockScore[best] ELSE 0

Score == IF Stored(tree, best) THEN tree[best].score ELSE 0

\* b and up to n of its ancestors in t, newest first.
Up(t, b, n) ==
  LET up[i \in 0..n] ==
        IF i = 0 THEN <<b>>
        ELSE LET line == up[i - 1] IN
             IF Stored(t, Ref[Last(line)]) THEN Append(line, Ref[Last(line)])
                                           ELSE line
  IN  up[n]

LastBlocks(t, b, n) == Reverse(Up(t, b, n))

\* The nearest strict ancestor of b2 that is b1 or an ancestor of b1, both
\* searched no deeper than n.
BranchBlock(t, b1, b2, n) ==
  LET line == Tail(Up(t, b2, n))
      common == {i \in DOMAIN line : line[i] \in ToSet(Up(t, b1, n))}
  IN  IF common = {} THEN None ELSE line[Min(common)]

\* (Defect for mutation: the answer starts at the block itself.)
LookFromSelf(parent, n) == <<parent>>

LookForward(parent, n) ==
  LET walk[i \in 0..n] ==
        IF i = 0 THEN <<>>
        ELSE LET path == walk[i - 1]
                 from == IF path = <<>> THEN parent ELSE Last(path)
             IN  IF from \in DOMAIN bestChain /\ bestChain[from] # None
                 THEN Append(path, bestChain[from]) ELSE path
  IN  walk[n]

Forward(b) == [block |-> b, forward |-> TRUE]
Reversed(b) == [block |-> b, forward |-> FALSE]

\* One change.  A parent without an entry makes prev null: the exception ends
\* the whole Try, with the changes made so far left in the map.
ChangeStep(acc, c) ==
  LET entries == IF c.forward THEN DOMAIN acc.chain \cup {c.block}
                              ELSE DOMAIN acc.chain \ {c.block}
      own == [x \in entries |-> IF x = c.block THEN None ELSE acc.chain[x]]
      parent == Ref[c.block]
      link == IF c.forward THEN c.block ELSE None
  IN  IF ~acc.ok THEN acc
      ELSE IF parent \in entries
           THEN [chain |-> [own EXCEPT ![parent] = link], ok |-> TRUE]
           ELSE [chain |-> own, ok |-> FALSE]

ChangeBestChain(chain, changes) ==
  LET done[i \in 0..Len(changes)] ==
        IF i = 0 THEN [chain |-> chain, ok |-> TRUE]
                 ELSE ChangeStep(done[i - 1], changes[i])
  IN  done[Len(changes)].chain

\* (Defect for mutation: a score that is not cumulated.)
EntryOwnScore(b) ==
  [score |-> BlockScore[b],
   height |-> IF Stored(tree, Ref[b]) THEN tree[Ref[b]].height + 1 ELSE 1]

\* The entry writeBlock puts for b: a root gets its own score and height 1.
Entry(b) ==
  IF Stored(tree, Ref[b])
  THEN [score |-> tree[Ref[b]].score + BlockScore[b],
        height |-> tree[Ref[b]].height + 1]
  ELSE [score |-> BlockScore[b], height |-> 1]

Put(b) == [x \in DOMAIN tree \cup {b} |-> IF x = b THEN Entry(b) ELSE tree[x]]

Failure == [ok |-> FALSE, blocks |-> <<>>]
Success(blocks) == [ok |-> TRUE, blocks |-> blocks]

\* (Defect for mutation: any known parent counts as the last block.)
KnownParent(b) == Height = 0 \/ Stored(tree, Ref[b])

Linear(b) == Height = 0 \/ Ref[b] = best

\* (Defect for mutation: off by one.)
MuchTooOld(b) == Height - tree[Ref[b]].height > MaxRollback + 1

TooOld(b) == Height - tree[Ref[b]].height > MaxRollback

\* The program appends the genesis block first (SimpleTransactionModule), and
\* afterwards whatever a peer or the miner hands over.
Incoming == IF Height = 0 THEN {Genesis} ELSE Block
-----------------------------------------------------------------------------
Init ==
  /\ tree = <<>> /\ best = None
  /\ bestChain = <<>> /\ diskChain = <<>>
  /\ result = Success(<<>>) /\ torn = {} /\ crashes = 0

\* appendBlock on the best block (or the root): the link is set, then the
\* block is written and becomes the best one.
AppendLinear(b) ==
  /\ Linear(b)
  /\ bestChain' = ChangeBestChain(bestChain, <<Forward(b)>>)
  /\ diskChain' = bestChain'
  /\ tree' = Put(b) /\ best' = b
  /\ result' = Success(<<b>>) /\ torn' = torn \ {b}
  /\ UNCHANGED crashes

\* A side block that does not reach the best score is only stored; the commit
\* saves the links an earlier branch switch left uncommitted.
AppendSide(b) ==
  /\ ~Linear(b) /\ Stored(tree, Ref[b]) /\ ~TooOld(b)
  /\ Entry(b).score < Score
  /\ tree' = Put(b) /\ diskChain' = bestChain
  /\ result' = Success(<<>>) /\ torn' = torn \ {b}
  /\ UNCHANGED <<best, bestChain, crashes>>

\* A side block that reaches the best score becomes the best block; only then
\* are the links of the two branches rewritten, without a commit.
SwitchBranch(b) ==
  LET t == Put(b)
      node == BranchBlock(t, best, b, MaxRollback)
      toReverse == <<best>> \o
        LastBlocks(t, best, t[best].height - t[node].height - 1)
      toProcess == <<b>> \o
        LastBlocks(t, b, t[b].height - t[node].height - 1)
      changes == [i \in DOMAIN toReverse |-> Reversed(toReverse[i])] \o
                 [i \in DOMAIN toProcess |-> Forward(toProcess[i])]
  IN  /\ ~Linear(b) /\ Stored(tree, Ref[b]) /\ ~TooOld(b)
      /\ Entry(b).score >= Score
      /\ node \notin {None, best}
      /\ tree' = t /\ best' = b /\ torn' = torn \ {b}
      /\ diskChain' = bestChain
      /\ bestChain' = ChangeBestChain(bestChain, changes)
      /\ result' = Success(toProcess)
      /\ UNCHANGED crashes

\* The same, when branchBlock finds no node (the ??? case) or returns the old
\* best block itself (lastBlocks is asked for -1 blocks): the exception turns
\* the answer into a Failure after writeBlock has moved the best block.
SwitchBranchFails(b) ==
  /\ ~Linear(b) /\ Stored(tree, Ref[b]) /\ ~TooOld(b)
  /\ Entry(b).score >= Score
  /\ BranchBlock(Put(b), best, b, MaxRollback) \in {None, best}
  /\ tree' = Put(b) /\ best' = b /\ torn' = torn \ {b}
  /\ diskChain' = bestChain
  /\ result' = Failure
  /\ UNCHANGED <<bestChain, crashes>>

\* A block without a stored parent, or with one too far below the best block.
AppendRejected(b) ==
  /\ ~Linear(b)
  /\ Stored(tree, Ref[b]) => TooOld(b)
  /\ result' = Failure
  /\ UNCHANGED <<tree, best, bestChain, diskChain, torn, crashes>>

\* A crash between the two commits of writeBlock: the block is stored and the
\* best block is not moved (for the root it is the other way round).
CrashInAppend(b) ==
  /\ crashes < MaxCrashes /\ crashes' = crashes + 1
  /\ IF Height = 0
     THEN best' = b /\ UNCHANGED <<tree, torn>>
     ELSE /\ Stored(tree, Ref[b]) /\ ~TooOld(b)
          /\ Entry(b).score >= Score
          /\ tree' = Put(b) /\ UNCHANGED best
          /\ torn' = IF b = best THEN torn ELSE torn \cup {b}
  /\ bestChain' = IF Linear(b) THEN ChangeBestChain(bestChain, <<Forward(b)>>)
                               ELSE bestChain
  /\ diskChain' = bestChain'
  /\ result' = Success(<<>>)

\* A crash between appends loses what was not committed.
CrashIdle ==
  /\ crashes < MaxCrashes /\ crashes' = crashes + 1
  /\ bestChain' = diskChain
  /\ result' = Success(<<>>)
  /\ UNCHANGED <<tree, best, diskChain, torn>>

AppendBlock(b) ==
  \/ AppendLinear(b) \/ AppendSide(b) \/ SwitchBranch(b)
  \/ SwitchBranchFails(b) \/ AppendRejected(b)

Next == CrashIdle \/ \E b \in Incoming : AppendBlock(b) \/ CrashInAppend(b)

Spec == Init /\ [][Next]_vars
-----------------------------------------------------------------------------
(* Properties *)

\* The score and height a block was stored with agree with its parent's,
\* which is stored too, whatever order, branch or crash they came through;
\* only the genesis block has no parent (writeBlock).
TreeConsistent ==
  /\ DOMAIN tree # {} => best \in DOMAIN tree
  /\ \A b \in DOMAIN tree :
       IF b = Genesis
       THEN tree[b] = [score |-> BlockScore[b], height |-> 1]
       ELSE /\ Ref[b] \in DOMAIN tree
            /\ tree[b] = [score |-> tree[Ref[b]].score + BlockScore[b],
                          height |-> tree[Ref[b]].height + 1]

\* lastBlock is the "block with maximum blockchain score": no stored block
\* beats it, but for those whose append a crash interrupted.
BestIsMax ==
  \A b \in DOMAIN tree \ torn : tree[b].score <= tree[best].score

\* What lookForward answers is always a line of stored blocks, each the child
\* of the one before, even after changeBestChain gave up half way.
LookForwardIsPath ==
  \A b \in DOMAIN tree :
    LET path == <<b>> \o LookForward(b, Cardinality(Block)) IN
    \A i \in 1..Len(path) - 1 :
      path[i + 1] \in DOMAIN tree /\ Ref[path[i + 1]] = path[i]

\* No append and no crash lowers the score the node holds (and announces).
ScoreNeverDrops == [][Score' >= Score]_vars

\* The best block never moves to one lower than MaxRollback - 1 below it.
RollbackBounded ==
  [][HeightIn(tree, best)' > HeightIn(tree, best) - MaxRollback]_vars

\* BlockTreeSpecification "Look forward": from the genesis block, lookForward
\* answers as many blocks as asked for or as the best chain has.
LookForwardComplete ==
  Height > 1 =>
    \A n \in 1..Cardinality(Block) :
      Len(LookForward(Genesis, n)) = Min({n, Height - 1})

\* appendBlock: "Should never rich this point if we don't keep older then
\* MaxRollback side chains": an append that moves the best block succeeds.
BranchPointFound == [][best' # best => result'.ok]_vars
=============================================================================
