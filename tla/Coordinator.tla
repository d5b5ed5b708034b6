----------------------------- MODULE Coordinator -----------------------------
(* The actor that decides: it starts the download of a better chain, puts a  *)
(* downloaded fork in place of the end of the chain, and adds single blocks. *)
(* It is the only one that changes the chain.                                *)
EXTENDS BlockchainSynchronizer

CONSTANTS
  ForkResolveQuorumSize,
  MaxRollback,
  Invalid   \* the blocks that fail validation

ASSUME CoordinatorAssumption ==
  /\ ForkResolveQuorumSize \in Nat \ {0} /\ MaxRollback \in Nat \ {0}
  /\ Invalid \subseteq Block

VARIABLES
  applying,   \* the fork that is being applied: what the iterator still has
  scoreBefore   \* ghost: the score of the chain when the last fork came in

coordinatorVars == <<applying, scoreBefore>>

CoordinatorInit == applying = None /\ scoreBefore = 0

message == Head(coordBox)

Took(kind) ==
  /\ applying = None
  /\ coordBox # <<>> /\ message.kind = kind /\ coordBox' = Tail(coordBox)

IsValid(b) == Has(history, b) \/ (Has(history, Ref[b]) /\ b \notin Invalid)

Better(scores) == Restrict(scores, {p \in DOMAIN scores : scores[p] > Score(history)})

QuorumReached(scores) == Cardinality(DOMAIN Better(scores)) >= ForkResolveQuorumSize

\* When enough peers have a better score, ask for an extension.
ConsideredValue(scores) ==
  /\ applying = None
  /\ IF QuorumReached(scores)
     THEN syncBox' = Append(syncBox, [kind |-> "GetExtension", scores |-> Better(scores),
                                      ids |-> LastBlockIds(history, MaxRollback)])
     ELSE UNCHANGED syncBox
  /\ UNCHANGED <<history, task, coordBox, forkVars, asked, blacklisted, coordinatorVars>>

\* SyncFinished with a fork: removeAfter the common block, which does nothing
\* if the chain does not have it, then take the blocks from the iterator.
SyncFinished ==
  /\ Took("SyncFinished")
  /\ LET result == message.result
     IN  IF result = None THEN UNCHANGED <<history, coordinatorVars>>
         ELSE /\ applying' = [rest |-> result.ids, from |-> result.from]
              /\ scoreBefore' = Score(history)
              /\ history' = IF Has(history, result.common)
                            THEN UpTo(history, result.common) ELSE history
  /\ UNCHANGED <<task, syncBox, forkVars, asked, blacklisted>>

\* The iterator has no more ids, or no block for the next one: by now the fork
\* storage may hold another fork.
ForkEnds ==
  /\ applying # None
  /\ applying.rest # <<>> => Head(applying.rest) \notin DOMAIN forkBlocks
  /\ applying' = None
  /\ UNCHANGED <<syncVars, scoreBefore>>

NextForkBlock(b) ==
  /\ applying # None /\ applying.rest # <<>>
  /\ b = Head(applying.rest) /\ b \in DOMAIN forkBlocks

\* processNewBlock: a valid block whose parent is the last block is appended.
Appendable(b) == IsValid(b) /\ Ref[b] = Last(history)

ForkBlockApplied ==
  \E b \in DOMAIN forkBlocks :
    /\ NextForkBlock(b) /\ Appendable(b)
    /\ history' = Append(history, b)
    /\ applying' = [applying EXCEPT !.rest = Tail(@)]
    /\ UNCHANGED <<task, syncBox, coordBox, asked, blacklisted, forkVars, scoreBefore>>

ForkBlockFails ==
  \E b \in DOMAIN forkBlocks :
    /\ NextForkBlock(b) /\ ~Appendable(b)
    /\ applying' = None
    /\ Blacklist(IF Ref[b] = Last(history) THEN {applying.from} \ {None} ELSE {})
    /\ UNCHANGED <<history, task, syncBox, coordBox, forkVars, scoreBefore>>

ToBeAdded(b) == Ref[b] = Last(history)

\* processSingleBlock.
AddBlock ==
  /\ Took("AddBlock")
  /\ LET b == message.block
     IN  history' = IF ToBeAdded(b) /\ IsValid(b) THEN Append(history, b) ELSE history
  /\ UNCHANGED <<task, syncBox, asked, blacklisted, forkVars, coordinatorVars>>

Coordinate ==
  \/ SyncFinished \/ AddBlock
  \/ ForkEnds \/ ForkBlockApplied \/ ForkBlockFails
=============================================================================
