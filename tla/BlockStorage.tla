---------------------------- MODULE BlockStorage ----------------------------
(* History and state in one MVStore.  appendBlock changes the history, then  *)
(* the state, then commits or rolls back; removeAfter discards block after   *)
(* block, then rolls the state back, and does not commit.  Readers run in    *)
(* other threads at any time, the store commits by itself at any time, and   *)
(* the process may crash at any time.                                        *)
EXTENDS StoredBlockchain, StoredState

CONSTANT Faults  \* whether the store may fail while a block is applied

ASSUME FaultsAssumption == Faults \in BOOLEAN

VARIABLES
  pc,      \* "idle", "applying" (in appendBlock) or "removing" (in removeAfter)
  target,  \* the block removeAfter keeps, None outside of it
  saved    \* the maps as of the last commit

vars == <<chainMaps, blocksCache, stateVars, pc, target, saved>>

Db == [signatures |-> signatures, signaturesReverse |-> signaturesReverse,
       scoreMap |-> scoreMap, rows |-> rows, lastStates |-> lastStates,
       includedTx |-> includedTx, stateHeight |-> stateHeight, applied |-> applied]

\* db.rollback(): every map is again as it was last committed.
RollbackDb ==
  /\ signatures' = saved.signatures
  /\ signaturesReverse' = saved.signaturesReverse
  /\ scoreMap' = saved.scoreMap
  /\ rows' = saved.rows /\ lastStates' = saved.lastStates
  /\ includedTx' = saved.includedTx /\ stateHeight' = saved.stateHeight
  /\ applied' = saved.applied

\* Block.isValid, asked for every block but the first before it is appended.
IsValid(b) ==
  IF Height = 0 THEN b = Genesis
  ELSE \/ ContainsBlock(b)
       \/ ContainsBlock(Ref[b]) /\ Validate(Txs[b]) = Txs[b]
-----------------------------------------------------------------------------
Init ==
  /\ ChainInit /\ StateInit
  /\ pc = "idle" /\ target = None /\ saved = Db

AppendBlock(b) ==
  /\ pc = "idle" /\ stateHeight < MaxHeight /\ IsValid(b)
  /\ AppendToHistory(b)
  /\ pc' = "applying" /\ UNCHANGED <<stateVars, target, saved>>

AppendRefused(b) ==
  /\ pc = "idle" /\ IsValid(b)
  /\ RefusedByHistory(b)
  /\ UNCHANGED <<stateVars, pc, target, saved>>

\* (Defect for mutation: the block is not committed.)
AppliedOnly ==
  /\ pc = "applying" /\ pc' = "idle"
  /\ ProcessBlock(Last(signatures))
  /\ UNCHANGED <<chainMaps, blocksCache, target, saved>>

\* The state takes the block of the history's top: commit.
StateApplied ==
  /\ pc = "applying" /\ pc' = "idle"
  /\ ProcessBlock(Last(signatures))
  /\ UNCHANGED <<chainMaps, blocksCache, target>>
  /\ saved' = Db'

\* The state refuses it, or the store fails: roll back, and answer Success.
StateFailed ==
  /\ pc = "applying" /\ pc' = "idle"
  /\ Faults \/ ~Processable(Last(signatures))
  /\ RollbackDb
  /\ UNCHANGED <<blocksCache, target, saved>>

RemoveAfter(id) ==
  /\ pc = "idle" /\ ContainsBlock(id)
  /\ pc' = "removing" /\ target' = id
  /\ UNCHANGED <<chainMaps, blocksCache, stateVars, saved>>

RemoveTop ==
  /\ pc = "removing"
  /\ DiscardBlock(target)
  /\ UNCHANGED <<stateVars, pc, target, saved>>

\* (Defect for mutation: the state is forgotten.)
HistoryOnly(id) == UNCHANGED stateVars

RollbackState(id) == RollbackTo(signaturesReverse[id])

RemoveDone ==
  /\ pc = "removing" /\ pc' = "idle" /\ target' = None
  /\ \E cache \in CacheBases :
       LastIn(cache) = target /\ blocksCache' = Filled(cache, Height)
  /\ RollbackState(target)
  /\ UNCHANGED <<chainMaps, saved>>

\* lastBlock throws on a cached None, or discardBlock on a chain of one block:
\* removeAfter ends there, and the state is not rolled back.
RemoveThrows ==
  /\ pc = "removing" /\ pc' = "idle" /\ target' = None
  /\ \E cache \in CacheBases :
       /\ \/ LastIn(cache) = None
          \/ LastIn(cache) # target /\ Height = 1
       /\ blocksCache' = Filled(cache, Height)
  /\ UNCHANGED <<chainMaps, stateVars, saved>>

\* Readers start once the genesis block is in (RunnableApplication.run).
Read == stateHeight > 0 /\ ReadBlock /\ UNCHANGED <<stateVars, pc, target, saved>>

\* The store is opened again: "if there are some uncommited changes from last
\* run, discard'em".
CrashAndRestart ==
  /\ pc' = "idle" /\ target' = None /\ blocksCache' = <<>>
  /\ RollbackDb
  /\ UNCHANGED saved

\* The writer thread of an MVStore opened on a file commits what it finds about
\* every second: createMVStore does not switch that off.
AutoCommit ==
  /\ saved' = Db
  /\ UNCHANGED <<chainMaps, blocksCache, stateVars, pc, target>>

Next ==
  \/ \E b \in Block : AppendBlock(b) \/ AppendRefused(b)
  \/ StateApplied \/ StateFailed
  \/ \E id \in Block : RemoveAfter(id)
  \/ RemoveTop \/ RemoveDone \/ RemoveThrows
  \/ Read \/ AutoCommit \/ CrashAndRestart

Spec == Init /\ [][Next]_vars
-----------------------------------------------------------------------------
(* Properties *)

Consistent(sig, rev, sc) ==
  /\ Len(sig) > 0 => sig[1] = Genesis
  /\ \A i \in 1..Len(sig) - 1 : Ref[sig[i + 1]] = sig[i]
  /\ DOMAIN rev = {sig[i] : i \in 1..Len(sig)}
  /\ \A i \in 1..Len(sig) : rev[sig[i]] = i
  /\ \A i \in 1..Len(sig) :
       sc[i] = (IF i = 1 THEN 0 ELSE sc[i - 1]) + BlockScore[sig[i]]

\* The chain starts with the genesis block, every block references the one
\* before it, the reverse map is the inverse of the chain, and the scores are
\* cumulative, whatever the cache answered when blocks were appended.
ChainConsistent == Consistent(signatures, signaturesReverse, scoreMap)

\* Between calls the state is the result of applying the blocks of the history,
\* also after failures, rollbacks and restarts ("Blockchain and State database
\* updates made atomic", release notes of 1.2.7).
StateMatchesHistory ==
  pc = "idle" => stateHeight = Height /\ applied = signatures

\* State and history belong together: between calls and in the store they are at
\* the same block, in an append the state is one behind, in a removal ahead.
Together ==
  /\ pc = "idle" => applied = signatures
  /\ pc = "applying" => Append(applied, Last(signatures)) = signatures
  /\ pc = "removing" => IsPrefix(signatures, applied)
  /\ saved.applied = saved.signatures

\* The store commits by itself while state and history are apart.
CommitsApart == AutoCommit /\ applied # signatures

\* No append, failure of the store, reader, rollback or restart parts the state
\* from the history.  Two steps do: a removeAfter that throws before it has come
\* to the state, and a commit of the store's own in the middle of an append or a
\* removal ("Blockchain and State database updates made atomic").
StateStaysWithHistory ==
  [][Together /\ ~RemoveThrows /\ ~CommitsApart => Together']_vars

\* The blocks whose appendBlock has returned and that no removeAfter has discarded.
Settled == IF pc = "applying" THEN Front(signatures) ELSE signatures

\* The rollback of a failed append and the one of a restart lose no block that was
\* appended and not removed, whenever the store has committed by itself before:
\* they may only bring removed ones back (BlockStorage.scala:26-32 and 42-50).
RollbackLosesNoBlock ==
  [][CrashAndRestart \/ StateFailed => IsPrefix(Settled, signatures')]_vars

\* BlockStorageSpecification: after a block was appended, lastBlock is it.
LastBlockIsTop ==
  pc = "idle" /\ Height > 0 => LastIn(blocksCache) = Last(signatures)
=============================================================================
