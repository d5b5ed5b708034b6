# A TLA+ development of WavesScorex

WavesScorex is a modular block-chain framework in Scala on Akka. A node keeps a
history of blocks and the account state that results from applying them, mines
on top of its last block, learns the scores of its peers, downloads the chain of
a peer whose score is higher and replaces its own suffix by it. This directory
holds TLA+ modules of that core, the TLC configurations that check them on small
instances, and proofs of the main theorems for TLAPS.

Source paths below are abbreviated: `B` = `scorex-basics/src/main/scala/scorex`,
`T` = `scorex-transaction/src/main/scala/scorex`,
`C` = `scorex-consensus/src/main/scala/scorex/consensus`.

## 1. Inventory

| component | source | state | operations | hard behaviour | what makes it correct |
|---|---|---|---|---|---|
| Linear history | `T/.../StoredBlockchain.scala` | MVStore maps blocks, signatures, signaturesReverse, score; a read cache | appendBlock, discardBlock, blockAt, lastBlockIds, contains, scoreOf | the cache is not part of the transaction; rollback of the store under it | the maps describe one chain; parent links; cumulative score |
| Block tree | `T/.../StoredBlockTree.scala` | blocks with score and height, best block, bestChain links | appendBlock, branchBlock, changeBestChain, lookForward | branch switches, exceptions half way, crashes between commits | the best block has the best score; links are real |
| Account state | `T/.../StoredState.scala` | a row list per address, lastStates, includedTx, height | processBlock, rollbackTo, balance, included, validate | rollback over sparse rows; the same transaction in two forks | balances equal the fold of the blocks; nothing created or lost |
| Block storage | `B/transaction/BlockStorage.scala` | history and state in one store | appendBlock, removeAfter | commit and rollback of both, removeAfter without commit, crash | history and state always describe the same chain |
| Fork storage | `T/.../StoredBlockSeq.scala` | ordered ids, blocks received | initialize, addIfNotContained, cumulativeBlockScore | read lazily by one actor while another refills it | score of the contiguous prefix |
| BlockchainSynchronizer | `B/network/BlockchainSynchronizer.scala` | FSM stage, peer set, timer | GetExtension, Signatures, Block, TimeoutExceeded | repeating timers, stale timeouts, retries, change of peer | asks only for what it lacks; finishes; blames the right peer |
| Coordinator | `B/network/Coordinator.scala` | none of its own | ConsideredValue, SyncFinished, AddBlock | decisions made on a score that is old when used | never ends with a worse chain than it had |
| ScoreObserver | `B/network/ScoreObserver.scala` | candidates with a time stamp | UpdateScore, GetScore | expiry against refresh | reports the best live candidates |
| HistoryReplier | `B/network/HistoryReplier.scala` | none | GetSignatures, GetBlock | | answers start at a block the asker has |
| PeerManager, PeerDatabase | `B/network/peer/*.scala` | known peers, blacklist, connections | Connected, Handshaked, Disconnected, CheckPeers, AddToBlacklist | handshakes and connections out of order | a node is listed once, with its own connection; ended connections leave; attempts end |
| PeerConnectionHandler, NetworkController | `B/network/*.scala` | a connection's handshake flags and behaviour, the byte buffer | connect, handshake, data, write, close | order of the two handshakes; failing writes; closes from any side | no data before both handshakes; no hole in what is written; the end is told |
| Mining | `B/consensus/mining/*.scala` | workers, schedule of each and the block it is for | StartGeneration, StopGeneration, CheckWorkers, GuessABlock, GenerateBlock, HealthCheck, Stop | stale attempts, workers restarted | each worker comes to mine on the last block; none goes on after a stop |
| Unconfirmed pool | `T/.../UnconfirmedTransactionsDatabaseImpl.scala`, `T/transaction/SimpleTransactionModule.scala` | the pool | putIfNew, remove, packUnconfirmed | written by API threads, the miner and the Coordinator at once, from snapshots | size limit; payable transactions stay; those of the chain leave |
| Consensus (Nxt, Qora) | `C/nxt`, `C/qora` | none (functions of the history) | isValid, generateNextBlock, nextBlockGenerationTime, retargeting | rounding, overflow and bounds of the target | what is generated is valid; the scheduled attempt is the earliest; the target moves the right way |
| Wallet | `B/wallet/Wallet.scala` | nonce, accounts | generateNewAccount, deleteAccount | crash between writes | no account is lost or made twice |
| Framing | `B/network/Buffering.scala` | a byte buffer | getPacket, addLength | packets split anywhere | packets come out as they went in, in order |
| API, Swagger UI, settings, serialisation, crypto, NTP, UPnP | `B/api`, `C/*/api`, `T/api`, `B/utils`, `B/crypto`, ... | none or cached | | thin wrappers over libraries | not modelled |

The components meet as follows. A `Score` message of a peer reaches the
ScoreObserver, which sends the Coordinator a ConsideredValue with the peers of
the best score. If they beat the history the Coordinator sends GetExtension to
the BlockchainSynchronizer, which exchanges Signatures and Block messages with
those peers through the PeerManager, gathers the blocks in the fork storage and
answers SyncFinished. The Coordinator then removes the blocks after the common
one from the BlockStorage and appends those of the fork. Blocks of the miner and
single blocks of peers reach it as AddBlock. Every append goes through
BlockStorage, that is history and state together.

## 2. Modules

Every name that the code has is kept; operators marked "Defect for mutation" are
wrong variants of the definition that follows them and are used nowhere else.
Variables marked "ghost" are not in the code: properties need them.

### 2.1 Block tree: `StoredBlockTree`

The history with `settings.history = "blocktree"`. `tree` is the MVStore map
`blocks` (score and height only), `best` is `bestBlockId`, `bestChain` the map of
the same name. A block is its unique id; what it references and its score are
constants, so blocks, branches and their order of arrival are free.

| action | code |
|---|---|
| `AppendLinear` | appendBlock on the best block or on an empty tree |
| `AppendSide` | a block of another branch that does not win |
| `SwitchBranch` | one that wins: writeBlock, branchBlock, changeBestChain |
| `SwitchBranchFails` | the same when branchBlock finds nothing usable, after writeBlock has moved the best block |
| `AppendRejected` | unknown parent or too old |
| `CrashInAppend`, `CrashIdle` | the process ends between the two commits of writeBlock, or between calls, and the store is opened again |

`writeBlock` commits twice, and changeBestChain does not commit: `diskChain` is
what a restart finds. `torn` (ghost) are the blocks of an append that a crash cut.

### 2.2 Account state: `Blocks`, `Payments`, `Transactions`, `Ledger`, `StoredState`

`Payments` is what a sequence of transactions changes in balances, and
`ValidateAll`, the rounds of validate with filterValidTransactions for given
balances: the account state and the pool both use it. `Transactions` adds the
transactions and generators of blocks. Sums and filters are recursive functions.
`Ledger` is the abstract specification: a chain of blocks and a balance per
account, extended by a block or cut to a prefix. `StoredState` is the code's data
structure: rows per account linked by height (`rows`, `lastStates`), `includedTx`
and `stateHeight`. Its property `ImplementsLedger` is `Ledger` instantiated with
`chain <- applied` (a ghost) and `balances <- Balance`, the code's own query.
`ProcessBlock` is processBlock with applyChanges, `RollbackTo` is rollbackTo with
deleteNewer, `BalanceSince` is balanceByAddress, `Validate` is validate for the
balances of the state. Signatures and the validity of a single transaction are
data and left out; `Offered` says that a genesis transaction only comes in the
first block, as the history sees to it.

### 2.3 History and state in one store: `StoredBlockchain`, `BlockStorage`

`StoredBlockchain` is the linear history: maps and read cache, with the operators
of appendBlock, discardBlock and readBlock. `BlockStorage` composes it with
`StoredState`. An appendBlock is two steps (`AppendBlock` changes the history,
`StateApplied` or `StateFailed` ends it with commit or rollback), and removeAfter
is one step per discarded block and a last one for the state (`RemoveAfter`,
`RemoveTop`, `RemoveDone`, `RemoveThrows`), because readers of other threads fill
the cache in between (`Read`) and the process may crash (`CrashAndRestart`).
`AutoCommit` is MVStore's background writer, which the code never switches off: it
may store what it finds before and after any of these steps.

### 2.4 Synchronisation: `Chains`, `BlockSeq`, `BlockchainSynchronizer`, `Coordinator`, `Node`, `ScoreObserver`, `ScoredNode`

Here a chain is a sequence of blocks: what StoredBlockchain makes of it is the
matter of 2.3. `Chains` has the queries of a history and the answers of
HistoryReplier; `BlockSeq` is the fork storage. `BlockchainSynchronizer` is the
actor of that name. `task` stands for its behaviour, a closure in the code over
its stage, the common block, the ids, the set of peers and the run; a timer holds
such a closure too and puts it, as TimeoutExceeded, into the mailbox, where it
may lie until the actor is in another stage or in another download. The actions
`GetExtension`, `ExtensionReceived`, `TailReceived`, `ForkBlockReceived`,
`ForkBlockAgain`, `OtherBlock`, `Ignored` and `Timeout` are the cases of its
receive functions.

`Coordinator` has ConsideredValue, SyncFinished and AddBlock. Applying a fork is
one step per block (`ForkBlockApplied`, `ForkBlockFails`, `ForkEnds`) since the
blocks come from a lazy iterator over the fork storage, which the synchronizer
writes meanwhile. `Node` puts the two among peers that answer in order, lose
requests, and a miner; scores of any set of peers may be considered at any time.
`ScoredNode` has the ScoreObserver in their place, and fairness.

The code lets a timeout of one download be handled in the next. If it is one of a
download that was getting blocks, its closure goes on with the former common
block, peers and author, on the fork storage the present one has filled: such a
fork need not attach to its common block, and may name a peer that did not send it.
`older` (ghost) counts the messages that were in the mailbox before the fork
storage was filled, and `mixed` (ghost) says that a timeout among them has resumed
a download on it. `ForkAttaches`, `AuthorSentAll` and `ForkBeatsChain` are about a
fork at the moment it is handed over (`HandsOver`), if one download has worked on
it. Nothing else is assumed of the mailboxes.

### 2.5 Mining: `Mining`

BlockGeneratorController (`mode` is its behaviour, `workers` its children) and
the miners. A miner's `current` is its currentState: the block it is for and the
number of a schedule, `timers` the attempts the Akka scheduler holds for it, those
of forgotten schedules included; stop() cancels those of the current one. A miner
that was created but whose constructor has not run is in `unborn`, and may have
messages; one that has not answered the health check is in `asking`.

| action | code |
|---|---|
| `StartGeneration`, `StopGeneration`, `EnforceMiners`, `CheckSyncing`, `CheckGenerating`, `ControllerIgnores` | the cases of syncing and generating |
| `HealthCheckFails` | the onComplete of an ask that timed out |
| `Construct`, `GuessABlock`, `TryToGenerate`, `HealthCheck`, `Stop` | a miner's constructor and messages |
| `Throws` | an exception in a message, after which Akka restarts the miner |
| `TimerFires` | a scheduled attempt enters the mailbox |
| `Command`, `CheckWorkersTick`, `AddBlock`, `ProcessFork` | what others send, and how the Coordinator changes the last block |

### 2.6 A connection: `Connection`

PeerConnectionHandler and Buffering. `cycle` is the handler's behaviour, `box` its
mailbox, `chunksBuffer` the code's buffer of that name; `stream`, `link`,
`reading`, `writable` and `arrived` are the connection actor of Akka, in pull mode
and with useResumeWriting. A byte is a digit to the base `Base`; `LengthOf` is the
number that the `HeaderSize` bytes of a header write, and the peer puts before a
message the header of its length (`HeaderOf`). `getPacket` cuts the packets from the
buffer as the code does, an invalid length (`ValidLength`) included, which throws and restarts
the handler (`InvalidLength`). `ReceivePiece` delivers any number of bytes.

| action | code |
|---|---|
| `SendHandshake`, `HandshakeReceived`, `NoHandshakeReceived`, `HandshakeCheck` | handshakeCycle |
| `SendMessage`, `BlacklistPeer`, `DataReceived`, `InvalidLength`, `Unhandled` | workingCycle |
| `WriteFailed`, `CloseConnection`, `ConnectionClosed` | processErrors, in both cycles |
| `ReceivePiece`, `Closed`, `Breaks`, `PeerSends`, `SendReply`, `Enforced` | the connection, the peer and the actors of this node (external) |

`gap` (ghost) says that a piece held bytes behind the handshake: the code drops
them, and with them the start of the first packet.

### 2.7 Peers: `Peers`

PeerManager and PeerDatabaseImpl, with the connections of the NetworkController.
`connectedPeers` maps an address to the connection of its entry and the node of
its handshake, `connectingPeer` is the code's, and `peersPersistence` says of a
known address whether it is blacklisted, or was until its time ended (`"over"`)
and nobody has asked since. A connection is an address and the node at its other
end; what its handler tells is `inbox[c]`, in order, while those of different
connections interleave. `Connected`, `Handshaked`, `Disconnected` and
`AddToBlacklist` are the cases of peerCycle and blackListOperations, `CheckPeers`
is the tick, `AddOrUpdatePeer` the message of a handshake's declared address, and
`Learn` the one of a Peers message. That the key of an entry keeps its old handler
when it is put again (`HandlerFor`) is what `+=` does with keys that are equal by
their address. Assumed: `Connected` of a connection reaches the PeerManager
before what its handler tells, as it is sent with the handler's creation. An
incoming connection has an address of its own, never known and so never
blacklisted. `mixed` (ghost) says that a handshake came while another entry
waited for its own.

### 2.8 The pool: `UnconfirmedPool`

Three kinds of actors share the pool. Threads (the API's and
UnconfirmedPoolSynchronizer) find a transaction valid and the pool not full
(`Accepts`) and put it (`PutIfAbsent`). The miner reads the last block, clears the
pool and packs it. The Coordinator changes the chain, then the state, then clears.
`balances` and `included` are the state, so that a validate sees what is there at
the time, and not what the chain will make of it.

| action | code |
|---|---|
| `ReadsLastBlock`, `NoBlockYet`, `PackUnconfirmed` | the miner's generateNextBlock: begun, given up for a hit too high, or come to a block |
| `MinerClears`, `CoordinatorClears` | clearIncorrectTransactions: `ReadsTime` of the last block, `ReadsPool` (all(), and what is too old of it), `FindsInvalid` (validate of what was read), and `Removes`, one transaction at a time |
| `MinerThrows` | balance throws in a validate, which ends the attempt |
| `AddOwnBlock`, `AddBlockOfPeer`, `RemoveAfter` | the Coordinator appends or removes blocks: the history changes |
| `ChangesAccount` | applyChanges or rollbackTo for one account: its row and lastStates, and its transactions in includedTx, in the order in which each of the two does it |

Between any two of these steps of the miner the Coordinator may take any number of
its own. A miner can then clear by a time or a state that is no longer so, or never
was: it reads the time of a block that is removed next, or it finds included, or
unpaid, what a rollback makes payable before it is removed. Such a miner takes
payable transactions out of the pool, in the model as in the code. `overlapped`
(ghost) says that the chain or the state changed since the miner began to clear, and
`SolventKept` excepts the miner, and only the miner, as long as that is so.
While rollbackTo takes an account back there is a moment at which lastStates names
a row that is gone, and balance throws (`Readable`).

Steps that are one here and more in the code: a validate reads the state at one
moment, which may be the middle of a change, and so does the check of a
transaction before the limit is looked at, and the packing of a block, which is
validated again when it comes to the Coordinator. The history is cut at once (2.3
has its steps), and all rows of an account go at once in a rollback. The
Coordinator's removal of the block's own transactions and its read of the time are
one step: neither can change what the other does, and a miner that reads the pool
in between finds only transactions more or fewer that are included and that
validate leaves out. Two threads with the same transaction count as one. What
generators earn, commits and crashes are left out. validate is that of `Payments`,
in whatever order the pool hands out its transactions; `PackUnconfirmed` takes the
dearest first, and of equal fees any.

As the code has it, the transactions of removed blocks are not put back, too
old ones are validated with the others and may push out a payable one (it is
what `SolventKept` leaves room for), and a block packed from the pool may be
invalid for a transaction older than `MaxTxAndBlockDiff`. Nothing in the code keeps
one block from holding a transaction twice, if its sender can pay for both:
`ChainIsSound` is about different blocks.

### 2.9 Consensus: `Consensus`

Both proofs of stake as functions over integers: `CalcBaseTarget`, `CalcTarget`
and `ScheduledTime` of NxtLikeConsensusModule, `GetNextBlockGeneratingBalance`,
`QoraTarget` and `Guesses` of QoraLikeConsensusModule, and for each what
generateNextBlock makes (`NxtGenerates`, `QoraGenerates`) and isValid accepts
(`NxtIsValid`, `QoraIsValid`). A step adds a generated block. Hits stand for
hashes, chosen anew for each block. Times are in seconds, floating-point factors
are the exact fractions they stand for, and the check against the clock is left
out. `Long` wraps a product as the JVM does, with `LongMax` for the greatest.

### 2.10 Wallet: `Wallet`

`stored` are the maps of the MVStore, `committed` what a crash leaves of them,
`accountsCache` the cache. generateNewAccount is four steps, deleteAccount three,
as the store may commit by itself (`AutoCommit`) and the process crash
(`CrashAndRestart`) between any two; the lock of the object keeps calls apart.
An account is its nonce, from which and the seed the code derives its keys.
A crash right after a background commit of the nonce skips an account: a reader
that saw it in the cache, before it was answered, then saw one that is gone. A crash
after a background commit of the account leaves one that was never answered: it
shows, and can be deleted as any other (`DeleteAccount`).

How the parts of the model depend on each other:

    Payments <- PaymentsProofs
    Blocks, Payments <- Transactions <- Ledger  (abstract)
    Transactions <- StoredState  --implements--> Ledger
    StoredBlockchain, StoredState <- BlockStorage
    BlockStorage, PaymentsProofs <- BlockStorageProofs (of StoredState too)
    StoredBlockTree <- StoredBlockTreeProofs
    Blocks <- Chains <- BlockSeq <- BlockchainSynchronizer <- Coordinator <- Node
    Node, ScoreObserver <- ScoredNode <- NodeProofs (of Node too)
    Mining
    Payments <- UnconfirmedPool; PaymentsProofs <- UnconfirmedPoolProofs
    Connection, Peers <- NetworkProofs
    Consensus <- ConsensusProofs
    Wallet <- WalletProofs

`Peers` takes of a connection what `Connection` shows of it: a handler tells
Handshaked, AddToBlacklist and, in any case, Disconnected at last (`EndIsTold`).

## 3. What is checked

Each `MC*` module holds the blocks, transactions and chains of an instance, and
each `.cfg` the bounds.

| run | states | bounds | shows |
|---|---|---|---|
| `block_tree` | 21 000 | 8 blocks on 3 branches, MaxRollback 2, 2 crashes | the tree stays consistent, the best block is the best, the score never drops, rollbacks are bounded, lookForward invents no link |
| `state` | 825 | 8 blocks, 3 accounts, height up to 6, any rollback; validate is asked about every sequence of up to 3 transactions | the rows answer every query as the blocks demand; `Ledger` is implemented; no money appears or is lost |
| `block_storage` | 48 000 | 5 blocks on 2 branches with a payment in both, height up to 3, stores that fail, commits of the store's own anywhere | chain, indexes and scores agree; only a removal that throws and a commit of the store's own between the two changes part the state from the chain; no rollback or restart loses a block that was appended and not removed |
| `node` | 1 605 000 | 2 peers on one fork, one of them a block ahead and with longer answers; a miner; an invalid block; 2 downloads, 1 lost request, 1 early timeout, mailboxes of 4 | the pieces of a fork join; the fork is better than the chain it replaces; the peer named as its author sent all of it |
| `scored_node` | 58 000 | 2 peers on different forks, a miner, 2 lost requests | every download ends; in the end no quorum of connected peers has a better chain |
| `mining` | 490 000 | 1 miner; a block with a time to generate at and one without; 2 changes of the last block, 2 commands, 1 failed health check, 1 exception, mailboxes of 2 | a miner falls silent once generation is stopped for good, and otherwise comes to a schedule for the last block |
| `connection` | 224 000 | 2 messages of a peer, which parse or not, in a stream cut anywhere (cut at the wrong place it also gives an invalid length); 2 messages to it, a mailbox of 2 when the node sends | what is delivered comes after both handshakes, in order and, on a connection that stays open, complete; failed writes leave no hole; the end is told |
| `peers` | 284 000 | 3 nodes, this one among them; 2 connections at most, 1 blacklisting, an address that is asked for and told | a node is listed once, its handshake with its own connection; ended connections leave the list; only an attempt refused for the blacklist keeps the next from being made |
| `pool` | 445 000 | 2 threads, room for 1, 2 accounts, 3 transactions, blocks of 1, a chain of up to 2 | the chain stays payable and no two blocks hold a transaction; the limit holds up to the race; payable transactions stay, unless the chain changes while a miner clears; included ones leave |
| `consensus` | 635 000 | 3 accounts, one of which makes the product overflow; chains of 6 blocks; retarget every 3 (Qora) or 2 (Nxt); hits of 0, at a multiple of a target and beyond | generated blocks are valid; the scheduled attempt is the earliest; a retarget stays in its limits and moves against the deviation |
| `wallet` | 24 000 | 4 accounts, crashes and commits anywhere | no account is answered twice; one that was answered stays; a deleted one is gone |

One more run, `node_score`, ends in a counterexample to a sentence of the
repository's documents: by `ScoreKept` the score of a chain never drops, and it
does when the next download clears the fork storage while the Coordinator still
takes blocks from it.

Further configurations stand beside the runs, each of which ends in a
counterexample to what a comment, a test or a document says:

| configuration | property | what happens |
|---|---|---|
| `MCStoredState_Validate.cfg` | `ValidateSound` | validate (StoredState.scala:169) looks for payments to drop among all it was given, included ones too, and keeps one that the sender cannot afford |
| `MCBlockStorage_LastBlock.cfg` | `LastBlockIsTop` | a reader of the height above the chain leaves None in the cache (StoredBlockchain.scala:60); lastBlock throws once that block is there |
| `MCBlockStorage_AutoCommit.cfg` | `StateMatchesHistory` | a background commit (BlockStorageImpl.scala:17) between the history's and the state's half of an append, then a crash; release-notes.md:40 has updates atomic |
| `MCScoredNode_LongFork.cfg` | `CanonicalChain` | ten blocks of a fork (BlockchainSynchronizer.scala:166) are compared with a longer chain of one's own |
| `MCMining_Stop.cfg` | `SilentAfterStop` | an attempt that repeats, handled after a GuessABlock has made a new schedule, makes a second one beside it, and Stop cancels only that |
| `MCPeers_SecondChance.cfg` | `SecondChance` | the time on the blacklist ends only inside isBlacklisted, asked for addresses that connect by themselves; knownPeers leaves the address out for ever (PeerDatabaseImpl.scala:60; BlacklistSpecification.scala:18-20 expects it back) |

More disagreements have no configuration of their own. `HandshakeOfItsConnection`
in `Peers` is violated in the instance of `peers`: with two handshakes awaited at
once, the first to come takes both entries and may be kept with the other
connection (PeerManager.scala:93). `LookForwardComplete` and `BranchPointFound`
in `StoredBlockTree` are violated in the instance of `block_tree`: after a switch
to a branch of two blocks bestChain lacks a link, and a side branch may win
whose fork point branchBlock no longer finds. With `ForkResolveQuorumSize = 2`
and two peers on one chain `QuorumPrevails` is violated in `scored_node`, because
the second report of the same maximum is no rise. With `Overtakes = TRUE` it is
violated too, by the overtaking that `node_score` shows, again and again.
In `node` forks that two downloads have worked on (`mixed`) are handed over, and
some do not attach: without that premise TLC finds `ForkAttaches` violated.

With failing stores `StateMatchesHistory` is violated too: a failed append
leaves in the cache what makes a later removeAfter throw before it rolls the
state back. That and the background commit are what `StateStaysWithHistory` excepts.

In `pool` `SolventKept` is violated without its exception for an `overlapped` miner
(SimpleTransactionModule.scala:98-109): the miner reads the time of a block that the
Coordinator then removes, and drops as too old what is young again. In `peers` it is
violated that an attempt always ends: the connection of an address that was
blacklisted meanwhile is neither listed nor closed (PeerManager.scala:77), and
connectingPeer stays set. `AttemptsEnd` says that nothing else leaves it set.

Why these bounds. The tree has three branches so that a third one can win after
a switch between two, a fork point at and beyond MaxRollback, and side blocks
on either side of the best score. The state has an account that several
blocks touch and one that few do, so rows have gaps; a transaction in two blocks
stands for two forks. The storage has a cache entry that outlives its block in
every combination with a commit, a rollback and a restart, which three heights
give. In `node`, forks are longer than one answer of the first peer (2 ids), and one
answer of the second (5 ids) fills a fork at once; forks are as
long as `ForkMaxLength`, there are fewer blocks in a chunk (2) than in a fork,
and retries can reach both limits; two downloads are needed for a late message
of the first one to meet the second. Miners do not interact, so one is enough;
two blocks, one of them without a time to generate at, give both kinds of
schedules and a change between any two of them, and a mailbox of 2 holds an
attempt and the message that makes it a stale one. A connection has lengths of
two digits so that a piece may end inside a length, inside a packet and between
two, and two messages so that one piece may hold the end of one and the start of
the next. Two connections are enough for two entries of one node, for an entry
that changes hands and for two handshakes awaited at once. A pool with room for
one is full with one transaction, and two threads race for it; of its transactions one
can be paid only after another, and one is too old for a block. Blocks of one
transaction change two accounts, so there is a middle of a change, and with two blocks
a removal after an append while the miner is anywhere in its clearing. Six blocks give
each consensus module two retargets, with the average over blocks before and
after the genesis block, and a hit at a multiple of the target is the one at which
rounding could be wrong by one. Deadlock is checked except where
the system may stop: a node that has the best chain, a connection that is
closed, and the models with a bound on what is put into them.

Fairness (`ScoredNode!Fairness`) is weak fairness of each actor's step, of the
timers, of answers and scores of the connected peers, and of the ScoreObserver's
tick: Akka dispatches every mailbox, its scheduler repeats, and a peer sends its
score every two seconds. A request may be lost, at most `MaxLost` times, so no
fairness makes a particular one arrive. `Overtakes = FALSE` is an assumption on
timing: the Coordinator is done with a fork before answers of the network fill
the next one. Scores expire only for peers that are gone, since `scoreTTL` is
far longer than the interval between scores.

`Connection!Fairness` is weak fairness of the handler's messages, of reading while
it is asked for, and of closing once it is told: the dispatcher and Akka's
connection actor. The peer need not send, nor anyone close. `Peers!FairSpec` is weak
fairness of the PeerManager's messages, and of an attempt to connect, which fails
or succeeds within its timeout. `UnconfirmedPool!FairSpec` is about a node that goes
on: again and again there is a step of clearing, as its miner has attempts that come
to a block or blocks are appended, and the Coordinator ends the change it is in. No
fairness makes a thread put or a particular block come. It is written as steps that
happen infinitely often, which spares TLC to compute validate for ENABLED.

`Mining!Fairness` is weak fairness of the miners' constructors, messages and
timers and of the controller's periodic check, and strong fairness of the
controller's messages: a bounded mailbox of a miner may block it again and again
in the model, and never in the code. An attempt that is due waits for the one
before it, since attempts are at least `blockGenerationDelay` apart. `KeepsUp`
has two premises: the last change of the chain was passed on (processFork passes
none on), and no health check failed (a worker that answered too late is stopped
and not replaced).

## 4. What is proved

Each theorem is `Spec => []Inv` or `Spec => [][A]_vars` for every value of the
constants under the assumptions its modules name. All rest on an inductive
invariant, proved action by action. What a recursive function computes is proved
by induction in the form of a set: `Induction` (a set with 0 and every successor
has all natural numbers) and `PartsInduction` (the same for the parts of a finite
set) come from well-foundedness and from cardinalities. A definition such as
`upTo[i \in 0..Len(seq)] == ... upTo[i - 1] ...` stands for some function that
satisfies it; `Recursion` shows that there is one wherever the steps stay in a
set, and from there on only its equations are used.

### Block tree (`StoredBlockTreeProofs`, under `BlockTreeAssumption`)

Blocks are finitely many since their identifiers have a fixed length.

- `TreeIsConsistent`, `BestBlockIsMax`, `ScoreIsMonotone`. The inductive invariant
  `TreeInv` is typing of the tree, `TreeConsistent` and `BestIsMax` together: the
  last two need each other, for the score of a new entry is known only from that
  of its parent, and that the winner beats all others only from the old best.
  One lemma says what `Put` adds, one what the best block may become, and
  `NextInv` goes through the actions.
- `RollbackIsBounded`. A block that becomes the best one grew from one at most
  MaxRollback below the old best, so it is higher than that by one.
- `LookForwardAnswersPath`. `LinksInv`: the links in memory, and those a restart
  finds, are between a stored block and a stored child of it, also when
  changeBestChain has given up half way. What branchBlock and lookForward walk is
  then a path, by induction over the steps they have made.

### Account state (`BlockStorageProofs`, under `StoredStateAssumption`, `GenesisAssumption` and `TransactionsAssumption`)

- `RowsAreTheBlocks`. The inductive invariant `StateInv` says that the heights of
  an account's rows are those at which an applied block touched it, that each row
  holds the balance after that block and links to the next one below (`RowsMatch`),
  and that the included transactions are those of the applied blocks, each of one
  block only (`TransactionsOnce`). An append adds a top row to the accounts of its
  block; for a rollback it takes that deleteNewer walks down the links to the first
  row that stays. That a transaction is in one block is needed too: rollbackTo
  forgets the transactions above the height by the height that is noted for them.
- From it follow `TypesHold`, `IncludedAlwaysMatches`, `ConfirmedAlwaysMinimum`
  (the least balance between two heights is that of one of the rows, or of the
  first one below), and `StateImplementsLedger`, the refinement: each step of the
  rows is one of `Ledger`, whose balances are sums over the chain.
- `MoneyIsConserved`. The sum over accounts of what a block changes is 0, except for
  a genesis block: each payment takes from one account what it gives to another
  and to the generator. `SumAdds` and `SumOfOne` say how such a sum is made up.
- `ValidateAnswersPayable` (see Payments).

### Payments (`PaymentsProofs`)

Lemmas on sums, filters and validate, for any transactions and balances. A round of
validate keeps everything if nobody comes to owe, and otherwise is shorter: the
first of the dearest payments of one who owes is always removed
(`DearestIsRemoved`). There are as many rounds as transactions, so the last one
leaves what can be paid (`FreshValidates`). That needs the transactions to be ones
not yet included: with others validate may be wrong, as `ValidateSound` shows. In
any case it answers a part of what it is asked about (`ValidatesPart`), all of it
only if all can be paid (`ValidatesWhole`), and it spares every payment of an
account that can pay for all that it sends (`ValidateSpares`): the distinct
transactions of a round cannot take more than that from it (`SpendsAtMost`), and a
round removes only payments of those who owe.

### History and state in one store (`BlockStorageProofs`, also under `NoneIsNoBlock`, `BlockchainAssumption` and `FaultsAssumption`)

- `ChainStaysConsistent`, with background commits at any moment.
  `ChainConsistent` alone is not inductive: appendBlock compares the new block's
  reference with what the *cache* says is the last block, and the cache may hold
  a block of a chain that was rolled back. What saves it is that a block has one
  height: `Depth`, from the fact that a block signs its reference and references
  have no cycle. `ChainInv` says that current and committed maps are consistent
  with every block at its depth (`GoodMaps`), and that the cache has at a height
  only blocks of that depth (`GoodCache`); a valid block that references the
  cached one then references a stored block of the same depth, which is the top.
- `NoBlockIsLost`. `SinceCommit`: since the last commit, the store's own included, the
  chain was only cut, and is one block longer while that block is being applied. What
  a rollback or a restart finds then starts with every block that was appended and
  not removed.
- `StateNeverParts`: no step takes history and state apart but a removeAfter that
  throws and a background commit while they are one block or a removal apart.
  `TargetInReach` says that while a removal goes on the block to keep is in
  the chain, or the loop has gone below its depth: when the loop ends, the height
  of that block, to which the state is rolled back, is the history's.
  `AppliedBlocks`: the state's record has only blocks of `Block`.

### The pool (`UnconfirmedPoolProofs`, under `UnconfirmedPoolAssumption`)

- `LimitIsHeld`, for any limit and number of threads. `RoomInv`: the transactions in
  the pool and those that threads are about to put are together fewer than the
  limit and the number of threads, since the pool was not full when one asked.
- `ChainStaysSound`: no two blocks hold the same transaction, and nobody owes.
  Neither the pool nor a packed block is sound by itself; a block is validated
  again before it is appended, and `ValidatesWhole` makes that enough. `SoundInv`
  asks for more than `ChainIsSound`: nobody owes after *any* of the blocks, for a
  removal of the later ones leaves a chain that ends there. A block is judged by
  the state, and `StateInv` says what that is worth: of every account that the
  Coordinator has not left to change, the balance and the notes of included
  transactions are those of the chain.
- `SolventAreKept`. `CleanersInv` says of one who clears: the time it has read is that
  of the last block, what it is about to drop is too old, and what it is about to
  remove is in the chain or cannot be paid (`CleanerInv`). It holds of the Coordinator,
  which clears only when its change is done and alone changes anything, and of a miner
  that no change has overlapped. That what a validation leaves out cannot be paid is
  `ValidateSpares`, for the snapshot in any order (`AllInOrder`). Transactions are
  finitely many (their length is bounded).

### A node among its peers (`NodeProofs`, under the assumptions of `Blocks`, `Chains`, `BlockchainSynchronizer`, `Coordinator` and `Node`)

For any blocks, chains of peers, lengths of answers, limits of retries and forks,
mailboxes, losses and timeouts. `RefIsWellFounded` says that references have no
cycle, `NodeAssumption` that the chains are chains (`Linked`).

- `NodeTypesHold`. `NodeInv` says of every message, request, timer and behaviour what
  it may be: ids in an answer are a piece of a chain (`PartOfChain`), those a
  behaviour has gathered follow each other and its common block (`TaskInv`,
  `Attached`), a closure in the mailbox is as good as the one at work. That no id
  occurs twice in a fork, part of `TypeOK`, follows from `Attached`: the ids of a
  piece of chain are different because references have no cycle.
- `AlwaysForkAttaches`, `AlwaysAuthorSentAll`, `AlwaysForkBeatsChain`. Here the
  closures matter that *may* run on the present fork: the behaviour itself and the
  timeouts behind the `older` messages (`AtWork`). `WorkInv` says of all of them,
  while no two downloads are mixed, that the fork attaches to their common block
  (`AttachedInv`), and that `forkBase` is no more than the score of *any* chain that
  ends in it (`BaseInv`), which is what makes a later history as good as the one
  the score was taken of. The author needs most (`SenderInv`): a peer that
  was never changed has sent all blocks, and where a closure has no other peer to
  change to (`Alone`), its peer has sent them all and is the only one that any
  closure at work could ask. A closure that is resumed keeps naming its peer only
  if it was alone, and what a timeout makes of one `Descends` from it: the same
  common block, a peer of those that were left, and alone only if it was.
- `ScoredNodeIsSound`: the same of `ScoredNode`, for any number of downloads.
  `ReportsInv` says that the ScoreObserver reports scores of peers; every step of the
  composition is then one of the node (`ScoredIs`), which considers scores from
  anywhere (`NodeStep`). The lemmas above are about such steps. No fairness is used.

### A connection (`NetworkProofs`, under `ConnectionAssumption` and `HeaderHoldsLength`)

- `AlwaysInOrder`, for any bytes of the headers (every length up to the maximum has a
  header, that is all that is assumed of them), any messages, and pieces cut
  anywhere. `OrderInv`: there is one sequence of bytes, the packets of what the peer
  has sent (`Wire`), of which the stream, the pieces in the mailbox and the buffer
  are consecutive parts; the buffer starts where a packet does, and what was
  delivered is a part, in order, of the messages before that place (`Embeds`).
  `getPacket` from such a place cuts just the messages between it and the last
  whole packet, by induction over the function that it is, since a valid length is
  never negative. Before that the handshake is on its way (`Waiting`) or was taken
  (`Shaken`); when something else was taken for it the connection closes (`Lost`);
  a piece that holds more than the handshake ends the claim (`gap`).
  `FirstInv`: nothing is delivered before both flags of the handshake are set.
- `NoHoleEver`. `WritesInv`: while writes are accepted on an open connection all that
  was written has arrived; once one has failed only a closed or closing connection
  can follow a resume, so nothing arrives after the hole.

### Others

- `WalletProofs`, under `WalletAssumption`, for any number of accounts:
  `NoAccountAnsweredTwice`, `DeletedStaysGone`, `CacheAlwaysMatches` and
  `AnsweredStays`. None is inductive alone. `WalletInv` says that every account
  anywhere is below the nonce of its map and, but for the one being made, below the
  nonce that is committed, that no two keys hold one account, what
  the cache and the two maps hold at each step of a call, and that what was
  answered or deleted is committed; that a nonce was committed with its account is
  what keeps a crash from making the account again. `lastKey() + 1` is new because
  a finite set of keys has a greatest one (`MaxIsGreatest`).
- `NetworkProofs`, of `Peers` under `PeersAssumption`, for any nodes, addresses and number of
  connections: `TypesHold`, `NodeListedOnce`, `HandshakesKept`, `BlacklistIsKept`.
  `PeersInv` adds to them that connections keep address and node and are numbered in
  their order (`ConnsOK`), that a message in an inbox is about a connection there
  is (`InboxOK`), and that the nodes of handshakes are never this one
  (`EntriesOK`). One lemma per message of the PeerManager.
- `ConsensusProofs`, under `ConsensusAssumption`, for any balances, limits, hits and
  delays: `GeneratedIsAlwaysValid`, `ScheduledAttemptIsEarliest` and
  `RetargetsAreBounded`. They rest on lemmas on integer division (a quotient is the
  only one between two multiples), and on `ConsensusInv`: times increase and the
  generating balance stays between its limits, so that no divisor is zero. The
  limits of a retarget are stated as the code has them: Nxt's base target goes to
  no less than (5625 - 7 * AvgDelay) / 5625 of what it was, rounded down, which is
  assumed not to be negative, and to no more than 67/60 of it. That it stays above
  0 is no theorem, for it need not (see 5).

Not run but proved are typing of `Peers` (`TypesHold`), `BlacklistHolds`,
`CacheMatches` and the invariant behind the account state (`RowsAreTheBlocks`): a
larger instance would add nothing to them.

### Only checked by TLC

- `ScoreKept`, which is false, and the other properties with counterexamples (3).
- Every liveness property, which is out of the prover's reach, as is ENABLED:
  `IncludedLeave` of the pool, `EndIsTold`, the properties of `ScoredNode` and
  `Mining`, and that attempts of `Peers` end.

## 5. What is left out

- How a map of the store is written: writeBlock and deleteBlock change their maps
  in one step. The repair of signaturesReverse when an old file is opened.
- Sending new blocks, scores and transactions on to peers; the routing of messages
  by the NetworkController and its choice of receivers; log lines; codecs.
- Peers in the network modules are honest about their chain, which does not
  change; a miner and an invalid block stand for what may be wrong with it.
- Nxt's base target has no lower limit in the code (a TODO says so): below 9 it
  cannot rise any more, as 67/60 of it rounds down, and from 1 it may fall to 0, by
  which blockScore divides. The instance stays above. Qora compares the time of
  nine intervals with that expected of ten blocks, which `ExpectedGeneratingTime`
  and `GeneratingTime` keep, and its target is not monotone in the balance above
  5/8 of the limit, where `RetargetsTheRightWay` says nothing. The product of
  line 121 of NxtLikeConsensusModule overflows with `InitialBaseTarget` and usual
  balances: the attempt is then scheduled at a wrong time and not repeated, and
  `ScheduledIsEarliest` is about products that fit. So does the quotient, times 1000,
  for very small products and great hits, which the model, in seconds, leaves out.
- RemoveFromBlacklist, which nobody sends; ShutdownNetwork, at the end of the
  process; nonces of peers, which are never stored.
- API routes, settings, crypto, serialisation, NTP and UPnP only pass on what
  libraries or the components above do. Most of the repository's lines that are
  not Scala are the vendored Swagger UI in `scorex-basics/src/main/resources`,
  JavaScript of another project that serves the API browser: it has no state of
  the node, and nothing of it is modelled.

## 6. Plan

Every component with state of its own has a module now. What would add most next:

1. `Peers` over `Connection`: what the inboxes of `Peers` assume of the order in which
   a handler tells its messages, taken from the handler itself.
2. The NetworkController's routing, so that `Node` and `Peers` meet: a message to
   a peer that is chosen from the list and gone when it is sent.
3. The pool over a fork: transactions of removed blocks that come again from
   peers.
