--------------------------- MODULE UnconfirmedPool ---------------------------
(* The pool of unconfirmed transactions.  API threads and the actor          *)
(* UnconfirmedPoolSynchronizer put transactions into it; a miner packs it    *)
(* into blocks; the Coordinator takes those of an appended block out of it.  *)
(* They run at the same time and share the pool, the history and the state,  *)
(* which the Coordinator changes account by account, after the history.      *)
EXTENDS Payments, FiniteSetsExt

CONSTANTS
  Tx,          \* transactions [id, from, to, amount, fee, time]
  Start,       \* Start[a]: the balance of a before the blocks of the model
  Threads,     \* how many put transactions: API threads and the synchronizer
  SizeLimit, MaxTransactionsPerBlock, MaxTimeForUnconfirmed, MaxTxAndBlockDiff,
  MaxBlocks    \* bound on the chain

ASSUME UnconfirmedPoolAssumption ==
  /\ Start \in [Account -> Nat]
  /\ IsFiniteSet(Tx)
  /\ \A t \in Tx : /\ {t.from, t.to} \subseteq Account
                  /\ {t.amount, t.fee} \subseteq Nat /\ t.time \in Int
  /\ Threads \in Nat \ {0}
  /\ {SizeLimit, MaxTransactionsPerBlock, MaxTimeForUnconfirmed, MaxTxAndBlockDiff,
      MaxBlocks} \subseteq Nat

VARIABLES
  transactions,  \* the pool
  chain,         \* the history: the blocks [time, txs] after the one before it all
  balances,      \* the state: the balance of each account,
  included,      \* and the transactions noted as included
  submitting,    \* the transactions that threads are about to put
  miner,         \* how far the miner is with an attempt and with clearing the pool
  coordinator,   \* how far the Coordinator is with a change and with clearing
  generated,     \* AddBlock messages: blocks and the chains they build on
  overlapped     \* (ghost) the chain changed while the miner was clearing the pool

state == <<balances, included>>

vars == <<transactions, chain, state, submitting, miner, coordinator, generated, overlapped>>
-----------------------------------------------------------------------------
(* What the chain says.  What the generators earn is left out: they send     *)
(* nothing here.                                                             *)

Included == UNION {ToSet(chain[i].txs) : i \in DOMAIN chain}

BalanceOf(a) == Start[a] + Total([i \in DOMAIN chain |-> NetEffect(chain[i].txs, a)])

\* The time between two blocks is the unit of time.
TimeOf(c) == IF c = <<>> THEN 1 ELSE Last(c).time

LastBlockTs == TimeOf(chain)

TooOld(t) == LastBlockTs - t.time > MaxTimeForUnconfirmed
-----------------------------------------------------------------------------
(* What the state says, in the middle of a change too.                       *)

\* While rollbackTo takes the rows off an account, lastStates names one that is
\* gone, and balance throws.
Readable(accounts) == coordinator.at = "rollingBack" => coordinator.open \cap accounts = {}

\* validate of the state: genesis transactions do not come here.
Validate(txs) == ValidateAll(txs, balances, ToSet(txs) \ included)

\* all() has no order; packUnconfirmed sorts by fee.
ByFee(txs) ==
  {s \in SetToSeqs(txs) : \A i, j \in DOMAIN s : i < j => s[i].fee >= s[j].fee}

\* State.isValid.
IsValidTxs(txs) == Len(Validate(txs)) = Len(txs)

IsValidTx(t) == Readable({t.from, t.to}) /\ IsValidTxs(<<t>>)

\* (Defect for mutation: only the age of the transactions is looked at.)
OnlyNew(txs) == \A t \in ToSet(txs) : LastBlockTs - t.time <= MaxTxAndBlockDiff

\* SimpleTransactionModule.isValid of a block.
IsValidBlock(txs) ==
  /\ \A t \in ToSet(txs) : LastBlockTs - t.time <= MaxTxAndBlockDiff
  /\ IsValidTxs(txs)
-----------------------------------------------------------------------------
\* Nobody clears the pool.
IdleMiner == [at |-> "idle", now |-> 0, pool |-> {}, young |-> {}, gone |-> {}, on |-> <<>>]

IdleCoordinator == [at |-> "idle", now |-> 0, pool |-> {}, young |-> {}, gone |-> {},
                    block |-> {}, left |-> {}, open |-> {}]

Init ==
  /\ transactions = {} /\ chain = <<>> /\ generated = <<>>
  /\ balances = Start /\ included = {}
  /\ submitting = {}
  /\ miner = IdleMiner /\ coordinator = IdleCoordinator /\ overlapped = FALSE

\* (Defect for mutation: one more.)
OneMore == Cardinality(transactions) <= SizeLimit

HasRoom == Cardinality(transactions) < SizeLimit

\* A payment is made, or a transaction comes from a peer: it is valid, and
\* putIfNew finds room for it ...
Accepts(t) ==
  /\ Cardinality(submitting) < Threads /\ IsValidTx(t) /\ HasRoom
  /\ submitting' = submitting \cup {t}
  /\ UNCHANGED <<transactions, chain, state, miner, coordinator, generated, overlapped>>

\* ... and puts it.
PutIfAbsent(t) ==
  /\ t \in submitting /\ submitting' = submitting \ {t}
  /\ transactions' = transactions \cup {t}
  /\ UNCHANGED <<chain, state, miner, coordinator, generated, overlapped>>
-----------------------------------------------------------------------------
(* clearIncorrectTransactions, of the miner and of the Coordinator: two      *)
(* reads, a validation, and a removal for each transaction that is to go.    *)
(* p is how far the miner or the Coordinator is, next how far it is then.    *)

YoungEnough(pool, now) == {t \in pool : now - t.time <= MaxTimeForUnconfirmed}

\* What packUnconfirmed takes of the pool.
FirstOf(txs) == SubSeq(txs, 1, Min({Len(txs), MaxTransactionsPerBlock}))

Packed(dearest) == Validate(FirstOf(dearest))

\* (Defect for mutation: no more of the pool is validated than a block holds.)
ValidOfBlock(txs) == ToSet(Packed(txs))

\* (Defect for mutation: nothing is found invalid.)
AllOf(txs) == ToSet(txs)

ValidOf(txs) == ToSet(Validate(txs))

\* Those of the pool whose balances validate asks for.
Weighed(pool) == UNION {{t.from, t.to} : t \in pool \ included}

\* What is to be removed comes first.
Goes(p, stage) == [p EXCEPT !.at = IF p.gone = {} THEN stage ELSE @]

ReadsTime(p, next) ==
  /\ p.at = "clearing" /\ next = [p EXCEPT !.at = "reading", !.now = LastBlockTs]

ReadsPool(p, next) ==
  /\ p.at = "reading"
  /\ LET young == YoungEnough(transactions, p.now) IN
     next = Goes([p EXCEPT !.at = "dropping", !.now = 0, !.pool = transactions,
                           !.young = young, !.gone = transactions \ young], "validating")

\* All that was read is validated, but only what was young is to be removed.  The
\* state may be in the middle of a change.
FindsInvalid(p, next, after) ==
  /\ p.at = "validating" /\ Readable(Weighed(p.pool))
  /\ \E txs \in SetToSeqs(p.pool) :
       next = Goes([p EXCEPT !.at = "removing", !.pool = {}, !.young = {},
                             !.gone = p.young \ ValidOf(txs)], after)

\* Transactions that are too old, or did not pass, are removed one by one.
Removes(p, next, after) ==
  /\ p.at \in {"dropping", "removing"}
  /\ \E t \in p.gone :
       /\ transactions' = transactions \ {t}
       /\ next = Goes([p EXCEPT !.gone = @ \ {t}],
                      IF p.at = "dropping" THEN "validating" ELSE after)

\* clearIncorrectTransactions after its first read.
Clears(p, next, after) ==
  \/ /\ ReadsPool(p, next) \/ FindsInvalid(p, next, after)
     /\ UNCHANGED transactions
  \/ Removes(p, next, after)
-----------------------------------------------------------------------------
(* The miner: generateNextBlock *)

Changing == coordinator.at \in {"applying", "rollingBack"}

ReadsLastBlock ==
  /\ miner.at = "idle" /\ generated = <<>>
  /\ miner' = [miner EXCEPT !.at = "clearing", !.on = chain]
  /\ UNCHANGED <<transactions, chain, state, submitting, coordinator, generated, overlapped>>

\* The hit is too high, or the time has not come (None).
NoBlockYet ==
  /\ miner.at = "clearing" /\ miner' = IdleMiner
  /\ UNCHANGED <<transactions, chain, state, submitting, coordinator, generated, overlapped>>

MinerClears ==
  /\ \/ /\ ReadsTime(miner, miner') /\ UNCHANGED transactions
        /\ overlapped' = Changing
     \/ /\ Clears(miner, miner', "packing")
        /\ overlapped' = (overlapped /\ miner'.at # "packing")
  /\ UNCHANGED <<chain, state, submitting, coordinator, generated>>

\* The exception of balance ends the attempt (Miner.tryToGenerateABlock).
MinerThrows ==
  /\ \/ miner.at = "validating" /\ ~Readable(Weighed(miner.pool))
     \/ /\ miner.at = "packing"
        /\ \E dearest \in ByFee(transactions) : ~Readable(Weighed(ToSet(FirstOf(dearest))))
  /\ miner' = IdleMiner /\ overlapped' = FALSE
  /\ UNCHANGED <<transactions, chain, state, submitting, coordinator, generated>>

\* The block is sent to the Coordinator.
PackUnconfirmed ==
  /\ miner.at = "packing" /\ miner' = IdleMiner
  /\ \E dearest \in ByFee(transactions) :
       /\ Readable(Weighed(ToSet(FirstOf(dearest))))
       /\ generated' = Append(generated,
            [time |-> TimeOf(miner.on) + 1, txs |-> Packed(dearest), on |-> miner.on])
  /\ UNCHANGED <<transactions, chain, state, submitting, coordinator, overlapped>>
-----------------------------------------------------------------------------
(* The Coordinator: processSingleBlock, processFork, processNewBlock *)

ClearingPool(p) == p.at \notin {"idle", "clearing", "packing"}

\* clearFromUnconfirmed follows an append.
Changed(c) ==
  [c EXCEPT !.at = IF c.left # {} THEN @ ELSE IF @ = "applying" THEN "clearing" ELSE "idle"]

Appends(time, txs) ==
  /\ chain' = Append(chain, [time |-> time, txs |-> txs])
  /\ coordinator' = Changed([IdleCoordinator EXCEPT
       !.at = "applying", !.block = ToSet(txs), !.left = Involved(txs)])
  /\ overlapped' = ClearingPool(miner)

AddOwnBlock ==
  /\ coordinator.at = "idle" /\ generated # <<>> /\ generated' = Tail(generated)
  /\ LET b == Head(generated) IN
     IF b.on = chain /\ Len(chain) < MaxBlocks /\ IsValidBlock(b.txs)
       THEN Appends(b.time, b.txs) ELSE UNCHANGED <<chain, coordinator, overlapped>>
  /\ UNCHANGED <<transactions, state, submitting, miner>>

\* A block of a peer; the consensus data and signatures are right.
AddBlockOfPeer(txs) ==
  /\ coordinator.at = "idle" /\ Len(chain) < MaxBlocks
  /\ IsValidBlock(txs) /\ Appends(LastBlockTs + 1, txs)
  /\ UNCHANGED <<transactions, state, submitting, miner, generated>>

\* The blocks of a fork come next; those that are removed are gone with their
\* transactions.
RemoveAfter(n) ==
  /\ coordinator.at = "idle" /\ n < Len(chain) /\ chain' = SubSeq(chain, 1, n)
  /\ coordinator' = Changed([IdleCoordinator EXCEPT !.at = "rollingBack",
       !.left = UNION {Involved(chain[i].txs) : i \in n + 1..Len(chain)}])
  /\ overlapped' = ClearingPool(miner)
  /\ UNCHANGED <<transactions, state, submitting, miner, generated>>

\* Rows are put or taken off until the account is where the chain is ...
SetBalance(a) == balances' = [balances EXCEPT ![a] = BalanceOf(a)]

\* ... and so are the notes of its transactions.
NoteIncluded(a) ==
  included' = {t \in Tx : IF a \in {t.from, t.to} THEN t \in Included ELSE t \in included}

Opens(a) ==
  /\ a \in coordinator.left /\ coordinator.open = {}
  /\ coordinator' = [coordinator EXCEPT !.open = {a}]

Closes(a) ==
  /\ a \in coordinator.open
  /\ coordinator' = Changed([coordinator EXCEPT !.open = {}, !.left = @ \ {a}])

\* applyChanges: the row of the block, then the transactions; rollbackTo: the
\* transactions of the rows, then what lastStates says.
ChangesAccount(a) ==
  /\ \/ coordinator.at = "applying"
        /\ \/ Opens(a) /\ SetBalance(a) /\ UNCHANGED included
           \/ Closes(a) /\ NoteIncluded(a) /\ UNCHANGED balances
     \/ coordinator.at = "rollingBack"
        /\ \/ Opens(a) /\ NoteIncluded(a) /\ UNCHANGED balances
           \/ Closes(a) /\ SetBalance(a) /\ UNCHANGED included
  /\ UNCHANGED <<transactions, chain, submitting, miner, generated, overlapped>>

\* clearFromUnconfirmed
CoordinatorClears ==
  /\ \/ /\ ReadsTime([coordinator EXCEPT !.block = {}], coordinator')
        /\ transactions' = transactions \ coordinator.block
     \/ Clears(coordinator, coordinator', "idle")
  /\ UNCHANGED <<chain, state, submitting, miner, generated, overlapped>>
-----------------------------------------------------------------------------
MinerStep == ReadsLastBlock \/ NoBlockYet \/ MinerClears \/ MinerThrows \/ PackUnconfirmed

CoordinatorStep ==
  \/ AddOwnBlock \/ CoordinatorClears
  \/ \E n \in 0..MaxTransactionsPerBlock :
       \E txs \in [1..n -> Tx] : AddBlockOfPeer(txs)
  \/ \E n \in 0..MaxBlocks : RemoveAfter(n)
  \/ \E a \in Account : ChangesAccount(a)

Next ==
  \/ \E t \in Tx : Accepts(t) \/ PutIfAbsent(t)
  \/ MinerStep \/ CoordinatorStep

Spec == Init /\ [][Next]_vars

\* A node that goes on clearing its pool, as its miner has attempts that come to a
\* block, or its Coordinator appends blocks; and what the Coordinator begins it ends.
FairSpec ==
  /\ Spec
  /\ []<><<MinerClears \/ CoordinatorClears>>_vars
  /\ []<>(coordinator.at = "idle")
-----------------------------------------------------------------------------
Spent(a, txs) == MapThenSumSet(LAMBDA t : IF t.from = a THEN t.amount + t.fee ELSE 0, txs)

\* No two blocks hold the same transaction and no account is overdrawn, whatever
\* the miner packed from the pool meanwhile (Coordinator.scala:133-144).
ChainIsSound ==
  /\ \A i, j \in DOMAIN chain : ToSet(chain[i].txs) \cap ToSet(chain[j].txs) # {} => i = j
  /\ \A a \in Account : BalanceOf(a) >= 0

\* The limit of the pool is exceeded by no more than the threads that asked for
\* room at the same time (UnconfirmedTransactionsDatabaseImpl.scala:20-21).
LimitHolds == Cardinality(transactions) < SizeLimit + Threads

\* An account that can pay for all its transactions keeps each of them in the
\* pool until it is in the chain or too old, whoever else clears the pool.  Only a
\* miner whose clearing the Coordinator's change of the chain has overlapped may
\* lose one, and the Coordinator never does (SimpleTransactionModule.scala:98-109).
SolventKept ==
  [][\A t \in transactions \ transactions' :
       \/ t \in Included \/ TooOld(t)
       \/ Spent(t.from, Tx \ Included) > BalanceOf(t.from)
       \/ overlapped /\ MinerStep]_vars

\* A transaction that was put after its block was appended leaves the pool too
\* (TransactionModule.clearFromUnconfirmed and the miner's clearing).
IncludedLeave == []<>(transactions \cap Included = {})
=============================================================================
