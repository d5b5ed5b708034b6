----------------------- MODULE BlockchainSynchronizer -----------------------
(* The actor that downloads the chain of a better peer: it asks for the ids  *)
(* that follow a common block, asks on until it has enough of them, then for *)
(* the blocks.  Every stage runs under a repeating timer; a timer that has   *)
(* fired leaves a TimeoutExceeded in the mailbox, where it may be found when *)
(* the actor is long in another stage.                                       *)
EXTENDS BlockSeq

CONSTANTS
  Peer,                     \* the connected peers
  ForkMaxLength,            \* how many ids of a fork are used at a time
  MinForkChunks,            \* how many blocks are asked for at a time
  RetriesBeforeBlacklisted,
  OperationRetries,
  PinToInitialPeer

\* What is kept of the peers of a behaviour.
PeerData == UNION {[S -> [score : Nat, retries : Nat]] : S \in SUBSET Peer}

\* What the actor does has the stage, the last common block and the ids after
\* it, the peers with their scores and retries, which of them is active and
\* whether that was changed, the number of the run, and how many blocks there
\* were when it began.
Behaviour ==
  [stage : {"GettingExtension", "GettingExtensionTail", "GettingBlocks"},
   common : Block \cup {None}, ids : Seq(Block), peers : PeerData,
   active : Peer \cup {None}, changed : BOOLEAN, runs : Nat, before : Nat]

ASSUME SynchronizerAssumption ==
  /\ None \notin Peer \cup Behaviour
  /\ {ForkMaxLength, MinForkChunks, RetriesBeforeBlacklisted, OperationRetries}
       \subseteq Nat \ {0}
  /\ PinToInitialPeer \in BOOLEAN

VARIABLES
  history,    \* the chain of the node; the Coordinator changes it
  task,       \* the behaviour and the timer of the actor, None when idle
  syncBox,    \* the mailbox of the synchronizer
  coordBox,   \* the mailbox of the Coordinator
  asked,      \* asked[p]: the requests on their way to p
  blacklisted \* the peers whose connection was closed

\* The timer holds the behaviour too: the code to run again and its peers.
Idle == task = None

Stage == IF Idle THEN "Idle" ELSE task.stage

msg == Head(syncBox)

Received(kind) == syncBox # <<>> /\ msg.kind = kind /\ syncBox' = Tail(syncBox)

ToCoordinator(m) == coordBox' = Append(coordBox, m)

\* (Defect for mutation: newest first.)
LastTwoReversed(t) ==
  LET all == <<t.common>> \o t.ids IN Reverse(SubSeq(all, Len(all) - 1, Len(all)))

LastTwo(t) ==
  LET all == <<t.common>> \o t.ids IN SubSeq(all, Len(all) - 1, Len(all))

\* The requests a stage sends to p when it is entered.
Requests(t, p, missing) ==
  CASE t.stage = "GettingExtension" /\ p \in DOMAIN t.peers ->
         <<[kind |-> "GetSignatures", ids |-> t.ids]>>
    [] t.stage = "GettingExtensionTail" /\ p = t.active ->
         <<[kind |-> "GetSignatures", ids |-> Reverse(LastTwo(t))]>>
    [] t.stage = "GettingBlocks" /\ p = t.active ->
         [i \in DOMAIN Take(missing, MinForkChunks) |->
            [kind |-> "GetBlock", ids |-> <<missing[i]>>]]
    [] OTHER -> <<>>

Send(t, missing) ==
  asked' = [p \in Peer |-> IF p \in blacklisted' THEN <<>>
                           ELSE asked[p] \o Requests(t, p, missing)]

\* run: the old timer is cancelled, the stage entered, a new timer scheduled.
Run(t) ==
  /\ task' = [t EXCEPT !.before = Cardinality(DOMAIN forkBlocks')]
  /\ Send(t, MissingOf(forkIds', forkBlocks'))

Finish(result) ==
  /\ task' = None
  /\ ToCoordinator([kind |-> "SyncFinished", result |-> result])

\* PeerConnectionHandler.Blacklist: what was asked of these peers is lost.
Blacklist(ps) ==
  /\ blacklisted' = blacklisted \cup ps
  /\ asked' = [p \in Peer |-> IF p \in ps THEN <<>> ELSE asked[p]]

FinishUnsuccessfully(blamed) ==
  /\ Finish(None) /\ Blacklist(blamed) /\ UNCHANGED forkVars

SyncInit ==
  /\ ForkInit /\ task = None /\ syncBox = <<>> /\ coordBox = <<>>
  /\ asked = [p \in Peer |-> <<>>] /\ blacklisted = {}
-----------------------------------------------------------------------------
GetExtension ==
  /\ Idle /\ Received("GetExtension")
  /\ UNCHANGED <<history, forkVars, coordBox, blacklisted>>
  /\ Run([stage |-> "GettingExtension", common |-> None, ids |-> msg.ids,
          peers |-> [p \in DOMAIN msg.scores |->
                       [score |-> msg.scores[p], retries |-> 0]],
          active |-> None, changed |-> FALSE, runs |-> 1, before |-> 0])

\* blockIdsToStartDownload: the ids up to the first one the history lacks.
CommonLength(ids) ==
  Max({n \in 0..Len(ids) : \A i \in 1..n : Has(history, ids[i])})

Chunk(ids) == Take(ids, ForkMaxLength)

\* gotoGettingExtensionTail: ask for more ids, or start with those there are.
Continue(t, tail) ==
  LET ids == t.ids \o tail
      fork == Chunk(ids)
  IN  \/ /\ Len(ids) <= ForkMaxLength /\ tail # <<>>
         /\ UNCHANGED <<forkVars, coordBox, blacklisted>>
         /\ Run([t EXCEPT !.stage = "GettingExtensionTail", !.ids = ids, !.runs = 1])
      \/ /\ Len(ids) > ForkMaxLength \/ tail = <<>>
         /\ \E i \in DOMAIN fork : Has(history, fork[i])
         /\ FinishUnsuccessfully({t.active})
      \/ /\ Len(ids) > ForkMaxLength \/ tail = <<>>
         /\ \A i \in DOMAIN fork : ~Has(history, fork[i])
         /\ Initialize(fork, ScoreOf(history, t.common))
         /\ UNCHANGED <<coordBox, blacklisted>>
         /\ Run([t EXCEPT !.stage = "GettingBlocks", !.ids = <<>>, !.runs = 1])

\* The first answer to the request for an extension, from any of the peers.
ExtensionReceived ==
  /\ Stage = "GettingExtension"
  /\ Received("Signatures") /\ msg.from \in DOMAIN task.peers
  /\ LET n == CommonLength(msg.ids)
         common == msg.ids[n]
         tail == SubSeq(msg.ids, n + 1, Len(msg.ids))
         peers == IF PinToInitialPeer
                  THEN [p \in {msg.from} |-> task.peers[p]] ELSE task.peers
     IN  \/ n = 0 /\ FinishUnsuccessfully({})
         \/ n > 0 /\ tail = <<>> /\ FinishUnsuccessfully({})
         \/ /\ n > 0 /\ tail # <<>> /\ common \notin ToSet(task.ids)
            /\ FinishUnsuccessfully({msg.from})
         \/ /\ n > 0 /\ tail # <<>> /\ common \in ToSet(task.ids)
            /\ Continue([task EXCEPT !.common = common, !.ids = <<>>,
                                     !.peers = peers, !.active = msg.from], tail)
  /\ UNCHANGED history

Follows(overlap, ids) == ids # <<>> /\ Head(ids) = Last(overlap)

\* More ids from the active peer, overlapping with the last two there are.
TailReceived ==
  /\ Stage = "GettingExtensionTail"
  /\ Received("Signatures") /\ msg.from = task.active
  /\ LET overlap == LastTwo(task)
         follows == Follows(overlap, msg.ids)
         known == msg.ids # <<>> /\ Last(msg.ids) \in ToSet(task.ids)
     IN  \/ msg.ids = overlap /\ Continue(task, <<>>)
         \/ msg.ids # overlap /\ follows /\ Continue(task, Tail(msg.ids))
         \/ /\ msg.ids # overlap /\ ~follows /\ known
            /\ UNCHANGED <<task, forkVars, coordBox, asked, blacklisted>>
         \/ /\ msg.ids # overlap /\ ~follows /\ ~known
            /\ FinishUnsuccessfully({msg.from})
  /\ UNCHANGED history

\* A block of the fork arrives from the active peer for the first time.
ForkBlockReceived ==
  /\ Stage = "GettingBlocks"
  /\ Received("Block") /\ msg.from = task.active
  /\ msg.block \in ToSet(forkIds) \ DOMAIN forkBlocks
  /\ AddBlockToFork(msg.block, msg.from)
  /\ LET better == CumulativeBlockScore(forkIds, forkBlocks') > Score(history)
         count == Cardinality(DOMAIN forkBlocks')
         loaded == count = Len(forkIds)
         author == IF task.changed THEN None ELSE task.active
         fork == [common |-> task.common, ids |-> forkIds, from |-> author]
     IN  \/ /\ better /\ (count >= MinForkChunks \/ loaded)
            /\ Finish(fork) /\ UNCHANGED <<asked, blacklisted>>
         \/ /\ ~better /\ loaded
            /\ Finish(None) /\ Blacklist({author} \ {None})
         \/ /\ (better /\ count < MinForkChunks /\ ~loaded) \/ (~better /\ ~loaded)
            /\ UNCHANGED <<task, coordBox, asked, blacklisted>>
  /\ UNCHANGED history

\* A block of the fork arrives again: the next chunk may be asked for, but the
\* behaviour stays.
ForkBlockAgain ==
  /\ Stage = "GettingBlocks"
  /\ Received("Block") /\ msg.from = task.active
  /\ msg.block \in DOMAIN forkBlocks
  /\ UNCHANGED <<history, task, forkVars, coordBox, blacklisted>>
  /\ IF NumberOfBlocks - task.before >= MinForkChunks
     THEN Send(task, IdsWithoutBlock) ELSE UNCHANGED asked

\* Any other block is the Coordinator's.
OtherBlock ==
  /\ Received("Block")
  /\ Stage = "GettingBlocks" /\ msg.from = task.active => msg.block \notin ToSet(forkIds)
  /\ ToCoordinator([kind |-> "AddBlock", block |-> msg.block, from |-> msg.from])
  /\ UNCHANGED <<history, task, forkVars, asked, blacklisted>>

\* Messages no behaviour has a use for.
Ignored ==
  /\ \/ Received("GetExtension") /\ ~Idle
     \/ Received("TimeoutExceeded") /\ Idle
     \/ /\ Received("Signatures")
        /\ Stage = "GettingExtension" => msg.from \notin DOMAIN task.peers
        /\ Stage = "GettingExtensionTail" => msg.from # task.active
  /\ UNCHANGED <<history, task, forkVars, coordBox, asked, blacklisted>>
-----------------------------------------------------------------------------
(* Timeouts.  The message says what to run again; whether it is still the    *)
(* current behaviour is not looked at, only whether some timer is running.   *)

\* (Defect for mutation: the timeout that is happening is not counted.)
TooOftenBefore(t) == t.peers[t.active].retries >= RetriesBeforeBlacklisted

TooOften(t) == t.peers[t.active].retries + 1 >= RetriesBeforeBlacklisted

\* The peers left to ask: those with at least the score of the active one,
\* which is dropped itself after too many retries.
PeersLeft(t) ==
  LET retried == [t.peers EXCEPT ![t.active].retries = @ + 1]
      left == {p \in DOMAIN t.peers : /\ t.peers[p].score >= t.peers[t.active].score
                                      /\ p = t.active => ~TooOften(t)}
  IN  Restrict(retried, left)

\* The peer with the lowest score among the others, the active one if alone.
NextActive(t, peers) ==
  LET others == DOMAIN peers \ {t.active}
  IN  IF others = {} THEN DOMAIN peers
      ELSE {p \in others : \A q \in others : peers[p].score <= peers[q].score}

\* (Defect for mutation: the change is not noticed.)
AsBefore(t, p) == t.changed

ActiveChanged(t, p) == t.changed \/ p # t.active

Timeout ==
  /\ ~Idle /\ Received("TimeoutExceeded")
  /\ LET t == msg.task
         again == t.runs < OperationRetries /\ t.active # None
         blamed == IF again /\ PinToInitialPeer /\ TooOften(t) THEN {t.active} ELSE {}
     IN  \/ /\ again => DOMAIN PeersLeft(t) = {}
            /\ FinishUnsuccessfully(blamed)
         \/ /\ again
            /\ \E p \in NextActive(t, PeersLeft(t)) :
                 /\ blacklisted' = blacklisted \cup blamed
                 /\ UNCHANGED <<forkVars, coordBox>>
                 /\ Run([t EXCEPT !.peers = PeersLeft(t), !.active = p,
                                  !.changed = ActiveChanged(t, p), !.runs = @ + 1])
  /\ UNCHANGED history

\* (Defect for mutation: only the first run of an operation has a timer.)
FirstTimerFires ==
  /\ ~Idle /\ task.runs = 1
  /\ syncBox' = Append(syncBox, [kind |-> "TimeoutExceeded",
                                 task |-> [task EXCEPT !.before = 0]])
  /\ UNCHANGED <<history, task, forkVars, coordBox, asked, blacklisted>>

\* The scheduler delivers the message of the current timer.
TimerFires ==
  /\ ~Idle
  /\ syncBox' = Append(syncBox, [kind |-> "TimeoutExceeded",
                                 task |-> [task EXCEPT !.before = 0]])
  /\ UNCHANGED <<history, task, forkVars, coordBox, asked, blacklisted>>

Synchronize ==
  \/ GetExtension \/ ExtensionReceived \/ TailReceived
  \/ ForkBlockReceived \/ ForkBlockAgain \/ OtherBlock \/ Ignored \/ Timeout

syncVars == <<history, task, syncBox, coordBox, asked, blacklisted, forkVars>>
=============================================================================
