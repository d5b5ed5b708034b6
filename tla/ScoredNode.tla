----------------------------- MODULE ScoredNode -----------------------------
(* The node with its ScoreObserver: the scores of the connected peers come   *)
(* in again and again, and each download ends in a GetScore, whose answer    *)
(* may start the next one.  A peer that is blacklisted is heard no more.     *)
EXTENDS Node, ScoreObserver

CONSTANT Overtakes  \* a download may fill the fork storage before the
                    \* Coordinator has taken the last fork from it

ASSUME ScoredNodeAssumption == Overtakes \in BOOLEAN

scoredVars == <<nodeVars, observerVars>>

Connected(p) == p \notin blacklisted

ScoredInit == Init /\ ObserverInit

PeerScore(p) ==
  /\ Connected(p) /\ HasRoom(considered)
  /\ ScoreReceived(p, Score(PeerChain[p])) /\ UNCHANGED nodeVars

ObserverTick == ClearTick /\ HasRoom(considered) /\ UNCHANGED nodeVars

ScoreAsked == GetScore /\ HasRoom(considered) /\ UNCHANGED nodeVars

\* Connected peers send their score far more often than it expires.
ScoreExpires(p) == ~Connected(p) /\ Expire(p) /\ UNCHANGED nodeVars

\* The Coordinator takes the scores it was sent.
TakeConsidered ==
  /\ considered # <<>> /\ considered' = Tail(considered)
  /\ ConsideredValue(Head(considered))
  /\ UNCHANGED <<counters, ghosts, candidates, scoreRequests>>

\* The end of a download asks for the scores, whatever its result.
TakeMessage ==
  /\ \/ SyncFinished /\ scoreRequests' = scoreRequests + 1
     \/ (AddBlock \/ ForkEnds \/ ForkBlockApplied \/ ForkBlockFails) /\ UNCHANGED scoreRequests
  /\ UNCHANGED <<counters, ghosts, candidates, considered>>

SynchronizerStep ==
  /\ TakeNext
  /\ Overtakes \/ (applying = None /\ Forks = {}) \/ UNCHANGED forkVars
  /\ UNCHANGED <<coordinatorVars, counters, observerVars>>

PeerReplies(p) == Reply(p) /\ UNCHANGED observerVars

TimerStep == TimerTicks /\ UNCHANGED observerVars

ScoredNext ==
  \/ SynchronizerStep \/ TakeMessage \/ TakeConsidered \/ TimerStep
  \/ ScoreAsked \/ ObserverTick
  \/ \E p \in Peer : PeerReplies(p) \/ PeerScore(p) \/ ScoreExpires(p)
  \/ \E p \in Peer : Lose(p) /\ UNCHANGED observerVars
  \/ \E b \in Block : Mine(b) /\ UNCHANGED observerVars

\* Actors take their messages, timers fire, connected peers answer and send
\* their score every two seconds, and a score that is not renewed gets old.
Fairness ==
  /\ WF_scoredVars(SynchronizerStep) /\ WF_scoredVars(TakeMessage)
  /\ WF_scoredVars(TakeConsidered) /\ WF_scoredVars(TimerStep)
  /\ WF_scoredVars(ScoreAsked) /\ WF_scoredVars(ObserverTick)
  /\ \A p \in Peer :
       /\ WF_scoredVars(PeerReplies(p)) /\ WF_scoredVars(PeerScore(p))
       /\ WF_scoredVars(ScoreExpires(p))

ScoredSpec == ScoredInit /\ [][ScoredNext]_scoredVars /\ Fairness
-----------------------------------------------------------------------------
(* Properties *)

\* Every download ends: answers, retries and timeouts bring the synchronizer
\* back to idle, from any stage (BlockchainSynchronizer, handleTimeout).
DownloadsEnd == []<>Idle

\* In the end fewer connected peers than make a quorum have a better chain
\* than the node, although the ScoreObserver reports only a rise of the maximum,
\* and the synchronizer ignores a request while it is busy (ScoreObserver,
\* UpdateScore; Coordinator, ConsideredValue).
BetterPeers == {p \in Peer : Connected(p) /\ Score(PeerChain[p]) > Score(history)}

QuorumPrevails == <>[](Cardinality(BetterPeers) < ForkResolveQuorumSize)

\* The chain with the maximum score of all becomes that of the node: no peer
\* that has it is given up (BlockchainSynchronizer, gettingBlocks).
CanonicalChain ==
  <>[](\A p \in Peer : Score(PeerChain[p]) <= Score(history))
=============================================================================
