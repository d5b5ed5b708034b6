-------------------------------- MODULE Node --------------------------------
(* A node among its peers: the Coordinator and the BlockchainSynchronizer    *)
(* exchange messages, peers answer requests in the order they come in, the   *)
(* miner offers blocks, and timers fire.  The scores of the peers may be     *)
(* reported at any time; ScoredNode has the actor that reports them.         *)
EXTENDS Coordinator

CONSTANTS
  PeerChain,    \* PeerChain[p]: the chain of p
  AnswerLength, \* AnswerLength[p]: how many ids p puts into an answer
  LocalChain,   \* the chain the node starts with
  Minable,      \* the blocks the miner may make
  MaxBox,       \* bound on the mailboxes
  MaxSessions,  \* bound on the downloads the Coordinator starts
  MaxTicks,     \* bound on the timers that fire although an answer is coming
  MaxLost       \* bound on the requests that are not answered

ASSUME NodeAssumption ==
  /\ \A c \in {LocalChain} \cup {PeerChain[p] : p \in Peer} :
       c \in Seq(Block) /\ c # <<>> /\ c[1] = Genesis /\ Linked(c)
  /\ AnswerLength \in [Peer -> Nat \ {0}]
  /\ Minable \subseteq Block /\ {MaxBox, MaxSessions, MaxTicks, MaxLost} \subseteq Nat

VARIABLES
  mined,     \* the blocks the miner has made
  sessions,  \* downloads the Coordinator asked for
  ticks,     \* timers that fired early
  lost       \* requests that were not answered

\* A timeout from before the fork storage was filled, handled after that, makes
\* the synchronizer go on with the former download on the fork of the present one.
VARIABLES
  older,     \* ghost: messages for the synchronizer from before it was filled
  mixed      \* ghost: whether two downloads have worked on this fork

counters == <<mined, sessions, ticks, lost>>

ghosts == <<older, mixed>>

nodeVars == <<syncVars, coordinatorVars, counters, ghosts>>

Init ==
  /\ SyncInit /\ CoordinatorInit
  /\ history = LocalChain /\ mined = {} /\ sessions = 0 /\ ticks = 0 /\ lost = 0
  /\ older = 0 /\ mixed = FALSE

HasRoom(box) == Len(box) < MaxBox

Answer(chain, p, request) ==
  CASE request.kind = "GetSignatures" ->
         LET ids == SignaturesAfter(chain, request.ids, AnswerLength[p])
         IN  IF ids = <<>> THEN {}
             ELSE {[kind |-> "Signatures", ids |-> ids, from |-> p]}
    [] request.kind = "GetBlock" ->
         {[kind |-> "Block", block |-> b, from |-> p] :
            b \in ToSet(request.ids) \cap ToSet(chain)}

\* A peer answers its next request, if it has an answer.
Reply(p) ==
  /\ asked[p] # <<>> /\ HasRoom(syncBox)
  /\ asked' = [asked EXCEPT ![p] = Tail(@)]
  /\ syncBox' = syncBox \o SetToSeq(Answer(PeerChain[p], p, Head(asked[p])))
  /\ UNCHANGED <<history, task, coordBox, blacklisted, forkVars,
                 coordinatorVars, counters, ghosts>>

\* A request, or the answer to it, is lost.
Lose(p) ==
  /\ asked[p] # <<>> /\ lost < MaxLost /\ lost' = lost + 1
  /\ asked' = [asked EXCEPT ![p] = Tail(@)]
  /\ UNCHANGED <<history, task, syncBox, coordBox, blacklisted, forkVars,
                 coordinatorVars, mined, sessions, ticks, ghosts>>

\* Nothing is on its way to the synchronizer.
Quiet == syncBox = <<>> /\ \A p \in Peer : asked[p] = <<>>

TimerTicks ==
  /\ TimerFires
  /\ \/ Quiet /\ UNCHANGED ticks
     \/ ~Quiet /\ HasRoom(syncBox) /\ ticks < MaxTicks /\ ticks' = ticks + 1
  /\ UNCHANGED <<coordinatorVars, mined, sessions, lost, ghosts>>

Scores(ps) == [p \in ps |-> Score(PeerChain[p])]

\* The scores of some of the peers; without a quorum nothing happens.
Consider(ps) ==
  /\ QuorumReached(Scores(ps))
  /\ sessions < MaxSessions /\ sessions' = sessions + 1
  /\ ConsideredValue(Scores(ps))
  /\ UNCHANGED <<mined, ticks, lost, ghosts>>

\* The miner makes a block on top of the chain it sees.
Mine(b) ==
  /\ b \in Minable \ mined /\ Ref[b] = Last(history) /\ HasRoom(coordBox)
  /\ mined' = mined \cup {b}
  /\ ToCoordinator([kind |-> "AddBlock", block |-> b, from |-> None])
  /\ UNCHANGED <<history, task, syncBox, asked, blacklisted, forkVars,
                 coordinatorVars, sessions, ticks, lost, ghosts>>

Fills == msg.kind = "Signatures" /\ Stage # "GettingBlocks" /\ Stage' = "GettingBlocks"

Resumes == msg.kind = "TimeoutExceeded" /\ ~Idle /\ Stage' = "GettingBlocks"

\* The synchronizer takes a message.
TakeNext ==
  /\ Synchronize
  /\ older' = IF Fills THEN Len(syncBox') ELSE IF older > 0 THEN older - 1 ELSE 0
  /\ mixed' = (~Fills /\ (mixed \/ (Resumes /\ older > 0)))

Next ==
  \/ TakeNext /\ UNCHANGED <<coordinatorVars, counters>>
  \/ Coordinate /\ UNCHANGED <<counters, ghosts>>
  \/ TimerTicks
  \/ \E p \in Peer : Reply(p) \/ Lose(p)
  \/ \E ps \in SUBSET Peer : Consider(ps)
  \/ \E b \in Block : Mine(b)

Spec == Init /\ [][Next]_nodeVars
-----------------------------------------------------------------------------
(* Properties *)

\* The data the synchronizer works on stays within its limits: an operation is
\* run at most OperationRetries times, a peer that is still asked has fewer
\* retries than get it blacklisted, the active peer is one of the peers, a fork
\* has at most ForkMaxLength ids, each once, and only its blocks are kept.
TaskOK(t) ==
  /\ t.stage \in {"GettingExtension", "GettingExtensionTail", "GettingBlocks"}
  /\ t.runs \in 1..OperationRetries
  /\ t.stage # "GettingExtension" =>
       /\ t.active \in DOMAIN t.peers /\ t.common \in Block
       /\ \A p \in DOMAIN t.peers : t.peers[p].retries < RetriesBeforeBlacklisted
  /\ t.stage = "GettingExtensionTail" => Len(t.ids) \in 1..ForkMaxLength

TypeOK ==
  /\ Idle \/ TaskOK(task)
  /\ Len(forkIds) <= ForkMaxLength /\ IsInjective(forkIds)
  /\ DOMAIN forkBlocks \subseteq ToSet(forkIds)
  /\ \A i \in DOMAIN coordBox : coordBox[i].kind \in {"AddBlock", "SyncFinished"}
  /\ history # <<>> /\ history[1] = Genesis
  /\ \A p \in blacklisted : asked[p] = <<>>
  /\ older \in 0..Len(syncBox) /\ mixed \in BOOLEAN

Forks == {coordBox[i].result : i \in {j \in DOMAIN coordBox :
            coordBox[j].kind = "SyncFinished" /\ coordBox[j].result # None}}

\* The synchronizer tells the Coordinator to apply f, on which one download has
\* worked.
HandsOver(f) ==
  /\ ~mixed /\ Len(coordBox') > Len(coordBox)
  /\ Last(coordBox').kind = "SyncFinished" /\ Last(coordBox').result = f

\* A fork the Coordinator is told to apply is a chain of blocks that starts
\* with a child of the common block: ids that came in several answers, and from
\* more than one peer, were joined without a gap (BlockchainSynchronizer,
\* gotoGettingExtensionTail).
ForkAttaches ==
  [][\A f \in Forks' : HandsOver(f) =>
       \A i \in DOMAIN f.ids :
         Ref[f.ids[i]] = IF i = 1 THEN f.common ELSE f.ids[i - 1]]_nodeVars

\* When a download ends with a fork, putting what has arrived of the fork in
\* place of the blocks after the common one makes the chain better, although
\* the score at the common block was taken when the download began and blocks
\* came in any order (BlockSeq.cumulativeBlockScore, gettingBlocks).
ForkBeatsChain ==
  [][\A f \in Forks' : HandsOver(f) /\ Has(history, f.common) =>
       Score(UpTo(history, f.common) \o PrefixOf(f.ids, forkBlocks')) > Score(history)]_nodeVars

\* A fork that names a peer, which is blacklisted if one of the blocks is
\* invalid, has no block that another peer sent (activeChanged in PeerSet).
AuthorSentAll ==
  [][\A f \in Forks' : HandsOver(f) /\ f.from # None =>
       \A b \in DOMAIN forkBlocks' : forkBlocks'[b] = f.from]_nodeVars

\* Applying a fork never leaves the node with a lower score than it had before
\* (Coordinator.processFork only warns of it).
ScoreKept ==
  [][applying # None /\ applying' = None => Score(history') >= scoreBefore]_nodeVars
=============================================================================
