-------------------------------- MODULE Mining --------------------------------
(* The mining actors.  BlockGeneratorController starts the miners, passes on *)
(* to them that there is a new last block, stops them, and checks their      *)
(* health; a Miner schedules an attempt for each account that may generate   *)
(* the next block, or one that repeats itself when no time is known.         *)
EXTENDS Integers, SequencesExt, FiniteSetsExt

CONSTANTS
  Worker,      \* the miners: as many as settings.mininigThreads
  Block,       \* the blocks that may be the last one
  Account,     \* the accounts of the wallet
  HasTime,     \* HasTime[b]: the accounts with a nextBlockGenerationTime on b
  None,
  MaxBox,      \* bound on the mailboxes
  MaxChanges,  \* bound on the changes of the last block
  MaxCommands, \* bound on the StartGeneration and StopGeneration messages
  MaxChecks,   \* bound on the health checks that are answered late or never
  MaxThrows    \* bound on the exceptions in a miner

ASSUME MiningAssumption ==
  /\ HasTime \in [Block -> SUBSET Account]
  /\ None \notin Account \cup Block
  /\ {MaxBox, MaxChanges, MaxCommands, MaxChecks, MaxThrows} \subseteq Nat

VARIABLES
  mode,      \* the behaviour of the controller: "syncing" or "generating"
  ctlBox,    \* its mailbox
  workers,   \* the miners it has created
  unborn,    \* those of them whose constructor has not run yet
  asking,    \* those that have not answered the health check in progress
  box,       \* box[w]: the mailbox of w
  current,   \* current[w]: the block and the number of its schedule, or None
  timers,    \* timers[w]: scheduled attempts [run, account]
  last,      \* the last block of the history
  told,      \* ghost: the last change of the last block was passed on
  counts     \* ghost: how often each bounded thing has happened

vars == <<mode, ctlBox, workers, unborn, asking, box, current, timers, last,
          told, counts>>

controllerVars == <<mode, ctlBox, workers, unborn, asking>>
minerVars == <<box, current, timers>>
chainVars == <<last, told>>

Plain(kind) == [kind |-> kind, repeat |-> FALSE]
GenerateBlock(repeat) == [kind |-> "GenerateBlock", repeat |-> repeat]

HasRoom(queue) == Len(queue) < MaxBox

WorkersHaveRoom == \A w \in workers : HasRoom(box[w])

Happens(what, bound) ==
  counts[what] < bound /\ counts' = [counts EXCEPT ![what] = @ + 1]
-----------------------------------------------------------------------------
Init ==
  /\ mode = "syncing" /\ ctlBox = <<"StartGeneration">>
  /\ workers = {} /\ unborn = {} /\ asking = {}
  /\ box = [w \in Worker |-> <<>>]
  /\ current = [w \in Worker |-> None] /\ timers = [w \in Worker |-> {}]
  /\ last \in Block /\ told = TRUE
  /\ counts = [changes |-> 0, commands |-> 0, checks |-> 0, throws |-> 0]

(* BlockGeneratorController *)

Took(kind) ==
  /\ ctlBox # <<>> /\ Head(ctlBox) = kind /\ ctlBox' = Tail(ctlBox)
  /\ WorkersHaveRoom

TellWorkers(messages) ==
  box' = [w \in Worker |-> IF w \in workers THEN box[w] \o messages ELSE box[w]]

StartGeneration ==
  /\ mode = "syncing" /\ Took("StartGeneration")
  /\ mode' = "generating" /\ TellWorkers(<<Plain("GuessABlock")>>)
  /\ UNCHANGED <<workers, unborn, asking, current, timers, chainVars, counts>>

StopGeneration ==
  /\ mode = "generating" /\ Took("StopGeneration")
  /\ mode' = "syncing" /\ TellWorkers(<<Plain("Stop")>>)
  /\ UNCHANGED <<workers, unborn, asking, current, timers, chainVars, counts>>

EnforceMiners ==
  /\ mode = "generating" /\ Took("GuessABlock")
  /\ TellWorkers(<<Plain("GuessABlock")>>)
  /\ UNCHANGED <<mode, workers, unborn, asking, current, timers, chainVars, counts>>

\* While syncing, the check stops the miners, once as workers and once more as
\* children, which are the same.
CheckSyncing ==
  /\ mode = "syncing" /\ Took("CheckWorkers")
  /\ TellWorkers(<<Plain("Stop"), Plain("Stop")>>)
  /\ UNCHANGED <<mode, workers, unborn, asking, current, timers, chainVars, counts>>

\* While generating, it asks the miners whether they are alive, and creates
\* those that are missing.  An ask has ended when the next check begins.
CheckGenerating ==
  /\ mode = "generating" /\ Took("CheckWorkers") /\ asking = {}
  /\ TellWorkers(<<Plain("HealthCheck")>>)
  /\ asking' = workers /\ workers' = Worker
  /\ unborn' = unborn \cup (Worker \ workers)
  /\ UNCHANGED <<mode, current, timers, chainVars, counts>>

\* Messages the behaviour has no use for.
ControllerIgnores ==
  /\ \/ mode = "syncing" /\ \E kind \in {"StopGeneration", "GuessABlock"} : Took(kind)
     \/ mode = "generating" /\ Took("StartGeneration")
  /\ UNCHANGED <<mode, workers, unborn, asking, minerVars, chainVars, counts>>

\* The answer does not come in time: the miner is told to stop, which does not
\* end it.
HealthCheckFails(w) ==
  /\ w \in asking /\ asking' = asking \ {w} /\ HasRoom(box[w])
  /\ Happens("checks", MaxChecks)
  /\ box' = [box EXCEPT ![w] = Append(@, Plain("Stop"))]
  /\ UNCHANGED <<mode, ctlBox, workers, unborn, current, timers, chainVars>>

Controller ==
  \/ StartGeneration \/ StopGeneration \/ EnforceMiners
  \/ CheckSyncing \/ CheckGenerating \/ ControllerIgnores
-----------------------------------------------------------------------------
(* Miner *)

Received(w, kind) ==
  /\ w \in workers \ unborn
  /\ box[w] # <<>> /\ Head(box[w]).kind = kind

\* The constructor sends the first GuessABlock; messages may be there already.
Construct(w) ==
  /\ w \in unborn /\ unborn' = unborn \ {w}
  /\ box' = [box EXCEPT ![w] = Append(@, Plain("GuessABlock"))]
  /\ UNCHANGED <<mode, ctlBox, workers, asking, current, timers, chainVars, counts>>

\* stop() cancels the timers of the current schedule.
Remaining(w) ==
  {t \in timers[w] : current[w] = None \/ t.run # current[w].run}

\* A number no scheduled attempt has.
FreshRun(kept) == Min((1..Cardinality(kept) + 1) \ {t.run : t \in kept})

\* scheduleBlockGeneration, with the timers that are still there.
Schedule(w, kept) ==
  LET run == FreshRun(kept)
      accounts == IF HasTime[last] = {} THEN {None} ELSE HasTime[last]
  IN  /\ timers' = [timers EXCEPT ![w] =
                      kept \cup {[run |-> run, account |-> a] : a \in accounts}]
      /\ current' = [current EXCEPT ![w] = [block |-> last, run |-> run]]

\* (Defect for mutation: any schedule will do.)
ScheduledAtAll(w) == current[w] # None

AlreadyScheduled(w) == current[w] # None /\ current[w].block = last

GuessABlock(w) ==
  /\ Received(w, "GuessABlock") /\ box' = [box EXCEPT ![w] = Tail(@)]
  /\ IF AlreadyScheduled(w) THEN UNCHANGED <<current, timers>>
     ELSE Schedule(w, Remaining(w))
  /\ UNCHANGED <<controllerVars, chainVars, counts>>

\* (Defect for mutation: a miner that was stopped goes on.)
AlwaysRepeats(w) == TRUE

Repeats(w) == current[w] # None

\* An attempt.  A block it finds reaches the Coordinator like one of a peer; one
\* that repeats is scheduled again, unless the miner was stopped.
TryToGenerate(w) ==
  /\ Received(w, "GenerateBlock") /\ box' = [box EXCEPT ![w] = Tail(@)]
  /\ IF Head(box[w]).repeat /\ Repeats(w) THEN Schedule(w, timers[w])
     ELSE UNCHANGED <<current, timers>>
  /\ UNCHANGED <<controllerVars, chainVars, counts>>

\* The answer may come so late that the controller sends a GuessABlock for it.
HealthCheck(w) ==
  /\ Received(w, "HealthCheck") /\ asking' = asking \ {w}
  /\ \/ box' = [box EXCEPT ![w] = Tail(@)] /\ UNCHANGED counts
     \/ /\ w \in asking /\ Happens("checks", MaxChecks)
        /\ box' = [box EXCEPT ![w] = Append(Tail(@), Plain("GuessABlock"))]
  /\ UNCHANGED <<mode, ctlBox, workers, unborn, current, timers, chainVars>>

Stop(w) ==
  /\ Received(w, "Stop") /\ box' = [box EXCEPT ![w] = Tail(@)]
  /\ timers' = [timers EXCEPT ![w] = Remaining(w)]
  /\ current' = [current EXCEPT ![w] = None]
  /\ UNCHANGED <<controllerVars, chainVars, counts>>

\* Reading the last block throws, or, after stop(), reading a generation time: the
\* miner is restarted without its state, and its constructor runs again.  Timers
\* that were not cancelled stay.
Throws(w) ==
  /\ \/ Received(w, "GuessABlock")
     \/ Received(w, "GenerateBlock") /\ Head(box[w]).repeat /\ Repeats(w)
  /\ Happens("throws", MaxThrows)
  /\ \/ UNCHANGED timers
     \/ /\ Received(w, "GuessABlock") /\ ~AlreadyScheduled(w)
        /\ timers' = [timers EXCEPT ![w] = Remaining(w)]
  /\ box' = [box EXCEPT ![w] = Append(Tail(@), Plain("GuessABlock"))]
  /\ current' = [current EXCEPT ![w] = None]
  /\ UNCHANGED <<controllerVars, chainVars>>

Mine(w) == GuessABlock(w) \/ TryToGenerate(w) \/ HealthCheck(w) \/ Stop(w)

\* An attempt is made before the next one is due: they are blockGenerationDelay
\* or more apart.
Waiting(w) == \E i \in DOMAIN box[w] : box[w][i].kind = "GenerateBlock"

TimerFires(w) ==
  /\ ~Waiting(w)
  /\ \E t \in timers[w] :
       /\ timers' = [timers EXCEPT ![w] = @ \ {t}]
       /\ box' = [box EXCEPT ![w] = Append(@, GenerateBlock(t.account = None))]
  /\ UNCHANGED <<controllerVars, current, chainVars, counts>>
-----------------------------------------------------------------------------
(* What the miners depend on. *)

Sent(kind) == HasRoom(ctlBox) /\ ctlBox' = Append(ctlBox, kind)

\* StartGeneration is sent by the Coordinator when it is created; the tests send
\* both.
Command ==
  /\ Happens("commands", MaxCommands)
  /\ \E kind \in {"StartGeneration", "StopGeneration"} : Sent(kind)
  /\ UNCHANGED <<mode, workers, unborn, asking, minerVars, chainVars>>

CheckWorkersTick ==
  /\ "CheckWorkers" \notin ToSet(ctlBox) /\ Sent("CheckWorkers")
  /\ UNCHANGED <<mode, workers, unborn, asking, minerVars, chainVars, counts>>

\* The Coordinator appends a block of a miner or of a peer, and says so.
AddBlock(b) ==
  /\ b # last /\ last' = b /\ told' = TRUE
  /\ Happens("changes", MaxChanges) /\ Sent("GuessABlock")
  /\ UNCHANGED <<mode, workers, unborn, asking, minerVars>>

\* It puts a fork in place of the end of the chain, and does not say so.
ProcessFork(b) ==
  /\ b # last /\ last' = b /\ told' = FALSE
  /\ Happens("changes", MaxChanges)
  /\ UNCHANGED <<controllerVars, minerVars>>

Next ==
  \/ Controller \/ Command \/ CheckWorkersTick
  \/ \E w \in Worker :
       Construct(w) \/ Mine(w) \/ Throws(w) \/ TimerFires(w) \/ HealthCheckFails(w)
  \/ \E b \in Block : AddBlock(b) \/ ProcessFork(b)

\* Actors take their messages, timers fire and the check comes again and again.
\* The fairness of the controller is strong since a full mailbox of a miner, which
\* the code does not have, may stop it for a while.
Fairness ==
  /\ SF_vars(Controller) /\ WF_vars(CheckWorkersTick)
  /\ \A w \in Worker :
       WF_vars(Construct(w)) /\ WF_vars(Mine(w)) /\ WF_vars(TimerFires(w))

Spec == Init /\ [][Next]_vars /\ Fairness
-----------------------------------------------------------------------------
(* Properties *)

Attempts(w) == timers[w] # {} \/ Waiting(w)

\* When the controller goes back to syncing for good, in the end no miner makes
\* an attempt, whatever was in the mailboxes, was scheduled twice or restarted
\* (BlockGeneratorController, syncing).
StopsInTheEnd ==
  <>[](mode = "syncing") => <>[](\A w \in Worker : ~Attempts(w))

\* While blocks are generated, each miner comes to have a schedule for the last
\* block, if the change to that block was passed on and no health check went
\* wrong (Coordinator, processSingleBlock; Miner, receive).
KeepsUp ==
  <>[](mode = "generating" /\ told /\ counts.checks = 0) =>
    <>[](\A w \in Worker : current[w] # None /\ current[w].block = last)

\* MinerSpecification: after a Stop nothing is offered, that is, a miner that
\* was stopped and has no messages has no attempt scheduled.
SilentAfterStop ==
  \A w \in Worker : box[w] = <<>> /\ current[w] = None => timers[w] = {}
=============================================================================
