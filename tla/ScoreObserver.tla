---------------------------- MODULE ScoreObserver ----------------------------
(* The actor that keeps the last score of each peer for a while and tells    *)
(* the Coordinator when the best of them rises, or when it asks.             *)
EXTENDS Integers, SequencesExt, Functions

VARIABLES
  candidates,    \* peer -> [score, fresh]; not fresh: older than scoreTTL
  scoreRequests, \* GetScore messages of the Coordinator on their way
  considered     \* ConsideredValue messages on their way to the Coordinator

observerVars == <<candidates, scoreRequests, considered>>

ObserverInit == candidates = <<>> /\ scoreRequests = 0 /\ considered = <<>>

ClearOld(c) == Restrict(c, {p \in DOMAIN c : c[p].fresh})

MaxScore(c) == Max({0} \cup {c[p].score : p \in DOMAIN c})

ToConsider(c) == considered' = Append(considered, [p \in DOMAIN c |-> c[p].score])

\* (Defect for mutation: the Coordinator is told once, of the first score.)
FirstScore(old, new) == MaxScore(old) = 0 /\ MaxScore(new) > 0

Rises(old, new) == MaxScore(new) > MaxScore(old)

\* candidates + scoreToAdd.
Updated(old, new) ==
  [p \in DOMAIN old \cup DOMAIN new |-> IF p \in DOMAIN new THEN new[p] ELSE old[p]]

\* The maximum it compares with is that of the candidates before old ones go.
UpdateScore(new) ==
  /\ candidates' = Updated(ClearOld(candidates), new)
  /\ IF Rises(candidates, candidates') THEN ToConsider(candidates')
     ELSE UNCHANGED considered
  /\ UNCHANGED scoreRequests

ScoreReceived(p, score) == UpdateScore([q \in {p} |-> [score |-> score, fresh |-> TRUE]])

\* Every five seconds.
ClearTick == UpdateScore(<<>>)

GetScore ==
  /\ scoreRequests > 0 /\ scoreRequests' = scoreRequests - 1
  /\ candidates' = ClearOld(candidates)
  /\ ToConsider(candidates')

\* scoreTTL has passed since the last score of p.
Expire(p) ==
  /\ p \in DOMAIN candidates /\ candidates[p].fresh
  /\ candidates' = [candidates EXCEPT ![p].fresh = FALSE]
  /\ UNCHANGED <<scoreRequests, considered>>
=============================================================================
