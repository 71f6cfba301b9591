------------------------ MODULE ReputationAnalytics ------------------------
(***************************************************************************)
(* services/reputation_analytics.py: one score per agent, moved by events  *)
(* and decayed by inactivity.  Reading a score is not free of effects: the *)
(* decay is written back by every read, while last_updated stays where the *)
(* last event put it.                                                      *)
(*                                                                         *)
(* Scores are integers in the unit the instance chooses, and a decay is    *)
(* truncated to it.  The per-agent history list, which get_trend and       *)
(* detect_fraud read, is left out.                                         *)
(***************************************************************************)
EXTENDS Naturals

CONSTANTS Agents,
          MaxScore,       \* MAX_REPUTATION, 100
          StartScore,     \* 50.0, the score of an agent with no event yet
          SuccessDelta,   \* 1.0, the delta of a rewarded transfer
          Deltas,         \* score deltas of the events of other callers
          Day,            \* 86_400 seconds
          DecayDivisor,   \* Day / REPUTATION_DECAY_RATE: the loss is inactivity * score / DecayDivisor
          Unknown         \* an agent not in _scores

ASSUME ScoreAssumption ==
    /\ MaxScore \in Nat /\ StartScore \in 0 .. MaxScore /\ SuccessDelta \in Nat
    /\ Deltas \subseteq Nat
    /\ Day \in Nat \ {0} /\ DecayDivisor \in Nat \ {0}
    /\ Unknown \notin Nat

VARIABLES score,        \* _scores[agent]["score"], Unknown before the first event
          lastUpdated,  \* _scores[agent]["last_updated"]
          now           \* time.time()

reputationVars == <<score, lastUpdated>>

ReputationTypeOK ==
    /\ score \in [Agents -> (0 .. MaxScore) \cup {Unknown}]
    /\ lastUpdated \in [Agents -> Nat]
    /\ now \in Nat

ReputationInit ==
    /\ score = [a \in Agents |-> Unknown]
    /\ lastUpdated = [a \in Agents |-> 0]

-----------------------------------------------------------------------------

Inactive(a) == now - lastUpdated[a]

(* _apply_decay on a stored score s: nothing for the first day, then a     *)
(* loss linear in the whole inactivity; never below MIN_REPUTATION.        *)
Loss(a, s) == (Inactive(a) * s) \div DecayDivisor

(* Mutant: no grace of one day.                                            *)
AfterDecayAtOnce(a, s) == IF Loss(a, s) > s THEN 0 ELSE s - Loss(a, s)

AfterDecay(a, s) ==
    IF Inactive(a) <= Day THEN s ELSE IF Loss(a, s) > s THEN 0 ELSE s - Loss(a, s)

(* get_summary: what it leaves stored, and the score it answers.           *)
AfterRead(a) == IF score[a] = Unknown THEN Unknown ELSE AfterDecay(a, score[a])
Summary(a) == IF score[a] = Unknown THEN 0 ELSE AfterRead(a)
ReadScore(a) == score' = [score EXCEPT ![a] = AfterRead(a)] /\ UNCHANGED lastUpdated

(* record_event on the stored score s: an agent's first event starts from  *)
(* 50; a later one decays what it finds, a second time if a read of the    *)
(* same call has decayed it already.                                       *)
EventBase(a, s) == IF s = Unknown THEN StartScore ELSE AfterDecay(a, s)

Clamped(s) == IF s > MaxScore THEN MaxScore ELSE s

RecordEventOn(a, s, up, down) ==
    /\ score' = [score EXCEPT
                   ![a] = IF down > EventBase(a, s) + up THEN 0
                          ELSE Clamped(EventBase(a, s) + up - down)]
    /\ lastUpdated' = [lastUpdated EXCEPT ![a] = now]

RecordEvent(a, up, down) == RecordEventOn(a, score[a], up, down)

(* get_summary, get_pricing_modifier, select_best_agent and                *)
(* get_agent_earnings read the score of an agent at any time; other        *)
(* callers record events of their own.                                     *)
ReputationNext ==
    \E a \in Agents :
        \/ ReadScore(a)
        \/ \E d \in Deltas : RecordEvent(a, d, 0) \/ RecordEvent(a, 0, d)

=============================================================================
