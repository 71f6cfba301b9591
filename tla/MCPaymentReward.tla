-------------------------- MODULE MCPaymentReward --------------------------
(* PaymentReward on small instances.  The thresholds of the five tiers are *)
(* brought within a few successes of one another.  The scores are also     *)
(* explored by themselves, with events of other callers, and so is the     *)
(* paying of services, which shares only the client object.  The history   *)
(* variables observe the steps and restrict none of them.                  *)
EXTENDS PaymentReward, X402Client

CONSTANT MaxOthers  \* bound on the payments of others

VARIABLES focus,  \* calls and reads of the service, scores or charges by themselves
          base,   \* history: the score as the last event left it
          peak,   \* history: agent -> the most calls of its asleep at once in its window
          booked  \* history: the entries due to the client's history, oldest first

historyVars == <<peak, booked>>
mcVars == <<vars, chargeVars, focus, base, historyVars>>

(* Calls admitted for an agent that can still be paid.                     *)
InFlight(a) == {t \in Tasks : state[t] = "retrying" /\ agentOf[t] = a}

HistoryInit ==
    /\ peak = [a \in Agents |-> 0]
    /\ booked = <<>>

NewlyPaid(t) == state[t] # "paid" /\ state'[t] = "paid"

(* Each call is booked when it is paid, with what its admission fixed; any *)
(* other change of the ledger should be a payment of somebody else.        *)
HistoryStep ==
    /\ peak' = [a \in Agents |->
                  LET n == Cardinality(InFlight(a)') IN
                  IF resetTs'[a] # resetTs[a] \/ n > peak[a] THEN n ELSE peak[a]]
    /\ IF HasClient /\ \E t \in Tasks : NewlyPaid(t)
       THEN \E t \in Tasks :
               /\ NewlyPaid(t)
               /\ booked' = Append(booked, [task |-> t, agent |-> agentOf'[t],
                                            amount |-> reward'[t]])
       ELSE booked' = IF ledger' = ledger THEN booked ELSE Append(booked, OtherEntry)

(* The service and its history, with nothing left out or bounded.          *)
HistorySpec ==
    Init /\ HistoryInit /\ [][Next /\ HistoryStep]_<<vars, historyVars>>

MCMultiplier == [s \in 0 .. MaxScore |-> IF s >= StartScore THEN 2 ELSE 1]

MCInit ==
    /\ Init /\ ChargeInit /\ HistoryInit
    /\ focus \in {"calls", "scores", "charges"}
    /\ base = [a \in Agents |-> Unknown]

(* Without the events of other callers, and few payments of theirs.        *)
Calls ==
    /\ focus = "calls"
    /\ Next /\ HistoryStep
    /\ Len(SelectSeq(booked', LAMBDA e : e = OtherEntry)) <= MaxOthers
    /\ rewardVars' = rewardVars => /\ lastUpdated' = lastUpdated
                                   /\ \A a \in Agents : Inactive(a) <= Day => score'[a] = score[a]
    /\ UNCHANGED <<base, chargeVars>>

(* Whatever happens at the instant of an event counts as that event.       *)
Scores ==
    /\ focus = "scores"
    /\ UNCHANGED <<chargeVars, historyVars>>
    /\ \/ /\ ReputationNext
          /\ base' = [a \in Agents |-> IF lastUpdated'[a] = now THEN score'[a] ELSE base[a]]
          /\ UNCHANGED <<rewardVars, now>>
       \/ Tick /\ UNCHANGED base

Charges == focus = "charges" /\ ChargeNext /\ UNCHANGED <<vars, base, historyVars>>

MCNext == UNCHANGED focus /\ (Calls \/ Scores \/ Charges)

MCSpec == MCInit /\ [][MCNext]_mcVars /\ \A t \in Tasks : WF_vars(Wake(t))

(* The cap is checked before the sleep and not clamped after it, so it can *)
(* be overrun: by less than one greatest reward for the payment that       *)
(* crosses it and one for each of the agent's calls that were asleep at    *)
(* once in the window, however many calls come in a day.                   *)
CapOverrunBounded ==
    DailyCap > 0 =>
        \A a \in Agents :
            earned[a] + MaxReward * Cardinality(InFlight(a))
                < DailyCap + MaxReward * (1 + peak[a])

(* A retry never pays twice and no attempt reported as failed has paid:    *)
(* the client's history is the newest part of what was due to it, all of   *)
(* it or at least as much as it keeps, each call in it once and with the   *)
(* agent and the amount fixed at its admission.                            *)
LedgerMatchesCalls ==
    /\ IsSuffix(ledger, booked)
    /\ Len(ledger) <= MaxLedger
    /\ Len(ledger) < Len(booked) => Len(ledger) >= KeepLedger
    /\ \A i \in DOMAIN ledger :
          LET t == ledger[i].task IN
          t # NoTask => /\ state[t] = "paid"
                        /\ ledger[i].agent = agentOf[t] /\ ledger[i].amount = reward[t]
                        /\ \A j \in DOMAIN ledger : ledger[j].task = t => i = j

(* Within a day of an event nothing is lost, however often the score is    *)
(* read; later a score only falls until the next event.                    *)
DecayNeedsInactivity ==
    focus = "scores" => \A a \in Agents :
        score[a] # Unknown =>
            /\ score[a] <= base[a]
            /\ Inactive(a) <= Day => score[a] = base[a]

=============================================================================
