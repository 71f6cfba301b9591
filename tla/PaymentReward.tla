--------------------------- MODULE PaymentReward ---------------------------
(***************************************************************************)
(* services/payment_reward_service.py with the reward ledger of            *)
(* integrations/x402_client.py and the scores of ReputationAnalytics.      *)
(*                                                                         *)
(* process_transfer_reward is a coroutine.  It runs without yielding until *)
(* the sleep after a failed attempt of _process_with_retry (the x402       *)
(* client answers without suspending), so a call is one step up to its     *)
(* first failed attempt and one step per later attempt, and other calls    *)
(* run in between.  What it read before the sleep - the score, the breaker *)
(* and the cap - is not read again.                                        *)
(*                                                                         *)
(* Money is counted in a unit small enough for every reward to be whole.   *)
(* The clock of ReputationAnalytics is the clock of the service.  The      *)
(* client's history of payments is shared with the charges and the batches *)
(* of other callers (X402Client), and trimmed when it grows too long.      *)
(***************************************************************************)
EXTENDS ReputationAnalytics, Sequences, FiniteSets

CONSTANTS Tasks,          \* calls of process_transfer_reward; all may be in flight at once
          NoTime,         \* None, for a timestamp
          NoAgent,
          HasClient,      \* self._x402 is not None
          MaxRetries,     \* MAX_RETRIES, 3
          Threshold,      \* CIRCUIT_BREAKER_THRESHOLD, 5
          ResetSecs,      \* CIRCUIT_BREAKER_RESET_SECS, 60
          DailyCap,       \* daily_cap_usd
          MaxReward,      \* 10.0, the cap per transfer
          Multiplier,     \* score -> reputation multiplier, per unit of base reward
          BaseRewards,    \* transfer_amount * AGENT_FEE_PCT, inputs of the calls
          MaxAudit,       \* MAX_AUDIT_ENTRIES
          MaxLedger, KeepLedger,  \* 10_000 and 5_000, the limits of _payment_history
          NoTask,         \* for an entry of another caller
          MaxTime         \* bound on the clock

ASSUME RewardAssumption ==
    /\ IsFiniteSet(Tasks)
    /\ NoTime \notin Nat /\ NoAgent \notin Agents /\ NoTask \notin Tasks
    /\ HasClient \in BOOLEAN
    /\ MaxRetries \in Nat /\ MaxRetries >= 2
    /\ Threshold \in Nat \ {0} /\ ResetSecs \in Nat
    /\ DailyCap \in Nat /\ MaxReward \in Nat /\ MaxTime \in Nat
    /\ Multiplier \in [0 .. MaxScore -> Nat]
    /\ BaseRewards \subseteq Nat \ {0}
    /\ MaxAudit \in Nat
    /\ MaxLedger \in Nat /\ KeepLedger \in 1 .. MaxLedger - 1

VARIABLES state,        \* task -> "idle", "retrying", "paid", "failed", "circuit_open", "cap_reached"
          agentOf,      \* task -> the agent it rewards
          reward,       \* task -> the reward its amount and the score it read come to
          attempts,     \* task -> attempts made
          earned,       \* _daily_tracking[agent]["earned"]
          resetTs,      \* _daily_tracking[agent]["reset_ts"], NoTime when there is no entry
          failures,     \* _consecutive_failures
          circuitOpen,  \* _circuit_open
          openedAt,     \* _circuit_opened_at
          audit,        \* _audit_log
          ledger        \* _payment_history of the x402 client

callVars == <<state, agentOf, reward, attempts>>
dailyVars == <<earned, resetTs>>
breakerVars == <<failures, circuitOpen, openedAt>>
rewardVars == <<callVars, dailyVars, breakerVars, audit, ledger>>
vars == <<rewardVars, reputationVars, now>>

CallState == {"idle", "retrying", "paid", "failed", "circuit_open", "cap_reached"}
AuditEntry == [task : Tasks, agent : Agents, amount : Nat, status : {"success", "failed"}]
RewardEntry == [task : Tasks, agent : Agents, amount : Nat]
OtherEntry == [task |-> NoTask, agent |-> NoAgent, amount |-> 0]
LedgerEntry == RewardEntry \cup {OtherEntry}

TypeOK ==
    /\ ReputationTypeOK
    /\ state \in [Tasks -> CallState]
    /\ agentOf \in [Tasks -> Agents \cup {NoAgent}]
    /\ reward \in [Tasks -> 0 .. MaxReward]
    /\ attempts \in [Tasks -> 0 .. MaxRetries]
    /\ earned \in [Agents -> Nat]
    /\ resetTs \in [Agents -> Nat \cup {NoTime}]
    /\ failures \in Nat
    /\ circuitOpen \in BOOLEAN
    /\ openedAt \in Nat \cup {NoTime}
    /\ audit \in Seq(AuditEntry)
    /\ ledger \in Seq(LedgerEntry)

Init ==
    /\ ReputationInit
    /\ now = 0
    /\ state = [t \in Tasks |-> "idle"]
    /\ agentOf = [t \in Tasks |-> NoAgent]
    /\ reward = [t \in Tasks |-> 0]
    /\ attempts = [t \in Tasks |-> 0]
    /\ earned = [a \in Agents |-> 0]
    /\ resetTs = [a \in Agents |-> NoTime]
    /\ failures = 0
    /\ circuitOpen = FALSE
    /\ openedAt = NoTime
    /\ audit = <<>>
    /\ ledger = <<>>

-----------------------------------------------------------------------------
(* Parts of the handlers.                                                  *)

(* _is_circuit_open answers TRUE; an open breaker past its time is closed  *)
(* by the very call that asks.                                             *)
Blocked == circuitOpen /\ now < openedAt + ResetSecs

(* _check_daily_cap and _update_daily_tracking start a window when there   *)
(* is none or the old one is a day old.                                    *)
WindowOver(a) == IF resetTs[a] = NoTime THEN TRUE ELSE now >= resetTs[a] + Day

EarnedToday(a) == IF WindowOver(a) THEN 0 ELSE earned[a]

StartWindow(a) == [resetTs EXCEPT ![a] = IF WindowOver(a) THEN now ELSE @]

(* Mutant: room for one more reward at the cap.                            *)
HasRoomAtCap(a) == EarnedToday(a) <= DailyCap

HasRoom(a) == EarnedToday(a) < DailyCap

(* calculate_agent_payment and _calculate_local_reward compute the same.   *)
RewardFor(base, s) ==
    IF base * Multiplier[s] > MaxReward THEN MaxReward ELSE base * Multiplier[s]

(* _record_audit keeps the newer half of a log that grew too long.         *)
Appended(entry) ==
    LET longer == Append(audit, entry)
        kept == (MaxAudit + 1) \div 2
    IN  IF Len(longer) > MaxAudit
        THEN SubSeq(longer, Len(longer) - kept + 1, Len(longer))
        ELSE longer

(* The client keeps the newer part of a history that grew too long, of     *)
(* whosever payments it consists.                                          *)
Booked(entry) ==
    LET longer == Append(ledger, entry) IN
    IF Len(longer) > MaxLedger
    THEN SubSeq(longer, Len(longer) - KeepLedger + 1, Len(longer)) ELSE longer

(* The success branch, for a reward of amount x: the client has recorded   *)
(* the payment, the failures are forgotten - an open breaker stays open -  *)
(* and the reward is tracked, audited and turned into reputation, on top   *)
(* of the stored score s.                                                  *)
Pay(t, a, x, s) ==
    /\ state' = [state EXCEPT ![t] = "paid"]
    /\ ledger' = IF HasClient
                 THEN Booked([task |-> t, agent |-> a, amount |-> x])
                 ELSE ledger
    /\ earned' = [earned EXCEPT ![a] = EarnedToday(a) + x]
    /\ resetTs' = StartWindow(a)
    /\ failures' = 0
    /\ audit' = Appended([task |-> t, agent |-> a, amount |-> x, status |-> "success"])
    /\ RecordEventOn(a, s, SuccessDelta, 0)

-----------------------------------------------------------------------------
(* A call, up to its first suspension.                                     *)

RefusedByBreaker(t, a) ==
    /\ state[t] = "idle"
    /\ Blocked
    /\ state' = [state EXCEPT ![t] = "circuit_open"]
    /\ agentOf' = [agentOf EXCEPT ![t] = a]
    /\ UNCHANGED <<reward, attempts, dailyVars, breakerVars, audit, ledger, reputationVars, now>>

(* Past the breaker: an expired one is closed and forgets its failures.    *)
BreakerChecked ==
    /\ ~Blocked
    /\ circuitOpen' = FALSE
    /\ openedAt' = NoTime

RefusedByCap(t, a) ==
    /\ state[t] = "idle"
    /\ BreakerChecked
    /\ failures' = IF circuitOpen THEN 0 ELSE failures
    /\ ReadScore(a)
    /\ ~HasRoom(a)
    /\ earned' = [earned EXCEPT ![a] = EarnedToday(a)]
    /\ resetTs' = StartWindow(a)
    /\ state' = [state EXCEPT ![t] = "cap_reached"]
    /\ agentOf' = [agentOf EXCEPT ![t] = a]
    /\ UNCHANGED <<reward, attempts, audit, ledger, now>>

(* The reward is fixed by the score read now, whatever happens later.      *)
Admitted(t, a, base) ==
    /\ state[t] = "idle"
    /\ BreakerChecked
    /\ HasRoom(a)
    /\ agentOf' = [agentOf EXCEPT ![t] = a]
    /\ reward' = [reward EXCEPT ![t] = RewardFor(base, Summary(a))]
    /\ attempts' = [attempts EXCEPT ![t] = 1]

PaidAtOnce(t, a, base) ==
    /\ Admitted(t, a, base)
    /\ Pay(t, a, RewardFor(base, Summary(a)), AfterRead(a))
    /\ UNCHANGED now

(* The client raises or reports a failure; the call sleeps.                *)
FailedAtFirst(t, a, base) ==
    /\ HasClient
    /\ Admitted(t, a, base)
    /\ failures' = IF circuitOpen THEN 0 ELSE failures
    /\ ReadScore(a)
    /\ earned' = [earned EXCEPT ![a] = EarnedToday(a)]
    /\ resetTs' = StartWindow(a)
    /\ state' = [state EXCEPT ![t] = "retrying"]
    /\ UNCHANGED <<audit, ledger, now>>

-----------------------------------------------------------------------------
(* The later attempts, each after a sleep.                                 *)

RetryPaid(t) ==
    /\ state[t] = "retrying"
    /\ attempts[t] < MaxRetries
    /\ attempts' = [attempts EXCEPT ![t] = @ + 1]
    /\ Pay(t, agentOf[t], reward[t], score[agentOf[t]])
    /\ UNCHANGED <<agentOf, reward, circuitOpen, openedAt, now>>

(* Mutants: one attempt too many; a failure reported for a payment that    *)
(* the client has recorded.                                                *)
RetryFailedOnceMore(t) ==
    /\ state[t] = "retrying"
    /\ attempts[t] < MaxRetries
    /\ attempts' = [attempts EXCEPT ![t] = @ + 1]
    /\ UNCHANGED <<state, agentOf, reward, dailyVars, breakerVars, audit, ledger,
                   reputationVars, now>>

RetryFailedAfterPayment(t) ==
    /\ state[t] = "retrying"
    /\ attempts[t] + 1 < MaxRetries
    /\ attempts' = [attempts EXCEPT ![t] = @ + 1]
    /\ ledger' = Booked([task |-> t, agent |-> agentOf[t], amount |-> reward[t]])
    /\ UNCHANGED <<state, agentOf, reward, dailyVars, breakerVars, audit, reputationVars, now>>

RetryFailed(t) ==
    /\ state[t] = "retrying"
    /\ attempts[t] + 1 < MaxRetries
    /\ attempts' = [attempts EXCEPT ![t] = @ + 1]
    /\ UNCHANGED <<state, agentOf, reward, dailyVars, breakerVars, audit, ledger,
                   reputationVars, now>>

(* Count a call that failed for good, and trip the breaker at the          *)
(* threshold, also when it is open already.                                *)
CountFailure ==
    /\ failures' = failures + 1
    /\ IF failures + 1 >= Threshold
       THEN circuitOpen' = TRUE /\ openedAt' = now
       ELSE UNCHANGED <<circuitOpen, openedAt>>

(* The last attempt failed.                                                *)
GivenUp(t) ==
    /\ state[t] = "retrying"
    /\ attempts[t] + 1 = MaxRetries
    /\ attempts' = [attempts EXCEPT ![t] = MaxRetries]
    /\ state' = [state EXCEPT ![t] = "failed"]
    /\ CountFailure
    /\ audit' = Appended([task |-> t, agent |-> agentOf[t], amount |-> 0, status |-> "failed"])
    /\ UNCHANGED <<agentOf, reward, dailyVars, ledger, reputationVars, now>>

-----------------------------------------------------------------------------

(* A charge or a batch reward of another caller of the client.             *)
OthersPay ==
    /\ HasClient
    /\ ledger' = Booked(OtherEntry)
    /\ UNCHANGED <<callVars, dailyVars, breakerVars, audit, reputationVars, now>>

Tick ==
    /\ now < MaxTime
    /\ now' = now + 1
    /\ UNCHANGED <<rewardVars, reputationVars>>

Call(t, a) ==
    \/ RefusedByBreaker(t, a)
    \/ RefusedByCap(t, a)
    \/ \E base \in BaseRewards : PaidAtOnce(t, a, base) \/ FailedAtFirst(t, a, base)

Wake(t) == RetryPaid(t) \/ RetryFailed(t) \/ GivenUp(t)

Next ==
    \/ \E t \in Tasks : Wake(t) \/ \E a \in Agents : Call(t, a)
    \/ ReputationNext /\ UNCHANGED <<rewardVars, now>>
    \/ OthersPay
    \/ Tick

(* asyncio resumes every sleeping coroutine; nothing makes a user send.    *)
Spec == Init /\ [][Next]_vars /\ \A t \in Tasks : WF_vars(Wake(t))

-----------------------------------------------------------------------------
(* Safety.                                                                 *)

(* A closed breaker is below its threshold and has no opening time: the    *)
(* counter can reach the threshold only in the step that opens the breaker *)
(* and only the call that closes it clears both.                           *)
BreakerConsistent ==
    /\ ~circuitOpen => failures < Threshold /\ openedAt = NoTime
    /\ circuitOpen => openedAt \in 0 .. now

(* Every admitted call ends: paid, or failed after its last attempt.       *)
EveryCallSettles ==
    \A t \in Tasks : state[t] = "retrying" ~> state[t] \in {"paid", "failed"}

=============================================================================
