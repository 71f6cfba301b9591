------------------------ MODULE PaymentRewardProofs ------------------------
(***************************************************************************)
(* Theorems of PaymentReward, of ReputationAnalytics with the history of   *)
(* MCPaymentReward, and of X402Client, for every number of concurrent      *)
(* calls and charges, every threshold, cap, retry count, window and tier   *)
(* table.                                                                  *)
(***************************************************************************)
EXTENDS MCPaymentReward, FiniteSetTheorems, SequenceTheorems,
        WellFoundedInduction, TLAPS

USE ScoreAssumption, RewardAssumption

(* Calls that sleep have an agent and an attempt left: what the retry      *)
(* steps rely on.                                                          *)
CallsWellFormed ==
    \A t \in Tasks : state[t] = "retrying" => agentOf[t] \in Agents /\ attempts[t] < MaxRetries

TypeInv == TypeOK /\ CallsWellFormed

LEMMA ProductIsNat ==
    ASSUME NEW m \in Nat, NEW n \in Nat
    PROVE  m * n \in Nat
OBVIOUS

LEMMA DivisionIsNat ==
    ASSUME NEW m \in Nat, NEW n \in Nat \ {0}
    PROVE  m \div n \in Nat
OBVIOUS

-----------------------------------------------------------------------------
(* Ends of sequences, for the logs that keep their newer part.             *)

(* s is the end of t.                                                      *)
Ends(s, t) ==
    \E d \in Nat : /\ Len(t) = Len(s) + d
                   /\ \A i \in 1 .. Len(s) : s[i] = t[d + i]

LEMMA SequenceFacts ==
    ASSUME NEW D, NEW s \in Seq(D)
    PROVE  Len(s) \in Nat /\ DOMAIN s = 1 .. Len(s) /\ \A i \in 1 .. Len(s) : s[i] \in D
OBVIOUS

LEMMA Appending ==
    ASSUME NEW D, NEW s \in Seq(D), NEW e \in D
    PROVE  /\ Append(s, e) \in Seq(D) /\ Len(Append(s, e)) = Len(s) + 1
           /\ DOMAIN Append(s, e) = 1 .. Len(s) + 1
           /\ \A i \in 1 .. Len(s) : Append(s, e)[i] = s[i]
           /\ Append(s, e)[Len(s) + 1] = e
           /\ \A i \in 1 .. Len(s) + 1 : Append(s, e)[i] \in D
<1> DEFINE t == Append(s, e)
<1>1. /\ t \in Seq(D) /\ Len(t) = Len(s) + 1 /\ t[Len(s) + 1] = e
      /\ \A i \in 1 .. Len(s) : t[i] = s[i]
  BY AppendProperties
<1> HIDE DEF t
<1>2. DOMAIN t = 1 .. Len(t) /\ \A i \in 1 .. Len(t) : t[i] \in D
  BY <1>1, SequenceFacts
<1> QED BY <1>1, <1>2 DEF t

(* The k newest entries of a sequence.                                     *)
LEMMA NewestEnds ==
    ASSUME NEW D, NEW s \in Seq(D), NEW k \in Nat, k <= Len(s)
    PROVE  /\ SubSeq(s, Len(s) - k + 1, Len(s)) \in Seq(D)
           /\ Len(SubSeq(s, Len(s) - k + 1, Len(s))) = k
           /\ Ends(SubSeq(s, Len(s) - k + 1, Len(s)), s)
<1> DEFINE n == Len(s)
           m == n - k + 1
           part == SubSeq(s, m, n)
<1>1. n \in Nat /\ \A i \in 1 .. n : s[i] \in D
  BY SequenceFacts
<1> HIDE DEF n
<1>2. m \in Int /\ m >= 1 /\ n - m + 1 = k /\ (m <= n <=> k # 0) /\ n = k + (m - 1)
      /\ m - 1 \in Nat
  BY <1>1 DEF n
<1> HIDE DEF m
<1>3. \A i \in m .. n : s[i] \in D
  BY <1>1, <1>2
<1>4. /\ part \in Seq(D) /\ Len(part) = IF m <= n THEN n - m + 1 ELSE 0
      /\ \A i \in 1 .. n - m + 1 : part[i] = s[m + i - 1]
  <2>1. m \in Int /\ n \in Int
    BY <1>1, <1>2
  <2> QED BY <1>3, <2>1, SubSeqProperties
<1> HIDE DEF part
<1>5. Len(part) = k
  BY <1>2, <1>4
<1>6. ASSUME NEW i \in 1 .. k PROVE part[i] = s[(m - 1) + i]
  <2>1. i \in 1 .. n - m + 1 /\ m + i - 1 = (m - 1) + i
    BY <1>2
  <2> QED BY <1>4, <2>1
<1>7. Ends(part, s)
  BY <1>2, <1>5, <1>6 DEF Ends, n
<1> QED BY <1>4, <1>5, <1>7 DEF part, m, n

LEMMA EndsItself ==
    ASSUME NEW D, NEW s \in Seq(D)
    PROVE  Ends(s, s)
<1>1. Len(s) = Len(s) + 0 /\ \A i \in 1 .. Len(s) : s[i] = s[0 + i]
  BY SequenceFacts
<1> QED BY <1>1 DEF Ends

LEMMA EndsTransitive ==
    ASSUME NEW D, NEW r \in Seq(D), NEW s \in Seq(D), NEW t \in Seq(D), Ends(r, s), Ends(s, t)
    PROVE  Ends(r, t)
<1>1. PICK d \in Nat : Len(s) = Len(r) + d /\ \A i \in 1 .. Len(r) : r[i] = s[d + i]
  BY DEF Ends
<1>2. PICK e \in Nat : Len(t) = Len(s) + e /\ \A i \in 1 .. Len(s) : s[i] = t[e + i]
  BY DEF Ends
<1>3. Len(r) \in Nat /\ Len(s) \in Nat
  BY SequenceFacts
<1>4. Len(t) = Len(r) + (e + d) /\ e + d \in Nat
  BY <1>1, <1>2, <1>3
<1>5. \A i \in 1 .. Len(r) : r[i] = t[(e + d) + i]
  <2> SUFFICES ASSUME NEW i \in 1 .. Len(r) PROVE r[i] = t[(e + d) + i]
    OBVIOUS
  <2>1. d + i \in 1 .. Len(s) /\ e + (d + i) = (e + d) + i
    BY <1>1, <1>3
  <2> QED BY <1>1, <1>2, <2>1
<1> QED BY <1>4, <1>5 DEF Ends

LEMMA EndsAppend ==
    ASSUME NEW D, NEW s \in Seq(D), NEW t \in Seq(D), NEW e \in D, Ends(s, t)
    PROVE  Ends(Append(s, e), Append(t, e))
<1> DEFINE u == Append(s, e)
           v == Append(t, e)
<1>1. PICK d \in Nat : Len(t) = Len(s) + d /\ \A i \in 1 .. Len(s) : s[i] = t[d + i]
  BY DEF Ends
<1>2. /\ Len(u) = Len(s) + 1 /\ Len(v) = Len(t) + 1 /\ Len(s) \in Nat /\ Len(t) \in Nat
      /\ \A i \in 1 .. Len(s) : u[i] = s[i]
      /\ \A i \in 1 .. Len(t) : v[i] = t[i]
      /\ u[Len(s) + 1] = e /\ v[Len(t) + 1] = e
  BY Appending, SequenceFacts
<1> HIDE DEF u, v
<1>3. ASSUME NEW i \in 1 .. Len(s) + 1 PROVE u[i] = v[d + i]
  <2>1. CASE i \in 1 .. Len(s)
    <3>1. d + i \in 1 .. Len(t)
      BY <1>1, <1>2, <2>1
    <3> QED BY <1>1, <1>2, <2>1, <3>1
  <2>2. CASE i = Len(s) + 1
    <3>1. d + i = Len(t) + 1
      BY <1>1, <1>2, <2>2
    <3> QED BY <1>2, <2>2, <3>1
  <2>3. i \in 1 .. Len(s) \/ i = Len(s) + 1
    BY <1>2, <1>3
  <2> QED BY <2>1, <2>2, <2>3
<1>4. Len(v) = Len(u) + d
  BY <1>1, <1>2
<1>5. Ends(u, v)
  BY <1>2, <1>3, <1>4 DEF Ends
<1> QED BY <1>5 DEF u, v

(* The end of a sequence is a suffix of it.                                *)
LEMMA EndsIsSuffix ==
    ASSUME NEW D, NEW s \in Seq(D), NEW t \in Seq(D), Ends(s, t)
    PROVE  IsSuffix(s, t)
<1>1. PICK d \in Nat : Len(t) = Len(s) + d /\ \A i \in 1 .. Len(s) : s[i] = t[d + i]
  BY DEF Ends
<1> DEFINE n == Len(s)
           rs == Reverse(s)
           rt == Reverse(t)
<1>2. n \in Nat /\ Len(t) \in Nat /\ n <= Len(t)
  BY <1>1, SequenceFacts
<1>3. /\ rs = [i \in 1 .. n |-> s[(n - i) + 1]]
      /\ rt = [i \in 1 .. Len(t) |-> t[(Len(t) - i) + 1]]
  BY DEF Reverse
<1>4. Len(rs) = n /\ Len(rt) = Len(t)
  BY <1>2, <1>3
<1>5. \A i \in 1 .. n : rs[i] = rt[i]
  <2> SUFFICES ASSUME NEW i \in 1 .. n PROVE rs[i] = rt[i]
    OBVIOUS
  <2>1. (n - i) + 1 \in 1 .. n /\ d + ((n - i) + 1) = (Len(t) - i) + 1 /\ i \in 1 .. Len(t)
    BY <1>1, <1>2
  <2>2. rs[i] = s[(n - i) + 1] /\ rt[i] = t[(Len(t) - i) + 1]
    BY <1>3, <2>1
  <2> QED BY <1>1, <2>1, <2>2
<1> HIDE DEF rs, rt, n
<1>6. SubSeq(rs, 1, n) = SubSeq(rt, 1, n)
  <2>1. \A S, T : (\A i \in 1 .. n : S[i] = T[i]) => SubSeq(S, 1, n) = SubSeq(T, 1, n)
    BY <1>2
  <2> QED BY <1>5, <2>1
<1> QED BY <1>2, <1>4, <1>6 DEF IsSuffix, IsPrefix, rs, rt

-----------------------------------------------------------------------------
(* The parts of the handlers.                                              *)

(* Decay keeps a score in range.                                           *)
LEMMA AfterDecayType ==
    ASSUME NEW a \in Agents, NEW s \in 0 .. MaxScore, lastUpdated[a] \in Nat, now \in Nat
    PROVE  AfterDecay(a, s) \in 0 .. MaxScore
<1>1. CASE Inactive(a) <= Day
  BY <1>1 DEF AfterDecay
<1>2. CASE ~(Inactive(a) <= Day)
  <2>1. Inactive(a) \in Nat
    BY <1>2 DEF Inactive
  <2>2. Loss(a, s) \in Nat
    BY <2>1, ProductIsNat, DivisionIsNat DEF Loss
  <2> QED BY <1>2, <2>2 DEF AfterDecay
<1> QED BY <1>1, <1>2

LEMMA ScoreSteps ==
    ASSUME ReputationTypeOK, NEW a \in Agents
    PROVE  /\ AfterRead(a) \in (0 .. MaxScore) \cup {Unknown}
           /\ Summary(a) \in 0 .. MaxScore
           /\ ReadScore(a) /\ now' = now => ReputationTypeOK'
           /\ \A s \in (0 .. MaxScore) \cup {Unknown}, up \in Nat, down \in Nat :
                 RecordEventOn(a, s, up, down) /\ now' = now => ReputationTypeOK'
<1>1. AfterRead(a) \in (0 .. MaxScore) \cup {Unknown}
  BY AfterDecayType DEF AfterRead, ReputationTypeOK
<1>2. Summary(a) \in 0 .. MaxScore
  BY AfterDecayType DEF Summary, AfterRead, ReputationTypeOK
<1>3. ReadScore(a) /\ now' = now => ReputationTypeOK'
  BY <1>1 DEF ReadScore, ReputationTypeOK
<1>4. ASSUME NEW s \in (0 .. MaxScore) \cup {Unknown}, NEW up \in Nat, NEW down \in Nat,
             RecordEventOn(a, s, up, down), now' = now
      PROVE  ReputationTypeOK'
  <2>1. EventBase(a, s) \in 0 .. MaxScore
    BY AfterDecayType DEF EventBase, ReputationTypeOK
  <2>2. score' \in [Agents -> (0 .. MaxScore) \cup {Unknown}]
    BY <1>4, <2>1 DEF RecordEventOn, ReputationTypeOK, Clamped
  <2> QED BY <1>4, <2>2 DEF RecordEventOn, ReputationTypeOK
<1> QED BY <1>1, <1>2, <1>3, <1>4

LEMMA RewardType ==
    ASSUME NEW gross \in BaseRewards, NEW s \in 0 .. MaxScore
    PROVE  RewardFor(gross, s) \in 0 .. MaxReward
<1>1. gross * Multiplier[s] \in Nat
  BY ProductIsNat
<1> QED BY <1>1 DEF RewardFor

(* A trimmed log is a log.                                                 *)
LEMMA AppendedType ==
    ASSUME audit \in Seq(AuditEntry), NEW e \in AuditEntry
    PROVE  Appended(e) \in Seq(AuditEntry)
<1> DEFINE longer == Append(audit, e)
           kept == (MaxAudit + 1) \div 2
<1>1. longer \in Seq(AuditEntry)
  BY Appending
<1>2. kept \in Nat /\ kept <= MaxAudit
  BY DivisionIsNat
<1>3. CASE Len(longer) > MaxAudit
  <2>1. kept <= Len(longer)
    BY <1>1, <1>2, <1>3, SequenceFacts
  <2> HIDE DEF longer, kept
  <2>2. SubSeq(longer, Len(longer) - kept + 1, Len(longer)) \in Seq(AuditEntry)
    BY <1>1, <1>2, <2>1, NewestEnds
  <2> QED BY <1>3, <2>2 DEF Appended, longer, kept
<1>4. CASE ~(Len(longer) > MaxAudit)
  BY <1>1, <1>4 DEF Appended
<1> QED BY <1>3, <1>4

(* Booking adds an entry and keeps an end of what there was, never the     *)
(* same length: a history that is trimmed becomes shorter.                 *)
LEMMA BookedEnds ==
    ASSUME ledger \in Seq(LedgerEntry), NEW e \in LedgerEntry
    PROVE  /\ Booked(e) \in Seq(LedgerEntry)
           /\ Ends(Booked(e), Append(ledger, e))
           /\ Len(Booked(e)) <= MaxLedger
           /\ Len(Booked(e)) = Len(ledger) + 1 \/ Len(Booked(e)) = KeepLedger
           /\ Len(ledger) <= MaxLedger => Booked(e) # ledger
<1> DEFINE longer == Append(ledger, e)
<1>1. longer \in Seq(LedgerEntry) /\ Len(longer) = Len(ledger) + 1 /\ Len(ledger) \in Nat
  BY Appending, SequenceFacts
<1>2. CASE Len(longer) > MaxLedger
  <2> DEFINE part == SubSeq(longer, Len(longer) - KeepLedger + 1, Len(longer))
  <2>1. Booked(e) = part
    BY <1>2 DEF Booked
  <2>2. KeepLedger \in Nat /\ KeepLedger <= Len(longer)
    BY <1>1, <1>2
  <2> HIDE DEF longer
  <2>3. part \in Seq(LedgerEntry) /\ Len(part) = KeepLedger /\ Ends(part, longer)
    BY <1>1, <2>2, NewestEnds
  <2> HIDE DEF part
  <2>4. Len(ledger) <= MaxLedger => Len(ledger) # Len(part)
    BY <1>1, <1>2, <2>3
  <2>5. Len(part) <= MaxLedger
    BY <2>3
  <2> QED BY <2>1, <2>3, <2>4, <2>5 DEF longer
<1>3. CASE ~(Len(longer) > MaxLedger)
  <2>1. Booked(e) = longer
    BY <1>3 DEF Booked
  <2> HIDE DEF longer
  <2>2. Ends(longer, longer) /\ Len(longer) # Len(ledger) /\ Len(longer) <= MaxLedger
    BY <1>1, <1>3, EndsItself
  <2> QED BY <1>1, <2>1, <2>2 DEF longer
<1> QED BY <1>2, <1>3

LEMMA TrackingType ==
    ASSUME TypeOK, NEW a \in Agents
    PROVE  /\ EarnedToday(a) \in Nat /\ EarnedToday(a) <= earned[a]
           /\ StartWindow(a) \in [Agents -> Nat \cup {NoTime}]
BY DEF TypeOK, ReputationTypeOK, EarnedToday, StartWindow

(* The success branch keeps every type it touches.                         *)
LEMMA PayType ==
    ASSUME TypeOK, NEW t \in Tasks, NEW a \in Agents, NEW x \in 0 .. MaxReward,
           NEW s \in (0 .. MaxScore) \cup {Unknown}, Pay(t, a, x, s), now' = now
    PROVE  /\ ReputationTypeOK'
           /\ state' \in [Tasks -> CallState]
           /\ earned' \in [Agents -> Nat]
           /\ resetTs' \in [Agents -> Nat \cup {NoTime}]
           /\ failures' \in Nat
           /\ audit' \in Seq(AuditEntry)
           /\ ledger' \in Seq(LedgerEntry)
<1>1. ReputationTypeOK'
  BY ScoreSteps DEF Pay, TypeOK
<1>2. [task |-> t, agent |-> a, amount |-> x, status |-> "success"] \in AuditEntry
  BY DEF AuditEntry
<1>3. audit' \in Seq(AuditEntry)
  BY <1>2, AppendedType DEF Pay, TypeOK
<1>4. [task |-> t, agent |-> a, amount |-> x] \in LedgerEntry
  BY DEF LedgerEntry, RewardEntry
<1>5. ledger' \in Seq(LedgerEntry)
  BY <1>4, BookedEnds DEF Pay, TypeOK
<1>6. earned' \in [Agents -> Nat]
  <2>1. EarnedToday(a) + x \in Nat
    BY TrackingType
  <2> QED BY <2>1 DEF Pay, TypeOK
<1>7. resetTs' \in [Agents -> Nat \cup {NoTime}]
  BY TrackingType DEF Pay
<1> QED BY <1>1, <1>3, <1>5, <1>6, <1>7 DEF Pay, TypeOK, CallState

-----------------------------------------------------------------------------

LEMMA TypeInvInductive == /\ Init => TypeInv
                          /\ TypeInv /\ [Next]_vars => TypeInv'
<1>1. Init => TypeInv
  <2> SUFFICES ASSUME Init PROVE TypeInv
    OBVIOUS
  <2>1. audit \in Seq(AuditEntry) /\ ledger \in Seq(LedgerEntry)
    BY EmptySeq DEF Init
  <2>2. ReputationTypeOK
    BY DEF Init, ReputationInit, ReputationTypeOK
  <2>3. CallsWellFormed
    BY DEF Init, CallsWellFormed
  <2>4. /\ state \in [Tasks -> CallState]
        /\ agentOf \in [Tasks -> Agents \cup {NoAgent}]
        /\ reward \in [Tasks -> 0 .. MaxReward]
        /\ attempts \in [Tasks -> 0 .. MaxRetries]
    BY DEF Init, CallState
  <2>5. /\ earned \in [Agents -> Nat]
        /\ resetTs \in [Agents -> Nat \cup {NoTime}]
        /\ failures \in Nat /\ circuitOpen \in BOOLEAN /\ openedAt \in Nat \cup {NoTime}
    BY DEF Init
  <2> QED BY <2>1, <2>2, <2>3, <2>4, <2>5 DEF TypeInv, TypeOK
<1>2. ASSUME TypeInv, [Next]_vars PROVE TypeInv'
  <2> USE <1>2 DEF TypeInv
  <2>1. ASSUME NEW t \in Tasks, NEW a \in Agents, RefusedByBreaker(t, a) PROVE TypeInv'
    BY <2>1 DEF RefusedByBreaker, TypeOK, CallsWellFormed, CallState, dailyVars, breakerVars,
                reputationVars, ReputationTypeOK
  <2>2. ASSUME NEW t \in Tasks, NEW a \in Agents, RefusedByCap(t, a) PROVE TypeInv'
    <3>1. ReputationTypeOK'
      BY <2>2, ScoreSteps DEF RefusedByCap, HasRoom, TypeOK
    <3>2. earned' \in [Agents -> Nat] /\ resetTs' \in [Agents -> Nat \cup {NoTime}]
      BY <2>2, TrackingType DEF RefusedByCap, HasRoom, TypeOK
    <3> QED BY <2>2, <3>1, <3>2
         DEF RefusedByCap, HasRoom, BreakerChecked, TypeOK, CallsWellFormed, CallState
  <2>3. ASSUME NEW t \in Tasks, NEW a \in Agents, NEW gross \in BaseRewards,
               Admitted(t, a, gross)
        PROVE  /\ agentOf' \in [Tasks -> Agents \cup {NoAgent}]
               /\ reward' \in [Tasks -> 0 .. MaxReward]
               /\ attempts' \in [Tasks -> 0 .. MaxRetries]
               /\ circuitOpen' \in BOOLEAN /\ openedAt' \in Nat \cup {NoTime}
               /\ RewardFor(gross, Summary(a)) \in 0 .. MaxReward
               /\ AfterRead(a) \in (0 .. MaxScore) \cup {Unknown}
    <3>1. /\ Summary(a) \in 0 .. MaxScore
          /\ AfterRead(a) \in (0 .. MaxScore) \cup {Unknown}
      BY ScoreSteps DEF TypeOK
    <3>2. RewardFor(gross, Summary(a)) \in 0 .. MaxReward
      BY <3>1, RewardType
    <3>3. agentOf' \in [Tasks -> Agents \cup {NoAgent}]
      BY <2>3 DEF Admitted, HasRoom, TypeOK
    <3>4. reward' \in [Tasks -> 0 .. MaxReward]
      BY <2>3, <3>2 DEF Admitted, HasRoom, TypeOK
    <3>5. attempts' \in [Tasks -> 0 .. MaxRetries]
      BY <2>3 DEF Admitted, HasRoom, TypeOK
    <3> QED BY <2>3, <3>1, <3>2, <3>3, <3>4, <3>5 DEF Admitted, HasRoom, BreakerChecked
  <2>4. ASSUME NEW t \in Tasks, NEW a \in Agents, NEW gross \in BaseRewards,
               PaidAtOnce(t, a, gross)
        PROVE  TypeInv'
    <3>1. Admitted(t, a, gross) /\ Pay(t, a, RewardFor(gross, Summary(a)), AfterRead(a)) /\ now' = now
      BY <2>4 DEF PaidAtOnce
    <3>2. TypeOK'
      BY <2>3, <3>1, PayType DEF TypeOK
    <3> QED BY <3>1, <3>2 DEF Admitted, HasRoom, Pay, CallsWellFormed, TypeOK
  <2>5. ASSUME NEW t \in Tasks, NEW a \in Agents, NEW gross \in BaseRewards,
               FailedAtFirst(t, a, gross)
        PROVE  TypeInv'
    <3>1. Admitted(t, a, gross)
      BY <2>5 DEF FailedAtFirst
    <3>2. ReputationTypeOK'
      BY <2>5, ScoreSteps DEF FailedAtFirst, TypeOK
    <3>3. earned' \in [Agents -> Nat] /\ resetTs' \in [Agents -> Nat \cup {NoTime}]
      BY <2>5, TrackingType DEF FailedAtFirst, TypeOK
    <3>4. TypeOK'
      BY <2>3, <2>5, <3>1, <3>2, <3>3 DEF FailedAtFirst, TypeOK, CallState
    <3>5. ASSUME NEW u \in Tasks, state'[u] = "retrying"
          PROVE  agentOf'[u] \in Agents /\ attempts'[u] < MaxRetries
      <4>1. /\ state \in [Tasks -> CallState] /\ attempts \in [Tasks -> 0 .. MaxRetries]
            /\ agentOf \in [Tasks -> Agents \cup {NoAgent}]
        BY DEF TypeOK
      <4>2. /\ state' = [state EXCEPT ![t] = "retrying"]
            /\ agentOf' = [agentOf EXCEPT ![t] = a] /\ attempts' = [attempts EXCEPT ![t] = 1]
        BY <2>5, <3>1 DEF FailedAtFirst, Admitted
      <4>3. CASE u = t
        BY <4>1, <4>2, <4>3
      <4>4. CASE u # t
        <5>1. state[u] = "retrying" /\ agentOf'[u] = agentOf[u] /\ attempts'[u] = attempts[u]
          BY <3>5, <4>1, <4>2, <4>4
        <5> QED BY <5>1 DEF CallsWellFormed
      <4> QED BY <4>3, <4>4
    <3> QED BY <3>4, <3>5 DEF CallsWellFormed
  <2>6. ASSUME NEW t \in Tasks, RetryPaid(t) PROVE TypeInv'
    <3>1. /\ state[t] = "retrying" /\ agentOf[t] \in Agents
          /\ attempts[t] + 1 \in 0 .. MaxRetries /\ reward[t] \in 0 .. MaxReward
          /\ score[agentOf[t]] \in (0 .. MaxScore) \cup {Unknown}
      BY <2>6 DEF RetryPaid, CallsWellFormed, TypeOK, ReputationTypeOK
    <3>2. Pay(t, agentOf[t], reward[t], score[agentOf[t]]) /\ now' = now
      BY <2>6 DEF RetryPaid
    <3>3. TypeOK'
      BY <2>6, <3>1, <3>2, PayType DEF RetryPaid, TypeOK
    <3>4. ASSUME NEW u \in Tasks, state'[u] = "retrying"
          PROVE  agentOf'[u] \in Agents /\ attempts'[u] < MaxRetries
      <4>1. u # t
        BY <3>2, <3>4 DEF Pay, TypeOK
      <4>2. state[u] = "retrying" /\ agentOf'[u] = agentOf[u] /\ attempts'[u] = attempts[u]
        BY <2>6, <3>2, <3>4, <4>1 DEF RetryPaid, Pay, TypeOK
      <4> QED BY <4>2 DEF CallsWellFormed
    <3> QED BY <3>3, <3>4 DEF CallsWellFormed
  <2>7. ASSUME NEW t \in Tasks, RetryFailed(t) PROVE TypeInv'
    BY <2>7 DEF RetryFailed, TypeOK, ReputationTypeOK, CallsWellFormed, dailyVars, breakerVars,
                reputationVars
  <2>8. ASSUME NEW t \in Tasks, GivenUp(t) PROVE TypeInv'
    <3>1. agentOf[t] \in Agents
      BY <2>8 DEF GivenUp, CountFailure, CallsWellFormed
    <3>2. [task |-> t, agent |-> agentOf[t], amount |-> 0, status |-> "failed"] \in AuditEntry
      BY <3>1 DEF AuditEntry
    <3>3. audit' \in Seq(AuditEntry)
      BY <2>8, <3>2, AppendedType DEF GivenUp, CountFailure, TypeOK
    <3>4. /\ circuitOpen' \in BOOLEAN /\ openedAt' \in Nat \cup {NoTime} /\ failures' \in Nat
      <4>1. failures' \in Nat /\ now \in Nat
        BY <2>8 DEF GivenUp, CountFailure, TypeOK, ReputationTypeOK
      <4>2. CASE failures + 1 >= Threshold
        BY <2>8, <4>1, <4>2 DEF GivenUp, CountFailure
      <4>3. CASE ~(failures + 1 >= Threshold)
        BY <2>8, <4>1, <4>3 DEF GivenUp, CountFailure, TypeOK
      <4> QED BY <4>1, <4>2, <4>3
    <3>5. ReputationTypeOK' /\ ledger' \in Seq(LedgerEntry)
      BY <2>8 DEF GivenUp, TypeOK, ReputationTypeOK, reputationVars
    <3>6. /\ state' \in [Tasks -> CallState] /\ attempts' \in [Tasks -> 0 .. MaxRetries]
          /\ UNCHANGED <<agentOf, reward, earned, resetTs>>
      BY <2>8 DEF GivenUp, TypeOK, CallState, dailyVars
    <3>7. CallsWellFormed'
      BY <2>8 DEF GivenUp, CallsWellFormed, TypeOK
    <3> QED BY <3>3, <3>4, <3>5, <3>6, <3>7 DEF TypeOK
  <2>9. CASE ReputationNext /\ UNCHANGED <<rewardVars, now>>
    <3>1. ReputationTypeOK'
      BY <2>9, ScoreSteps DEF ReputationNext, RecordEvent, TypeOK, ReputationTypeOK
    <3> QED BY <2>9, <3>1
         DEF TypeOK, CallsWellFormed, rewardVars, callVars, dailyVars, breakerVars
  <2>12. CASE OthersPay
    <3>1. OtherEntry \in LedgerEntry
      BY DEF LedgerEntry
    <3>2. ledger' \in Seq(LedgerEntry)
      BY <2>12, <3>1, BookedEnds DEF OthersPay, TypeOK
    <3> QED BY <2>12, <3>2 DEF OthersPay, TypeOK, ReputationTypeOK, CallsWellFormed, callVars,
                               dailyVars, breakerVars, reputationVars
  <2>10. CASE Tick
    BY <2>10
         DEF Tick, TypeOK, ReputationTypeOK, CallsWellFormed, rewardVars, callVars,
           dailyVars,
                 breakerVars, reputationVars
  <2>11. CASE UNCHANGED vars
    BY <2>11
         DEF vars, TypeOK, ReputationTypeOK, CallsWellFormed, rewardVars, callVars,
           dailyVars,
                 breakerVars, reputationVars
  <2> QED BY <2>1, <2>2, <2>4, <2>5, <2>6, <2>7, <2>8, <2>9, <2>10, <2>11, <2>12
          DEF Next, Call, Wake
<1> QED BY <1>1, <1>2

(* Every variable keeps its type.                                          *)
THEOREM TypeCorrect == Spec => []TypeOK
<1>1. TypeInv => TypeOK
  BY DEF TypeInv
<1> QED BY <1>1, TypeInvInductive, PTL DEF Spec

-----------------------------------------------------------------------------
(* The breaker.                                                            *)

LEMMA BreakerInductive == /\ Init => BreakerConsistent
                          /\ TypeInv /\ BreakerConsistent /\ [Next]_vars => BreakerConsistent'
<1>1. Init => BreakerConsistent
  BY DEF Init, BreakerConsistent
<1>2. ASSUME TypeInv, BreakerConsistent, [Next]_vars PROVE BreakerConsistent'
  <2>1. now \in Nat /\ failures \in Nat
    BY <1>2 DEF TypeInv, TypeOK, ReputationTypeOK
  <2>2. ASSUME BreakerChecked, failures' = IF circuitOpen THEN 0 ELSE failures
        PROVE  BreakerConsistent'
    BY <1>2, <2>1, <2>2 DEF BreakerChecked, BreakerConsistent
  <2>3. ASSUME BreakerChecked, failures' = 0 PROVE BreakerConsistent'
    BY <2>3 DEF BreakerChecked, BreakerConsistent
  <2>4. ASSUME NEW t \in Tasks, NEW a \in Agents, Call(t, a) PROVE BreakerConsistent'
    <3>1. CASE RefusedByBreaker(t, a)
      BY <1>2, <3>1 DEF RefusedByBreaker, BreakerConsistent, breakerVars
    <3>2. CASE RefusedByCap(t, a)
      BY <2>2, <3>2 DEF RefusedByCap, HasRoom
    <3>3. ASSUME NEW gross \in BaseRewards, PaidAtOnce(t, a, gross) PROVE BreakerConsistent'
      BY <2>3, <3>3 DEF PaidAtOnce, Admitted, HasRoom, Pay
    <3>4. ASSUME NEW gross \in BaseRewards, FailedAtFirst(t, a, gross) PROVE BreakerConsistent'
      BY <2>2, <3>4 DEF FailedAtFirst, Admitted, HasRoom
    <3> QED BY <2>4, <3>1, <3>2, <3>3, <3>4 DEF Call
  <2>5. ASSUME NEW t \in Tasks, RetryPaid(t) PROVE BreakerConsistent'
    BY <1>2, <2>1, <2>5 DEF RetryPaid, Pay, BreakerConsistent
  <2>6. ASSUME NEW t \in Tasks, GivenUp(t) PROVE BreakerConsistent'
    <3>1. CASE failures + 1 >= Threshold
      BY <1>2, <2>1, <2>6, <3>1 DEF GivenUp, CountFailure, BreakerConsistent
    <3>2. CASE ~(failures + 1 >= Threshold)
      BY <1>2, <2>1, <2>6, <3>2 DEF GivenUp, CountFailure, BreakerConsistent
    <3> QED BY <3>1, <3>2
  <2>7. CASE Tick
    BY <1>2, <2>1, <2>7 DEF Tick, BreakerConsistent, rewardVars, breakerVars
  <2>8. CASE UNCHANGED <<breakerVars, now>>
    BY <1>2, <2>8 DEF BreakerConsistent, breakerVars
  <2> QED BY <1>2, <2>4, <2>5, <2>6, <2>7, <2>8 DEF Next, Wake, RetryFailed, OthersPay, vars, rewardVars
<1> QED BY <1>1, <1>2

(* A closed breaker is below its threshold, an open one knows since when.  *)
THEOREM BreakerCorrect == Spec => []BreakerConsistent
BY TypeInvInductive, BreakerInductive, PTL DEF Spec

-----------------------------------------------------------------------------
(* The daily cap.                                                          *)

LEMMA MultiplyMonotonic ==
    ASSUME NEW c \in Nat, NEW m \in Nat, NEW n \in Nat, m <= n
    PROVE  c * m <= c * n /\ c * m \in Nat /\ c * n \in Nat
<1>1. PICK d \in Nat : n = m + d
  BY n - m \in Nat
<1>2. c * n = c * m + c * d
  BY <1>1
<1> QED BY <1>2, ProductIsNat

LEMMA MultiplySuccessor ==
    ASSUME NEW c \in Nat, NEW m \in Nat
    PROVE  c * (m + 1) = c * m + c
OBVIOUS

(* Counting the calls of one agent that sleep.                             *)
LEMMA InFlightCount ==
    ASSUME NEW a \in Agents
    PROVE  /\ IsFiniteSet(InFlight(a)) /\ Cardinality(InFlight(a)) \in Nat
           /\ IsFiniteSet(InFlight(a))' /\ Cardinality(InFlight(a))' \in Nat
<1>1. InFlight(a) \in SUBSET Tasks /\ InFlight(a)' \in SUBSET Tasks
  BY DEF InFlight
<1> QED BY <1>1, FS_Subset, FS_CardinalityType

(* One agent's share of CapOverrunBounded, and what the history counts.    *)
Bounded(a) ==
    /\ peak[a] \in Nat /\ Cardinality(InFlight(a)) <= peak[a]
    /\ earned[a] + MaxReward * Cardinality(InFlight(a)) < DailyCap + MaxReward * (1 + peak[a])

AllBounded == peak \in [Agents -> Nat] /\ \A a \in Agents : Bounded(a)

(* The history never counts less than the calls asleep, and only a new     *)
(* window lowers it.                                                       *)
LEMMA PeakCounts ==
    ASSUME AllBounded, HistoryStep, NEW a \in Agents
    PROVE  /\ peak' \in [Agents -> Nat] /\ Cardinality(InFlight(a))' <= peak'[a]
           /\ resetTs'[a] = resetTs[a] => peak[a] <= peak'[a]
<1>1. \A b \in Agents : Cardinality(InFlight(b))' \in Nat
  BY InFlightCount
<1>2. peak' = [b \in Agents |->
                  IF resetTs'[b] # resetTs[b] \/ Cardinality(InFlight(b))' > peak[b]
                  THEN Cardinality(InFlight(b))' ELSE peak[b]]
  BY DEF HistoryStep
<1> QED BY <1>1, <1>2 DEF AllBounded

LEMMA PeakIsFunction ==
    ASSUME HistoryStep, peak \in [Agents -> Nat] PROVE peak' \in [Agents -> Nat]
<1>1. \A b \in Agents : Cardinality(InFlight(b))' \in Nat
  BY InFlightCount
<1>2. peak' = [b \in Agents |->
                  IF resetTs'[b] # resetTs[b] \/ Cardinality(InFlight(b))' > peak[b]
                  THEN Cardinality(InFlight(b))' ELSE peak[b]]
  BY DEF HistoryStep
<1> QED BY <1>1, <1>2

(* A step that leaves an agent's earnings below the cap and one reward     *)
(* keeps the bound whatever sleeps: an admission, or a new window.         *)
LEMMA BoundBelowCap ==
    ASSUME AllBounded, HistoryStep, NEW a \in Agents,
           earned'[a] \in Nat, earned'[a] < DailyCap + MaxReward
    PROVE  Bounded(a)'
<1> DEFINE k == Cardinality(InFlight(a))'
           p == peak'[a]
<1>1. k \in Nat /\ p \in Nat /\ k <= p
  BY InFlightCount, PeakCounts
<1> HIDE DEF k, p
<1>2. MaxReward * k <= MaxReward * p /\ MaxReward * k \in Nat /\ MaxReward * p \in Nat
  BY <1>1, MultiplyMonotonic
<1>3. MaxReward * (1 + p) = MaxReward * p + MaxReward
  BY <1>1
<1>4. earned'[a] + MaxReward * k < DailyCap + MaxReward * (1 + p)
  BY <1>2, <1>3
<1> QED BY <1>1, <1>4 DEF Bounded, k, p

(* A step that earns nothing and puts none to sleep keeps it.              *)
LEMMA BoundKept ==
    ASSUME TypeOK, AllBounded, HistoryStep, NEW a \in Agents,
           earned'[a] = earned[a], resetTs'[a] = resetTs[a],
           InFlight(a)' \subseteq InFlight(a)
    PROVE  Bounded(a)'
<1> DEFINE j == Cardinality(InFlight(a))
           k == Cardinality(InFlight(a))'
           p == peak[a]
           q == peak'[a]
<1>1. k \in Nat /\ q \in Nat /\ p \in Nat /\ j \in Nat /\ k <= j /\ p <= q /\ k <= q
  BY InFlightCount, PeakCounts, FS_Subset DEF AllBounded, Bounded
<1>2. earned[a] \in Nat /\ earned[a] + MaxReward * j < DailyCap + MaxReward * (1 + p)
  BY DEF AllBounded, Bounded, TypeOK
<1> HIDE DEF j, k, p, q
<1>3. /\ MaxReward * k <= MaxReward * j /\ MaxReward * k \in Nat /\ MaxReward * j \in Nat
      /\ MaxReward * (1 + p) <= MaxReward * (1 + q)
      /\ MaxReward * (1 + p) \in Nat /\ MaxReward * (1 + q) \in Nat
  BY <1>1, MultiplyMonotonic
<1>4. earned'[a] + MaxReward * k < DailyCap + MaxReward * (1 + q)
  BY <1>2, <1>3
<1> QED BY <1>1, <1>4 DEF Bounded, k, q

(* A call paid after its sleep moves at most one reward from what sleeps   *)
(* to what is earned.                                                      *)
LEMMA BoundAtRetry ==
    ASSUME TypeOK, AllBounded, HistoryStep, NEW a \in Agents, resetTs'[a] = resetTs[a],
           NEW t \in InFlight(a), InFlight(a)' = InFlight(a) \ {t},
           NEW x \in 0 .. MaxReward, earned'[a] = earned[a] + x
    PROVE  Bounded(a)'
<1> DEFINE k == Cardinality(InFlight(a))'
           p == peak[a]
           q == peak'[a]
<1>1. k \in Nat /\ Cardinality(InFlight(a)) = k + 1
  <2>1. IsFiniteSet(InFlight(a)) /\ Cardinality(InFlight(a)) \in Nat /\ k \in Nat
    BY InFlightCount
  <2>2. Cardinality(InFlight(a) \ {t}) = Cardinality(InFlight(a)) - 1
    BY <2>1, FS_RemoveElement
  <2> QED BY <2>1, <2>2
<1>2. q \in Nat /\ p \in Nat /\ p <= q /\ k <= q
  BY PeakCounts DEF AllBounded, Bounded
<1>3. earned[a] \in Nat /\ earned[a] + MaxReward * (k + 1) < DailyCap + MaxReward * (1 + p)
  BY <1>1 DEF AllBounded, Bounded, TypeOK
<1> HIDE DEF k, p, q
<1>4. /\ MaxReward * (k + 1) = MaxReward * k + MaxReward /\ MaxReward * k \in Nat
      /\ MaxReward * (1 + p) <= MaxReward * (1 + q)
      /\ MaxReward * (1 + p) \in Nat /\ MaxReward * (1 + q) \in Nat
  BY <1>1, <1>2, MultiplySuccessor, MultiplyMonotonic, ProductIsNat
<1>5. earned'[a] + MaxReward * k < DailyCap + MaxReward * (1 + q)
  BY <1>3, <1>4
<1> QED BY <1>1, <1>2, <1>5 DEF Bounded, k, q

-----------------------------------------------------------------------------

(* Tracking a payment either goes on with a window or starts one.          *)
LEMMA WindowCases ==
    ASSUME TypeOK, NEW a \in Agents
    PROVE  \/ EarnedToday(a) = earned[a] /\ StartWindow(a) = resetTs
           \/ EarnedToday(a) = 0
<1>1. CASE WindowOver(a)
  BY <1>1 DEF EarnedToday
<1>2. CASE ~WindowOver(a)
  BY <1>2 DEF EarnedToday, StartWindow, TypeOK
<1> QED BY <1>1, <1>2

(* What each step does to the bound of one agent.                          *)
LEMMA BoundInductive ==
    ASSUME DailyCap > 0, TypeInv, AllBounded, HistoryStep, [Next]_vars, NEW a \in Agents
    PROVE  Bounded(a)'
<1> USE DEF TypeInv
<1>1. /\ earned \in [Agents -> Nat] /\ EarnedToday(a) \in Nat /\ EarnedToday(a) <= earned[a]
      /\ resetTs \in [Agents -> Nat \cup {NoTime}]
  BY TrackingType DEF TypeOK
<1>2. ASSUME NEW t \in Tasks, NEW b \in Agents, RefusedByBreaker(t, b) PROVE Bounded(a)'
  <2>1. InFlight(a)' \subseteq InFlight(a)
    BY <1>2 DEF RefusedByBreaker, InFlight, TypeOK
  <2> QED BY <1>2, <2>1, BoundKept DEF RefusedByBreaker, dailyVars
<1>3. ASSUME NEW t \in Tasks, NEW b \in Agents, RefusedByCap(t, b) PROVE Bounded(a)'
  <2>1. InFlight(a)' \subseteq InFlight(a)
    BY <1>3 DEF RefusedByCap, InFlight, TypeOK
  <2>2. CASE earned'[a] = earned[a] /\ resetTs'[a] = resetTs[a]
    BY <2>1, <2>2, BoundKept
  <2>3. CASE earned'[a] = 0
    BY <2>3, BoundBelowCap
  <2>4. CASE b = a
    BY <1>1, <1>3, <2>2, <2>3, <2>4, WindowCases DEF RefusedByCap
  <2>5. CASE b # a
    <3>1. resetTs'[a] = resetTs[a] /\ earned'[a] = earned[a]
      BY <1>1, <1>3, <2>5 DEF RefusedByCap, StartWindow
    <3> QED BY <2>2, <3>1
  <2> QED BY <2>4, <2>5
<1>4. ASSUME NEW t \in Tasks, NEW b \in Agents, NEW gross \in BaseRewards, PaidAtOnce(t, b, gross)
      PROVE  Bounded(a)'
  <2> DEFINE x == RewardFor(gross, Summary(b))
  <2>1. x \in 0 .. MaxReward
    BY ScoreSteps, RewardType DEF TypeOK
  <2>2. /\ state' = [state EXCEPT ![t] = "paid"] /\ agentOf' = [agentOf EXCEPT ![t] = b]
        /\ HasRoom(b) /\ earned' = [earned EXCEPT ![b] = EarnedToday(b) + x]
        /\ resetTs' = StartWindow(b)
    BY <1>4 DEF PaidAtOnce, Admitted, Pay
  <2> HIDE DEF x
  <2>3. CASE b = a
    <3>1. EarnedToday(a) < DailyCap /\ earned'[a] = EarnedToday(a) + x
      BY <1>1, <2>2, <2>3 DEF HasRoom
    <3>2. earned'[a] \in Nat /\ earned'[a] < DailyCap + MaxReward
      BY <1>1, <2>1, <3>1
    <3> QED BY <3>2, BoundBelowCap
  <2>4. CASE b # a
    <3>1. earned'[a] = earned[a] /\ resetTs'[a] = resetTs[a]
      BY <1>1, <2>2, <2>4 DEF StartWindow
    <3>2. InFlight(a)' \subseteq InFlight(a)
      BY <2>2, <2>4 DEF InFlight, TypeOK
    <3> QED BY <3>1, <3>2, BoundKept
  <2> QED BY <2>3, <2>4
<1>5. ASSUME NEW t \in Tasks, NEW b \in Agents, NEW gross \in BaseRewards,
             FailedAtFirst(t, b, gross)
      PROVE  Bounded(a)'
  <2>1. /\ state' = [state EXCEPT ![t] = "retrying"] /\ agentOf' = [agentOf EXCEPT ![t] = b]
        /\ HasRoom(b) /\ earned' = [earned EXCEPT ![b] = EarnedToday(b)]
        /\ resetTs' = StartWindow(b)
    BY <1>5 DEF FailedAtFirst, Admitted
  <2>2. CASE b = a
    <3>1. EarnedToday(a) < DailyCap /\ earned'[a] = EarnedToday(a)
      BY <1>1, <2>1, <2>2 DEF HasRoom
    <3> QED BY <1>1, <3>1, BoundBelowCap
  <2>3. CASE b # a
    <3>1. earned'[a] = earned[a] /\ resetTs'[a] = resetTs[a]
      BY <1>1, <2>1, <2>3 DEF StartWindow
    <3>2. InFlight(a)' \subseteq InFlight(a)
      BY <2>1, <2>3 DEF InFlight, TypeOK
    <3> QED BY <3>1, <3>2, BoundKept
  <2> QED BY <2>2, <2>3
<1>6. ASSUME NEW t \in Tasks, RetryPaid(t) PROVE Bounded(a)'
  <2>1. /\ state[t] = "retrying" /\ state' = [state EXCEPT ![t] = "paid"] /\ agentOf' = agentOf
        /\ earned' = [earned EXCEPT ![agentOf[t]] = EarnedToday(agentOf[t]) + reward[t]]
        /\ resetTs' = StartWindow(agentOf[t])
        /\ agentOf[t] \in Agents /\ reward[t] \in 0 .. MaxReward
    BY <1>6 DEF RetryPaid, Pay, CallsWellFormed, TypeOK
  <2>2. InFlight(a)' = InFlight(a) \ {t}
    BY <2>1 DEF InFlight, TypeOK
  <2>3. CASE agentOf[t] = a
    <3>1. t \in InFlight(a)
      BY <2>1, <2>3 DEF InFlight
    <3>2. earned'[a] = EarnedToday(a) + reward[t] /\ resetTs' = StartWindow(a)
      BY <1>1, <2>1, <2>3
    <3>3. CASE EarnedToday(a) = earned[a] /\ StartWindow(a) = resetTs
      BY <2>1, <2>2, <3>1, <3>2, <3>3, BoundAtRetry
    <3>4. CASE EarnedToday(a) = 0
      BY <2>1, <3>2, <3>4, BoundBelowCap
    <3> QED BY <3>3, <3>4, WindowCases
  <2>4. CASE agentOf[t] # a
    <3>1. earned'[a] = earned[a] /\ resetTs'[a] = resetTs[a]
      BY <1>1, <2>1, <2>4 DEF StartWindow
    <3> QED BY <2>2, <3>1, BoundKept
  <2> QED BY <2>3, <2>4
<1>7. ASSUME NEW t \in Tasks, RetryFailed(t) \/ GivenUp(t) PROVE Bounded(a)'
  <2>1. InFlight(a)' \subseteq InFlight(a)
    BY <1>7 DEF RetryFailed, GivenUp, InFlight, TypeOK
  <2> QED BY <1>7, <2>1, BoundKept DEF RetryFailed, GivenUp, dailyVars
<1>8. CASE UNCHANGED <<state, agentOf, earned, resetTs>>
  <2>1. InFlight(a)' = InFlight(a)
    BY <1>8 DEF InFlight
  <2> QED BY <1>8, <2>1, BoundKept
<1> QED BY <1>2, <1>3, <1>4, <1>5, <1>6, <1>7, <1>8
        DEF Next, Call, Wake, Tick, OthersPay, vars, rewardVars, callVars, dailyVars

LEMMA HistoryStepIsNext ==
    [Next /\ HistoryStep]_<<vars, historyVars>> => [Next]_vars
BY DEF historyVars

(* Nobody is admitted at the cap, and what is paid above it was admitted   *)
(* before and asleep, but for the payment that crosses it: the overrun is  *)
(* less than one greatest reward for that one, and one more for each of    *)
(* the agent's calls that were asleep at once in the window.               *)
THEOREM CapOverrunCorrect == HistorySpec => []CapOverrunBounded
<1>1. CASE DailyCap > 0
  <2>1. Init /\ HistoryInit => AllBounded
    <3> SUFFICES ASSUME Init, HistoryInit PROVE AllBounded
      OBVIOUS
    <3>1. peak \in [Agents -> Nat]
      BY DEF HistoryInit
    <3>2. ASSUME NEW a \in Agents PROVE Bounded(a)
      <4>1. InFlight(a) = {} /\ earned[a] = 0 /\ peak[a] = 0
        BY DEF Init, HistoryInit, InFlight
      <4>2. Cardinality(InFlight(a)) = 0
        BY <4>1, FS_EmptySet
      <4>3. MaxReward * (1 + 0) = MaxReward /\ MaxReward * 0 = 0
        OBVIOUS
      <4> QED BY <1>1, <4>1, <4>2, <4>3 DEF Bounded
    <3> QED BY <3>1, <3>2 DEF AllBounded
  <2>2. TypeInv /\ AllBounded /\ [Next /\ HistoryStep]_<<vars, historyVars>> => AllBounded'
    <3> SUFFICES ASSUME TypeInv, AllBounded, [Next /\ HistoryStep]_<<vars, historyVars>>
                 PROVE  AllBounded'
      OBVIOUS
    <3>1. CASE Next /\ HistoryStep
      <4>1. peak' \in [Agents -> Nat]
        BY <3>1, PeakIsFunction DEF AllBounded
      <4>2. \A a \in Agents : Bounded(a)'
        BY <1>1, <3>1, BoundInductive
      <4> QED BY <4>1, <4>2 DEF AllBounded
    <3>2. CASE UNCHANGED <<vars, historyVars>>
      BY <3>2 DEF AllBounded, Bounded, InFlight, vars, rewardVars, callVars, dailyVars,
                  historyVars
    <3> QED BY <3>1, <3>2
  <2>3. AllBounded => CapOverrunBounded
    BY DEF AllBounded, Bounded, CapOverrunBounded
  <2> QED BY <2>1, <2>2, <2>3, TypeInvInductive, HistoryStepIsNext, PTL DEF HistorySpec
<1>2. CASE ~(DailyCap > 0)
  <2>1. CapOverrunBounded
    BY <1>2 DEF CapOverrunBounded
  <2> QED BY <2>1, PTL
<1> QED BY <1>1, <1>2

-----------------------------------------------------------------------------
(* The ledger of the client.                                               *)

(* What an entry of a call says stays true.                                *)
HoldsIn(e, st, agents, rewards) ==
    e.task # NoTask => /\ st[e.task] = "paid"
                       /\ e.agent = agents[e.task] /\ e.amount = rewards[e.task]

EntryHolds(e) == HoldsIn(e, state, agentOf, reward)

EntryWillHold(e) == HoldsIn(e, state', agentOf', reward')

TaskOnce(s) ==
    \A i, j \in DOMAIN s : s[i].task # NoTask /\ s[i].task = s[j].task => i = j

LedgerInv ==
    /\ booked \in Seq(LedgerEntry)
    /\ Ends(ledger, booked)
    /\ Len(ledger) <= MaxLedger
    /\ Len(ledger) < Len(booked) => Len(ledger) >= KeepLedger
    /\ \A i \in DOMAIN ledger : EntryHolds(ledger[i])
    /\ TaskOnce(ledger)

LEMMA EntryOf ==
    ASSUME NEW s \in Seq(LedgerEntry), NEW i \in DOMAIN s
    PROVE  s[i] \in LedgerEntry /\ s[i].task \in Tasks \cup {NoTask}
<1>1. s[i] \in LedgerEntry
  BY SequenceFacts
<1> QED BY <1>1 DEF LedgerEntry, RewardEntry, OtherEntry

(* A step that books nothing leaves every paid call as it was.             *)
LEMMA LedgerStays ==
    ASSUME TypeInv, LedgerInv, ledger' = ledger, booked' = booked,
           \A t \in Tasks : state[t] = "paid" =>
               state'[t] = "paid" /\ reward'[t] = reward[t] /\ agentOf'[t] = agentOf[t]
    PROVE  LedgerInv'
<1>1. \A i \in DOMAIN ledger : ledger[i].task \in Tasks \cup {NoTask}
  BY EntryOf DEF TypeInv, TypeOK
<1>2. \A i \in DOMAIN ledger : EntryWillHold(ledger[i])
  BY <1>1 DEF LedgerInv, EntryHolds, EntryWillHold, HoldsIn
<1> QED BY <1>2 DEF LedgerInv, TaskOnce, EntryHolds, EntryWillHold

(* A step that books an entry which is true then, of nobody booked before. *)
LEMMA LedgerGrows ==
    ASSUME TypeInv, LedgerInv, NEW e \in LedgerEntry, ledger' = Booked(e),
           booked' = Append(booked, e), EntryWillHold(e),
           e.task # NoTask => state[e.task] # "paid",
           \A t \in Tasks : state[t] = "paid" =>
               state'[t] = "paid" /\ reward'[t] = reward[t] /\ agentOf'[t] = agentOf[t]
    PROVE  LedgerInv'
<1> DEFINE longer == Append(ledger, e)
<1>1. /\ ledger \in Seq(LedgerEntry) /\ booked \in Seq(LedgerEntry) /\ Ends(ledger, booked)
  BY DEF LedgerInv, TypeInv, TypeOK
<1>2. /\ longer \in Seq(LedgerEntry) /\ Len(longer) = Len(ledger) + 1
      /\ booked' \in Seq(LedgerEntry) /\ Len(booked') = Len(booked) + 1
      /\ ledger' \in Seq(LedgerEntry)
      /\ Len(ledger) \in Nat /\ Len(booked) \in Nat /\ Len(ledger') \in Nat
      /\ DOMAIN ledger = 1 .. Len(ledger) /\ DOMAIN longer = 1 .. Len(ledger) + 1
      /\ DOMAIN ledger' = 1 .. Len(ledger')
      /\ longer[Len(ledger) + 1] = e
      /\ \A i \in 1 .. Len(ledger) : longer[i] = ledger[i]
  BY <1>1, BookedEnds, Appending, SequenceFacts
<1>3. Ends(ledger', booked')
  BY <1>1, <1>2, BookedEnds, EndsAppend, EndsTransitive
<1>4. \A i \in DOMAIN ledger : ledger[i].task \in Tasks \cup {NoTask}
  BY <1>1, EntryOf
<1>5. \A i \in DOMAIN longer : EntryWillHold(longer[i])
  <2>1. \A i \in DOMAIN ledger : EntryWillHold(ledger[i])
    BY <1>4 DEF LedgerInv, EntryHolds, EntryWillHold, HoldsIn
  <2> HIDE DEF longer
  <2>2. ASSUME NEW i \in DOMAIN longer PROVE EntryWillHold(longer[i])
    <3>1. CASE i \in DOMAIN ledger
      BY <1>2, <2>1, <3>1
    <3>2. CASE i = Len(ledger) + 1
      BY <1>2, <3>2
    <3> QED BY <1>2, <3>1, <3>2
  <2> QED BY <2>2
<1>6. TaskOnce(longer)
  <2>1. \A i \in DOMAIN ledger : ledger[i].task # NoTask => ledger[i].task # e.task
    BY DEF LedgerInv, EntryHolds, EntryWillHold, HoldsIn
  <2> HIDE DEF longer
  <2> QED BY <1>2, <2>1 DEF LedgerInv, TaskOnce
<1>7. PICK d \in Nat : /\ Len(longer) = Len(ledger') + d
                       /\ \A i \in 1 .. Len(ledger') : ledger'[i] = longer[d + i]
  <2>1. Ends(ledger', longer)
    BY <1>1, BookedEnds
  <2> HIDE DEF longer
  <2> QED BY <2>1 DEF Ends
<1>8. \A i \in DOMAIN ledger' : ledger'[i] = longer[d + i] /\ d + i \in DOMAIN longer
  <2> HIDE DEF longer
  <2> QED BY <1>2, <1>7
<1>9. \A i \in DOMAIN ledger' : EntryWillHold(ledger'[i])
  BY <1>5, <1>8
<1>10. TaskOnce(ledger')
  <2> SUFFICES ASSUME NEW i \in DOMAIN ledger', NEW j \in DOMAIN ledger',
                      ledger'[i].task # NoTask, ledger'[i].task = ledger'[j].task
               PROVE  i = j
    BY DEF TaskOnce
  <2> HIDE DEF longer
  <2>1. d + i = d + j
    BY <1>6, <1>8 DEF TaskOnce
  <2>2. i \in Nat /\ j \in Nat
    BY <1>2
  <2> QED BY <2>1, <2>2
<1>11. /\ Len(ledger') <= MaxLedger
       /\ Len(ledger') < Len(booked') => Len(ledger') >= KeepLedger
  <2>1. /\ Len(ledger') <= MaxLedger
        /\ Len(ledger') = Len(ledger) + 1 \/ Len(ledger') = KeepLedger
    BY <1>1, BookedEnds
  <2>2. Len(ledger) < Len(booked) => Len(ledger) >= KeepLedger
    BY DEF LedgerInv
  <2>3. /\ Len(booked') = Len(booked) + 1
        /\ Len(ledger) \in Nat /\ Len(booked) \in Nat /\ Len(ledger') \in Nat
    BY <1>2
  <2>4. \A x, y, z \in Nat : /\ z = x + 1 \/ z = KeepLedger
                             /\ x < y => x >= KeepLedger
                             => (z < y + 1 => z >= KeepLedger)
    OBVIOUS
  <2> QED BY <2>1, <2>2, <2>3, <2>4
<1> QED BY <1>2, <1>3, <1>9, <1>10, <1>11 DEF LedgerInv, TaskOnce, EntryHolds, EntryWillHold

(* The history books the call that a step pays, and no other.              *)
LEMMA HistoryOfPayment ==
    ASSUME HasClient, HistoryStep, state \in [Tasks -> CallState], NEW t \in Tasks,
           state[t] # "paid", state' = [state EXCEPT ![t] = "paid"]
    PROVE  booked' = Append(booked, [task |-> t, agent |-> agentOf'[t], amount |-> reward'[t]])
<1>1. \A u \in Tasks : NewlyPaid(u) <=> u = t
  BY DEF NewlyPaid
<1> QED BY <1>1 DEF HistoryStep

LEMMA HistoryOfOthers ==
    ASSUME HistoryStep, \A t \in Tasks : state'[t] = "paid" => state[t] = "paid"
    PROVE  booked' = IF ledger' = ledger THEN booked ELSE Append(booked, OtherEntry)
BY DEF HistoryStep, NewlyPaid

LEMMA LedgerInductive ==
    /\ Init /\ HistoryInit => LedgerInv
    /\ TypeInv /\ LedgerInv /\ [Next /\ HistoryStep]_<<vars, historyVars>> => LedgerInv'
<1>1. Init /\ HistoryInit => LedgerInv
  <2> SUFFICES ASSUME Init, HistoryInit PROVE LedgerInv
    OBVIOUS
  <2>1. ledger = <<>> /\ booked = <<>> /\ Len(<<>>) = 0 /\ booked \in Seq(LedgerEntry)
    BY DEF Init, HistoryInit
  <2>2. Ends(ledger, booked)
    BY <2>1 DEF Ends
  <2> QED BY <2>1, <2>2 DEF LedgerInv, TaskOnce
<1>2. ASSUME TypeInv, LedgerInv, Next, HistoryStep PROVE LedgerInv'
  <2>0. /\ state \in [Tasks -> CallState] /\ reward \in [Tasks -> 0 .. MaxReward]
        /\ agentOf \in [Tasks -> Agents \cup {NoAgent}]
        /\ ledger \in Seq(LedgerEntry) /\ Len(ledger) <= MaxLedger
    BY <1>2 DEF TypeInv, TypeOK, LedgerInv
  <2>1. ASSUME ledger' = ledger,
               \A t \in Tasks : state'[t] = "paid" <=> state[t] = "paid",
               \A t \in Tasks : state[t] = "paid" =>
                   reward'[t] = reward[t] /\ agentOf'[t] = agentOf[t]
        PROVE  LedgerInv'
    <3>1. booked' = booked
      BY <1>2, <2>1, HistoryOfOthers
    <3> QED BY <1>2, <2>1, <3>1, LedgerStays
  <2>2. ASSUME NEW t \in Tasks, NEW a \in Agents, NEW x \in 0 .. MaxReward, state[t] # "paid",
               state' = [state EXCEPT ![t] = "paid"], agentOf' = [agentOf EXCEPT ![t] = a],
               reward' = [reward EXCEPT ![t] = x],
               ledger' = IF HasClient THEN Booked([task |-> t, agent |-> a, amount |-> x])
                         ELSE ledger
        PROVE  LedgerInv'
    <3> DEFINE e == [task |-> t, agent |-> a, amount |-> x]
    <3>1. e \in LedgerEntry
      BY DEF LedgerEntry, RewardEntry
    <3>2. /\ agentOf'[t] = a /\ reward'[t] = x /\ state'[t] = "paid"
          /\ \A u \in Tasks : state[u] = "paid" =>
                state'[u] = "paid" /\ reward'[u] = reward[u] /\ agentOf'[u] = agentOf[u]
      BY <2>0, <2>2
    <3>3. CASE HasClient
      <4>1. booked' = Append(booked, e)
        BY <1>2, <2>0, <2>2, <3>2, <3>3, HistoryOfPayment
      <4>2. e.task = t /\ e.agent = a /\ e.amount = x
        OBVIOUS
      <4>3. ledger' = Booked(e)
        BY <2>2, <3>3
      <4> HIDE DEF e
      <4>4. EntryWillHold(e)
        BY <3>2, <4>2 DEF EntryWillHold, HoldsIn
      <4> QED BY <1>2, <2>2, <3>1, <3>2, <4>1, <4>2, <4>3, <4>4, LedgerGrows
    <3>4. CASE ~HasClient
      <4>1. ledger' = ledger /\ booked' = booked
        BY <1>2, <2>2, <3>4 DEF HistoryStep
      <4> QED BY <1>2, <3>2, <4>1, LedgerStays
    <3> QED BY <3>3, <3>4
  <2>3. ASSUME NEW t \in Tasks, NEW a \in Agents, RefusedByBreaker(t, a) PROVE LedgerInv'
    BY <2>0, <2>1, <2>3 DEF RefusedByBreaker
  <2>4. ASSUME NEW t \in Tasks, NEW a \in Agents, RefusedByCap(t, a) PROVE LedgerInv'
    BY <2>0, <2>1, <2>4 DEF RefusedByCap
  <2>5. ASSUME NEW t \in Tasks, NEW a \in Agents, NEW gross \in BaseRewards,
               PaidAtOnce(t, a, gross)
        PROVE  LedgerInv'
    <3> DEFINE x == RewardFor(gross, Summary(a))
    <3>1. x \in 0 .. MaxReward
      BY <1>2, ScoreSteps, RewardType DEF TypeInv, TypeOK
    <3>2. /\ state[t] = "idle"
          /\ agentOf' = [agentOf EXCEPT ![t] = a] /\ reward' = [reward EXCEPT ![t] = x]
          /\ state' = [state EXCEPT ![t] = "paid"]
          /\ ledger' = IF HasClient THEN Booked([task |-> t, agent |-> a, amount |-> x])
                       ELSE ledger
      BY <2>5 DEF PaidAtOnce, Admitted, Pay
    <3> HIDE DEF x
    <3> QED BY <2>2, <3>1, <3>2
  <2>6. ASSUME NEW t \in Tasks, NEW a \in Agents, NEW gross \in BaseRewards,
               FailedAtFirst(t, a, gross)
        PROVE  LedgerInv'
    <3>1. /\ state[t] = "idle" /\ state' = [state EXCEPT ![t] = "retrying"]
          /\ ledger' = ledger
          /\ \A u \in Tasks \ {t} : reward'[u] = reward[u] /\ agentOf'[u] = agentOf[u]
      BY <2>0, <2>6 DEF FailedAtFirst, Admitted
    <3>2. \A u \in Tasks : state'[u] = IF u = t THEN "retrying" ELSE state[u]
      BY <2>0, <3>1
    <3> QED BY <2>1, <3>1, <3>2
  <2>7. ASSUME NEW t \in Tasks, RetryPaid(t) PROVE LedgerInv'
    <3>1. /\ state[t] = "retrying" /\ agentOf' = agentOf /\ reward' = reward
          /\ state' = [state EXCEPT ![t] = "paid"]
          /\ ledger' = IF HasClient
                       THEN Booked([task |-> t, agent |-> agentOf[t], amount |-> reward[t]])
                       ELSE ledger
          /\ agentOf[t] \in Agents /\ reward[t] \in 0 .. MaxReward
      BY <1>2, <2>0, <2>7 DEF RetryPaid, Pay, TypeInv, CallsWellFormed
    <3>2. agentOf' = [agentOf EXCEPT ![t] = agentOf[t]] /\ reward' = [reward EXCEPT ![t] = reward[t]]
      BY <2>0, <3>1
    <3> QED BY <2>2, <3>1, <3>2
  <2>8. ASSUME NEW t \in Tasks, RetryFailed(t) PROVE LedgerInv'
    BY <2>1, <2>8 DEF RetryFailed
  <2>9. ASSUME NEW t \in Tasks, GivenUp(t) PROVE LedgerInv'
    BY <2>0, <2>1, <2>9 DEF GivenUp
  <2>10. CASE OthersPay
    <3>1. ledger' = Booked(OtherEntry) /\ UNCHANGED <<state, agentOf, reward>>
      BY <2>10 DEF OthersPay, callVars
    <3>2. OtherEntry \in LedgerEntry /\ OtherEntry.task = NoTask
      BY DEF LedgerEntry, OtherEntry
    <3>3. booked' = Append(booked, OtherEntry)
      BY <1>2, <2>0, <3>1, <3>2, BookedEnds, HistoryOfOthers
    <3>4. EntryWillHold(OtherEntry)
      BY <3>2 DEF EntryWillHold, HoldsIn
    <3> QED BY <1>2, <3>1, <3>2, <3>3, <3>4, LedgerGrows
  <2>11. CASE UNCHANGED <<state, agentOf, reward, ledger>>
    BY <2>1, <2>11
  <2> QED BY <1>2, <2>3, <2>4, <2>5, <2>6, <2>7, <2>8, <2>9, <2>10, <2>11
          DEF Next, Call, Wake, Tick, rewardVars, callVars
<1>3. ASSUME TypeInv, LedgerInv, UNCHANGED <<vars, historyVars>> PROVE LedgerInv'
  BY <1>3, LedgerStays DEF vars, rewardVars, callVars, historyVars
<1> QED BY <1>1, <1>2, <1>3

(* Whatever attempts fail, whatever runs between them and whoever else     *)
(* pays: the client's history is the end of what was due to it, trimmed no *)
(* shorter than it says, each call in it once and with the amount of its   *)
(* admission.                                                              *)
THEOREM LedgerCorrect == HistorySpec => []LedgerMatchesCalls
<1>1. TypeInv /\ LedgerInv => LedgerMatchesCalls
  <2> SUFFICES ASSUME TypeInv, LedgerInv PROVE LedgerMatchesCalls
    OBVIOUS
  <2>1. IsSuffix(ledger, booked)
    BY EndsIsSuffix DEF LedgerInv, TypeInv, TypeOK
  <2>2. \A i \in DOMAIN ledger : EntryHolds(ledger[i])
    BY DEF LedgerInv
  <2> QED BY <2>1, <2>2 DEF LedgerInv, LedgerMatchesCalls, EntryHolds, HoldsIn, TaskOnce
<1> QED BY <1>1, TypeInvInductive, HistoryStepIsNext, LedgerInductive, PTL DEF HistorySpec

-----------------------------------------------------------------------------
(* The decay of the scores.                                                *)

LEMMA MCNextIsNext == /\ MCInit => Init
                      /\ [MCNext]_mcVars => [Next]_vars
<1>1. MCInit => Init
  BY DEF MCInit
<1>2. ASSUME MCNext PROVE [Next]_vars
  <2>1. CASE Calls
    BY <2>1 DEF Calls
  <2>2. CASE Scores
    BY <2>2 DEF Scores, Next
  <2>3. CASE Charges
    BY <2>3 DEF Charges
  <2> QED BY <1>2, <2>1, <2>2, <2>3 DEF MCNext
<1> QED BY <1>1, <1>2 DEF mcVars

(* What a score has to do with the one the last event left.                *)
Decayed(a) ==
    score[a] # Unknown =>
        /\ score[a] <= base[a]
        /\ Inactive(a) <= Day => score[a] = base[a]

DecayInv ==
    /\ base \in [Agents -> (0 .. MaxScore) \cup {Unknown}]
    /\ focus = "scores" => \A a \in Agents : Decayed(a) /\ (score[a] # Unknown => base[a] # Unknown)

LEMMA DecayLowers ==
    ASSUME ReputationTypeOK, NEW a \in Agents, NEW s \in 0 .. MaxScore
    PROVE  AfterDecay(a, s) \in 0 .. s
<1>1. CASE Inactive(a) <= Day
  BY <1>1 DEF AfterDecay
<1>2. CASE ~(Inactive(a) <= Day)
  <2>1. Inactive(a) \in Nat
    BY <1>2 DEF Inactive, ReputationTypeOK
  <2>2. Loss(a, s) \in Nat
    BY <2>1, ProductIsNat, DivisionIsNat DEF Loss
  <2> QED BY <1>2, <2>2 DEF AfterDecay
<1> QED BY <1>1, <1>2

LEMMA DecayInductive == /\ MCInit => DecayInv
                        /\ TypeInv /\ TypeInv' /\ DecayInv /\ [MCNext]_mcVars => DecayInv'
<1>1. MCInit => DecayInv
  BY DEF MCInit, Init, ReputationInit, DecayInv, Decayed
<1>2. ASSUME TypeInv, TypeInv', DecayInv, [MCNext]_mcVars PROVE DecayInv'
  <2>0. /\ ReputationTypeOK /\ ReputationTypeOK'
        /\ score \in [Agents -> (0 .. MaxScore) \cup {Unknown}]
        /\ score' \in [Agents -> (0 .. MaxScore) \cup {Unknown}]
        /\ lastUpdated \in [Agents -> Nat] /\ now \in Nat
    BY <1>2 DEF TypeInv, TypeOK, ReputationTypeOK
  <2>1. CASE /\ focus = "scores" /\ UNCHANGED <<focus, now>>
             /\ ReputationNext
             /\ base' = [a \in Agents |-> IF lastUpdated'[a] = now THEN score'[a] ELSE base[a]]
    <3>1. base' \in [Agents -> (0 .. MaxScore) \cup {Unknown}]
      BY <1>2, <2>0, <2>1 DEF DecayInv
    <3> SUFFICES ASSUME NEW a \in Agents, score'[a] # Unknown
                 PROVE  Decayed(a)' /\ base'[a] # Unknown
      BY <3>1 DEF DecayInv, Decayed
    <3>2. CASE lastUpdated'[a] = now
      BY <2>0, <2>1, <3>2 DEF Decayed
    <3>3. CASE lastUpdated'[a] # now
      <4>1. PICK b \in Agents : \/ ReadScore(b)
                                \/ \E d \in Deltas : RecordEvent(b, d, 0) \/ RecordEvent(b, 0, d)
        BY <2>1 DEF ReputationNext
      <4>2. \/ ReadScore(b)
            \/ a # b /\ score'[a] = score[a] /\ lastUpdated'[a] = lastUpdated[a]
        BY <2>0, <3>3, <4>1 DEF RecordEvent, RecordEventOn, ReputationTypeOK
      <4>3. \/ score'[a] = score[a] /\ lastUpdated'[a] = lastUpdated[a]
            \/ score'[a] = AfterRead(a) /\ lastUpdated'[a] = lastUpdated[a]
        BY <2>0, <4>2 DEF ReadScore
      <4>4. score[a] # Unknown /\ score[a] \in 0 .. MaxScore
        BY <2>0, <4>3 DEF AfterRead
      <4>5. score'[a] \in 0 .. score[a] /\ (Inactive(a) <= Day => score'[a] = score[a])
        BY <2>0, <4>3, <4>4, DecayLowers DEF AfterRead, AfterDecay
      <4>6. Inactive(a)' = Inactive(a) /\ base'[a] = base[a]
        BY <2>1, <3>3, <4>3 DEF Inactive
      <4> QED BY <1>2, <2>0, <2>1, <4>4, <4>5, <4>6 DEF DecayInv, Decayed
    <3> QED BY <3>2, <3>3
  <2>2. CASE Tick /\ UNCHANGED <<focus, base>>
    <3>1. /\ score' = score /\ lastUpdated' = lastUpdated /\ now' = now + 1
      BY <2>2 DEF Tick, reputationVars
    <3>2. \A a \in Agents : Inactive(a)' <= Day => Inactive(a) <= Day
      BY <2>0, <3>1 DEF Inactive
    <3> QED BY <1>2, <2>2, <3>1, <3>2 DEF DecayInv, Decayed
  <2>3. CASE focus # "scores" /\ UNCHANGED <<focus, base>>
    BY <1>2, <2>3 DEF DecayInv
  <2>4. CASE UNCHANGED <<focus, base, score, lastUpdated, now>>
    BY <1>2, <2>4 DEF DecayInv, Decayed, Inactive
  <2> QED BY <1>2, <2>1, <2>2, <2>3, <2>4
          DEF MCNext, Calls, Scores, Charges, mcVars, vars, reputationVars
<1> QED BY <1>1, <1>2

(* However often a score is read: within a day of an event it is what the  *)
(* event left, and later it is never above that.                           *)
THEOREM DecayCorrect == MCSpec => []DecayNeedsInactivity
<1>1. DecayInv => DecayNeedsInactivity
  BY DEF DecayInv, Decayed, DecayNeedsInactivity
<1> QED BY <1>1, MCNextIsNext, TypeInvInductive, DecayInductive, PTL DEF MCSpec

-----------------------------------------------------------------------------
(* Charges.                                                                *)

ChargeEnd == {"served", "refused", "simulated", "reward"}
ChargeOp == ChargeEnd \cup {"unused", "asks", "asleep"}
Charge == [op : ChargeOp, service : Services \cup {Screening}, attempt : Nat]
ReceiptRecord == [simulated : BOOLEAN, expires : Nat]
HistoryEntry == [id : Payments, success : BOOLEAN]

(* A history of entries of D in which no payment is twice.                 *)
History(h, D) ==
    /\ h \in Seq(D)
    /\ \A i, j \in DOMAIN h : h[i].id = h[j].id => i = j

(* The entries that are true, and stay so: their charge has ended.         *)
Truthful ==
    {e \in HistoryEntry : /\ charge[e.id].op \in ChargeEnd
                          /\ e.success <=> receipts[e.id] # NoReceipt}

ChargeInv ==
    /\ charge \in [Payments -> Charge]
    /\ receipts \in [Payments -> ReceiptRecord \cup {NoReceipt}]
    /\ clock \in Nat
    /\ History(payments, Truthful)
    /\ \A p \in Payments : receipts[p] # NoReceipt =>
          /\ charge[p].op \in ChargeEnd
          /\ ~receipts[p].simulated => p \in taken \/ charge[p].op = "reward"

(* A payment that is not in a history can be recorded in it.               *)
LEMMA RecordedKeeps ==
    ASSUME NEW D, NEW h, History(h, D), NEW p, NEW success, \A e \in D : e.id # p
    PROVE  History(Recorded(h, p, success), D \cup {[id |-> p, success |-> success]})
<1> DEFINE e == [id |-> p, success |-> success]
           E == D \cup {e}
           longer == Append(h, e)
<1>1. h \in Seq(E) /\ e \in E /\ h \in Seq(D)
  BY DEF History
<1>2. /\ longer \in Seq(E) /\ Len(longer) \in Nat /\ Len(longer) > 0
      /\ \A i, j \in DOMAIN longer : longer[i].id = longer[j].id => i = j
  <2>1. /\ DOMAIN longer = DOMAIN h \cup {Len(h) + 1}
        /\ longer[Len(h) + 1] = e
        /\ \A i \in DOMAIN h : longer[i] = h[i]
    BY <1>1
  <2>2. \A i \in DOMAIN h : h[i] \in D /\ h[i].id # p
    BY <1>1
  <2>3. e.id = p
    OBVIOUS
  <2>4. \A i, j \in DOMAIN longer : longer[i].id = longer[j].id => i = j
    <3> HIDE DEF longer, e
    <3> QED BY <2>1, <2>2, <2>3 DEF History
  <2>5. longer \in Seq(E) /\ Len(longer) \in Nat /\ Len(longer) > 0
    BY <1>1
  <2> QED BY <2>4, <2>5
<1>3. CASE Len(longer) > MaxPayments
  <2> DEFINE m == Len(longer) - KeepPayments + 1
             n == Len(longer)
  <2>1. m \in Int /\ n \in Int /\ m >= 1 /\ m <= n
    BY <1>2, <1>3, ChargeAssumption DEF ChargeAssumption
  <2>2. \A i \in m .. n : longer[i] \in E
    <3> HIDE DEF longer, E
    <3> QED BY <1>2, <2>1
  <2>3. /\ SubSeq(longer, m, n) \in Seq(E)
        /\ Len(SubSeq(longer, m, n)) = n - m + 1
        /\ \A i \in 1 .. n - m + 1 : SubSeq(longer, m, n)[i] = longer[m + i - 1]
    <3> HIDE DEF m, n, longer, E
    <3> QED BY <2>1, <2>2, SubSeqProperties
  <2>4. Recorded(h, p, success) = SubSeq(longer, m, n)
    BY <1>3 DEF Recorded
  <2> DEFINE part == SubSeq(longer, m, n)
  <2>5. DOMAIN part = 1 .. n - m + 1
    BY <2>3
  <2>6. \A i \in DOMAIN part : part[i] = longer[m + i - 1] /\ m + i - 1 \in DOMAIN longer
    <3>1. DOMAIN longer = 1 .. n
      BY <1>2
    <3> HIDE DEF m, n, longer, E
    <3> QED BY <2>1, <2>3, <2>5, <3>1
  <2>7. \A i, j \in DOMAIN part : part[i].id = part[j].id => i = j
    <3> SUFFICES ASSUME NEW i \in DOMAIN part, NEW j \in DOMAIN part, part[i].id = part[j].id
                 PROVE  i = j
      OBVIOUS
    <3> HIDE DEF part, longer
    <3>1. m + i - 1 = m + j - 1
      BY <1>2, <2>6
    <3>2. i \in Int /\ j \in Int
      BY <2>5
    <3> HIDE DEF m
    <3> QED BY <2>1, <3>1, <3>2
  <2>8. part \in Seq(E)
    BY <2>3
  <2>9. Recorded(h, p, success) = part
    BY <2>4
  <2> HIDE DEF part, E
  <2>10. History(Recorded(h, p, success), E)
    BY <2>7, <2>8, <2>9 DEF History
  <2> QED BY <2>10 DEF E
<1>4. CASE ~(Len(longer) > MaxPayments)
  BY <1>2, <1>4 DEF Recorded, History
<1> QED BY <1>3, <1>4

LEMMA HistoryGrows ==
    ASSUME NEW D, NEW E, D \subseteq E, NEW h, History(h, D)
    PROVE  History(h, E)
BY DEF History

(* Induction over a prefix of the numbers, with a set for the predicate.   *)
LEMMA UpTo ==
    ASSUME NEW N \in Nat, NEW G, 0 \in G, \A k \in 1 .. N : k - 1 \in G => k \in G
    PROVE  0 .. N \subseteq G
<1> DEFINE T == (0 .. N) \ G
<1>1. SUFFICES ASSUME T # {} PROVE FALSE
  OBVIOUS
<1>2. PICK n \in T : \A m \in T : ~(<<m, n>> \in OpToRel(<, Nat))
  <2>1. T \in SUBSET Nat
    OBVIOUS
  <2> HIDE DEF T
  <2> QED BY <1>1, <2>1, WFMin, NatLessThanWellFounded
<1>3. ASSUME NEW m \in T, m < n PROVE FALSE
  <2>1. m \in Nat /\ n \in Nat
    OBVIOUS
  <2> HIDE DEF T
  <2> QED BY <1>2, <1>3, <2>1 DEF OpToRel
<1>4. n \in 1 .. N /\ n - 1 \in 0 .. N /\ n - 1 < n
  OBVIOUS
<1> QED BY <1>3, <1>4

(* A batch is recorded one payment after the other: what the function      *)
(* inside BatchRecorded computes, of which first there is one.             *)
Records(batch, f, n) ==
    f[n] = IF n = 0 THEN payments ELSE Recorded(f[n - 1], batch[n], TRUE)

Rewarded(batch, k) == {[id |-> batch[i], success |-> TRUE] : i \in 1 .. k}

LEMMA OneMore ==
    ASSUME NEW D, NEW batch \in Seq(Payments), NEW k \in 1 .. Len(batch), NEW h,
           \A e \in D : e.id \notin ToSet(batch),
           \A i, j \in DOMAIN batch : batch[i] = batch[j] => i = j,
           History(h, D \cup Rewarded(batch, k - 1))
    PROVE  History(Recorded(h, batch[k], TRUE), D \cup Rewarded(batch, k))
<1>1. DOMAIN batch = 1 .. Len(batch) /\ Len(batch) \in Nat
  OBVIOUS
<1>2. Rewarded(batch, k) = Rewarded(batch, k - 1) \cup {[id |-> batch[k], success |-> TRUE]}
  <2>1. 1 .. k = (1 .. k - 1) \cup {k}
    OBVIOUS
  <2> QED BY <2>1 DEF Rewarded
<1>3. \A e \in Rewarded(batch, k - 1) : e.id # batch[k]
  <2> SUFFICES ASSUME NEW i \in 1 .. k - 1, batch[i] = batch[k] PROVE FALSE
    BY DEF Rewarded
  <2>1. i \in DOMAIN batch /\ k \in DOMAIN batch /\ i # k
    BY <1>1
  <2> QED BY <2>1
<1>4. \A e \in D : e.id # batch[k]
  BY <1>1 DEF ToSet
<1>5. History(Recorded(h, batch[k], TRUE),
              (D \cup Rewarded(batch, k - 1)) \cup {[id |-> batch[k], success |-> TRUE]})
  BY <1>3, <1>4, RecordedKeeps
<1>6. D \cup Rewarded(batch, k)
        = (D \cup Rewarded(batch, k - 1)) \cup {[id |-> batch[k], success |-> TRUE]}
  BY <1>2
<1> QED BY <1>5, <1>6

LEMMA RecordsExists ==
    ASSUME NEW batch \in Seq(Payments)
    PROVE  \E f : f = [n \in 0 .. Len(batch) |->
                         IF n = 0 THEN payments ELSE Recorded(f[n - 1], batch[n], TRUE)]
<1> DEFINE IsRun(f, k) == /\ f = [n \in 0 .. k |-> f[n]]
                          /\ \A n \in 0 .. k : Records(batch, f, n)
           Upto(k) == \E f : IsRun(f, k)
           G == {k \in 0 .. Len(batch) : Upto(k)}
<1>1. Len(batch) \in Nat
  OBVIOUS
<1>2. 0 \in G
  <2> DEFINE f == [n \in 0 .. 0 |-> payments]
  <2>1. IsRun(f, 0)
    BY DEF Records
  <2>2. Upto(0)
    BY <2>1
  <2>3. 0 \in 0 .. Len(batch)
    BY <1>1
  <2> HIDE DEF Upto
  <2> QED BY <2>2, <2>3
<1>3. ASSUME NEW k \in 1 .. Len(batch), k - 1 \in G PROVE k \in G
  <2>1. PICK f : IsRun(f, k - 1)
    BY <1>3
  <2> DEFINE g == [n \in 0 .. k |-> IF n < k THEN f[n]
                                     ELSE Recorded(f[k - 1], batch[k], TRUE)]
  <2>0. \A n \in 0 .. k : g[n] = IF n < k THEN f[n] ELSE Recorded(f[k - 1], batch[k], TRUE)
    OBVIOUS
  <2>2. ASSUME NEW n \in 0 .. k PROVE Records(batch, g, n)
    <3> HIDE DEF g
    <3>1. CASE n = k
      <4>1. k \in 0 .. k /\ k - 1 \in 0 .. k /\ k - 1 < k /\ ~(k < k) /\ k # 0
        OBVIOUS
      <4>2. g[k] = Recorded(f[k - 1], batch[k], TRUE) /\ g[k - 1] = f[k - 1]
        BY <2>0, <4>1
      <4> QED BY <3>1, <4>1, <4>2 DEF Records
    <3>2. CASE n # k
      <4>1. n \in 0 .. k - 1 /\ (n # 0 => n - 1 \in 0 .. k - 1)
        BY <3>2
      <4>2. n \in 0 .. k /\ n < k
        BY <3>2
      <4>3. n # 0 => n - 1 \in 0 .. k /\ n - 1 < k
        BY <3>2
      <4>4. g[n] = f[n]
        BY <2>0, <4>2
      <4>5. n # 0 => g[n - 1] = f[n - 1]
        BY <2>0, <4>3
      <4> QED BY <4>1, <4>4, <4>5, <2>1 DEF Records
    <3> QED BY <3>1, <3>2
  <2>3. g = [n \in 0 .. k |-> g[n]]
    OBVIOUS
  <2> HIDE DEF g
  <2>4. Upto(k)
    BY <2>2, <2>3
  <2> HIDE DEF Upto
  <2> QED BY <2>4
<1>4. 0 .. Len(batch) \subseteq G
  <2> HIDE DEF G
  <2> QED BY <1>1, <1>2, <1>3, UpTo
<1>5. PICK f : IsRun(f, Len(batch))
  <2>1. Len(batch) \in G
    <3> HIDE DEF G
    <3> QED BY <1>1, <1>4
  <2> QED BY <2>1
<1> QED BY <1>5 DEF Records

LEMMA BatchKeeps ==
    ASSUME NEW D, History(payments, D), NEW batch \in Seq(Payments),
           \A e \in D : e.id \notin ToSet(batch),
           \A i, j \in DOMAIN batch : batch[i] = batch[j] => i = j
    PROVE  History(BatchRecorded(batch), D \cup Rewarded(batch, Len(batch)))
<1> DEFINE h == CHOOSE f : f = [n \in 0 .. Len(batch) |->
                         IF n = 0 THEN payments ELSE Recorded(f[n - 1], batch[n], TRUE)]
           G == {k \in 0 .. Len(batch) : History(h[k], D \cup Rewarded(batch, k))}
<1>1. Len(batch) \in Nat
  OBVIOUS
<1>2. BatchRecorded(batch) = h[Len(batch)]
  BY DEF BatchRecorded
<1>3. h = [n \in 0 .. Len(batch) |->
              IF n = 0 THEN payments ELSE Recorded(h[n - 1], batch[n], TRUE)]
  BY RecordsExists
<1> HIDE DEF h
<1>4. 0 \in G
  <2>1. h[0] = payments /\ 0 \in 0 .. Len(batch)
    BY <1>1, <1>3
  <2>2. D \subseteq D \cup Rewarded(batch, 0)
    OBVIOUS
  <2> QED BY <2>1, <2>2, HistoryGrows
<1>5. ASSUME NEW k \in 1 .. Len(batch), k - 1 \in G PROVE k \in G
  <2>1. k \in 0 .. Len(batch) /\ k # 0
    BY <1>1
  <2>2. h[k] = Recorded(h[k - 1], batch[k], TRUE)
    BY <1>3, <2>1
  <2>3. History(h[k], D \cup Rewarded(batch, k))
    <3>1. History(h[k - 1], D \cup Rewarded(batch, k - 1))
      BY <1>5
    <3>2. History(Recorded(h[k - 1], batch[k], TRUE), D \cup Rewarded(batch, k))
      BY <3>1, OneMore
    <3> QED BY <2>2, <3>2
  <2> QED BY <2>1, <2>3
<1>6. Len(batch) \in G
  <2> HIDE DEF G
  <2>1. 0 .. Len(batch) \subseteq G
    BY <1>1, <1>4, <1>5, UpTo
  <2> QED BY <1>1, <2>1
<1> QED BY <1>2, <1>6

(* What SetToSeq makes of a finite set.                                    *)
LEMMA SetInSequence ==
    ASSUME NEW S, IsFiniteSet(S)
    PROVE  /\ SetToSeq(S) \in Seq(S)
           /\ \A i, j \in DOMAIN SetToSeq(S) : SetToSeq(S)[i] = SetToSeq(S)[j] => i = j
           /\ ToSet(SetToSeq(S)) = S
<1> DEFINE n == Cardinality(S)
           f == SetToSeq(S)
<1>1. n \in Nat
  BY FS_CardinalityType
<1>2. PICK b : b \in Bijection(1 .. n, S)
  <2>1. ExistsBijection(1 .. n, S)
    BY FS_CardinalityType
  <2> QED BY <2>1 DEF ExistsBijection
<1>3. b \in [1 .. n -> S] /\ IsInjective(b)
  BY <1>2 DEF Bijection, Injection, IsInjective
<1>4. f \in [1 .. n -> S] /\ IsInjective(f)
  BY <1>3 DEF SetToSeq
<1> HIDE DEF f
<1>5. f \in Seq(S) /\ DOMAIN f = 1 .. n
  <2> HIDE DEF n
  <2>1. DOMAIN f = 1 .. n /\ \A i \in 1 .. n : f[i] \in S
    BY <1>4
  <2>2. f = [i \in 1 .. n |-> f[i]]
    BY <1>4
  <2>3. f \in Seq(S)
    BY <1>1, <1>4, SeqDef
  <2> QED BY <2>1, <2>3
<1>6. \A i, j \in DOMAIN f : f[i] = f[j] => i = j
  BY <1>4 DEF IsInjective
<1>7. ToSet(f) = S
  <2>1. ToSet(f) \subseteq S
    BY <1>4, <1>5 DEF ToSet
  <2>2. f \in Bijection(1 .. n, ToSet(f))
    BY <1>4, <1>5, <1>6 DEF Bijection, Injection, Surjection, IsInjective, ToSet
  <2>3. Cardinality(ToSet(f)) = n
    <3>1. IsFiniteSet(1 .. n) /\ Cardinality(1 .. n) = n
      BY <1>1, FS_Interval
    <3>2. ExistsBijection(1 .. n, ToSet(f))
      BY <2>2 DEF ExistsBijection
    <3> QED BY <3>1, <3>2, FS_Bijection
  <2> QED BY <2>1, <2>3, FS_Subset
<1> QED BY <1>5, <1>6, <1>7 DEF f

LEMMA ChargeInit0 == ChargeInit => ChargeInv
<1> SUFFICES ASSUME ChargeInit PROVE ChargeInv
  OBVIOUS
<1>1. History(payments, Truthful)
  BY DEF ChargeInit, History
<1>2. Unused \in Charge
  BY DEF Unused, Charge, ChargeOp
<1> QED BY <1>1, <1>2 DEF ChargeInit, ChargeInv

(* A charge that has ended stays as it is, so what is true of it stays     *)
(* true.                                                                   *)
LEMMA TruthStays ==
    ASSUME \A p \in Payments : charge[p].op \in ChargeEnd =>
               charge'[p].op = charge[p].op /\ receipts'[p] = receipts[p]
    PROVE  Truthful \subseteq Truthful'
BY DEF Truthful, HistoryEntry

LEMMA ReceiptType ==
    ASSUME ChargeInv, NEW simulated \in BOOLEAN
    PROVE  /\ Receipt(simulated) \in ReceiptRecord /\ Receipt(simulated) # NoReceipt
           /\ Receipt(simulated).simulated = simulated
<1>1. clock \in Nat /\ ReceiptTTL \in Nat /\ NoReceipt \notin ReceiptRecord
  BY ChargeAssumption DEF ChargeInv, ChargeAssumption, ReceiptRecord
<1>2. clock + ReceiptTTL \in Nat
  BY <1>1
<1>3. Receipt(simulated) = [simulated |-> simulated, expires |-> clock + ReceiptTTL]
  BY DEF Receipt
<1>4. Receipt(simulated) \in ReceiptRecord
  BY <1>2, <1>3 DEF ReceiptRecord
<1>5. Receipt(simulated).simulated = simulated
  BY <1>3
<1> QED BY <1>1, <1>4, <1>5

(* The step that ends the charge of p, with or without a receipt.          *)
LEMMA SettlesKeeps ==
    ASSUME ChargeInv, NEW p \in Payments, Asks(p), NEW op \in ChargeEnd, Settles(p, op),
           taken \subseteq taken',
           receipts' \in [Payments -> ReceiptRecord \cup {NoReceipt}],
           \A q \in Payments \ {p} : receipts'[q] = receipts[q],
           op # "refused" <=> receipts'[p] # NoReceipt,
           receipts'[p] # NoReceipt /\ ~receipts'[p].simulated => p \in taken'
    PROVE  ChargeInv'
<1>1. charge' = [charge EXCEPT ![p].op = op] /\ clock' = clock
  BY DEF Settles
<1>2. /\ charge' \in [Payments -> Charge]
      /\ charge'[p].op = op
      /\ \A q \in Payments \ {p} : charge'[q] = charge[q]
  BY <1>1 DEF ChargeInv, Charge, ChargeOp
<1>3. charge[p].op \notin ChargeEnd
  BY DEF Asks, ChargeEnd
<1>4. Truthful \subseteq Truthful'
  BY <1>2, <1>3, TruthStays
<1> DEFINE e == [id |-> p, success |-> (op # "refused")]
<1>5. e \in Truthful'
  BY <1>2 DEF Truthful, HistoryEntry
<1>6. History(payments, Truthful)
  BY DEF ChargeInv
<1>7. \A f \in Truthful : f.id # p
  BY <1>3 DEF Truthful
<1>8. History(Recorded(payments, p, op # "refused"), Truthful \cup {e})
  BY <1>6, <1>7, RecordedKeeps
<1>9. History(Recorded(payments, p, op # "refused"), Truthful')
  <2>1. Truthful \cup {e} \subseteq Truthful'
    BY <1>4, <1>5
  <2> HIDE DEF e
  <2> QED BY <1>8, <2>1, HistoryGrows
<1>10. History(payments, Truthful')
  BY <1>4, <1>6, HistoryGrows
<1>11. History(payments', Truthful')
  BY <1>9, <1>10 DEF Settles
<1>12. \A q \in Payments : receipts'[q] # NoReceipt =>
          /\ charge'[q].op \in ChargeEnd
          /\ ~receipts'[q].simulated => q \in taken' \/ charge'[q].op = "reward"
  BY <1>2 DEF ChargeInv
<1> QED BY <1>1, <1>2, <1>11, <1>12 DEF ChargeInv, History

(* A step that leaves receipts and history alone.                          *)
LEMMA ChargeGoesOn ==
    ASSUME ChargeInv, NEW p \in Payments, charge[p].op \notin ChargeEnd,
           charge' \in [Payments -> Charge],
           \A q \in Payments \ {p} : charge'[q] = charge[q],
           UNCHANGED <<receipts, payments>>, clock' \in Nat, taken \subseteq taken'
    PROVE  ChargeInv'
<1>1. Truthful \subseteq Truthful'
  BY TruthStays
<1>2. History(payments', Truthful')
  BY <1>1, HistoryGrows DEF ChargeInv
<1> QED BY <1>2 DEF ChargeInv, History

LEMMA RewardsKeep ==
    ASSUME ChargeInv, NEW S \in SUBSET {p \in Payments : charge[p] = Unused},
           RewardAll(SetToSeq(S))
    PROVE  ChargeInv'
<1> DEFINE batch == SetToSeq(S)
<1>1. S \subseteq Payments /\ IsFiniteSet(S)
  BY ChargeAssumption, FS_Subset DEF ChargeAssumption
<1>2. /\ batch \in Seq(S) /\ ToSet(batch) = S
      /\ \A i, j \in DOMAIN batch : batch[i] = batch[j] => i = j
  BY <1>1, SetInSequence
<1>3. /\ charge' = [p \in Payments |-> IF p \in S THEN [Unused EXCEPT !.op = "reward"]
                                       ELSE charge[p]]
      /\ payments' = BatchRecorded(batch)
      /\ receipts' = [p \in Payments |-> IF p \in S THEN Receipt(FALSE) ELSE receipts[p]]
      /\ UNCHANGED <<registered, taken, clock>>
  BY <1>2 DEF RewardAll
<1> HIDE DEF batch
<1>4. Receipt(FALSE) \in ReceiptRecord /\ Receipt(FALSE) # NoReceipt /\ ~Receipt(FALSE).simulated
  BY ReceiptType
<1>5. /\ charge' \in [Payments -> Charge]
      /\ receipts' \in [Payments -> ReceiptRecord \cup {NoReceipt}]
  BY <1>3, <1>4 DEF ChargeInv, Charge, ChargeOp, ChargeEnd, Unused
<1>6. \A p \in S : charge[p].op \notin ChargeEnd /\ charge'[p].op = "reward"
                   /\ receipts'[p] = Receipt(FALSE)
  <2> SUFFICES ASSUME NEW p \in S
               PROVE  /\ charge[p].op \notin ChargeEnd /\ charge'[p].op = "reward"
                      /\ receipts'[p] = Receipt(FALSE)
    OBVIOUS
  <2>1. charge[p] = Unused /\ p \in Payments
    OBVIOUS
  <2>2. charge'[p] = [Unused EXCEPT !.op = "reward"] /\ receipts'[p] = Receipt(FALSE)
    BY <1>3, <2>1
  <2> QED BY <2>1, <2>2 DEF Unused, ChargeEnd
<1>7. \A p \in Payments \ S : charge'[p] = charge[p] /\ receipts'[p] = receipts[p]
  BY <1>3
<1>8. Truthful \subseteq Truthful'
  BY <1>6, <1>7, TruthStays
<1>9. \A e \in Truthful : e.id \notin ToSet(batch)
  BY <1>2, <1>6 DEF Truthful
<1>10. batch \in Seq(Payments)
  BY <1>1, <1>2
<1>11. History(BatchRecorded(batch), Truthful \cup Rewarded(batch, Len(batch)))
  BY <1>2, <1>9, <1>10, BatchKeeps DEF ChargeInv
<1>12. Rewarded(batch, Len(batch)) \subseteq Truthful'
  <2>1. \A i \in 1 .. Len(batch) : batch[i] \in S
    BY <1>2
  <2> SUFFICES ASSUME NEW p \in S PROVE [id |-> p, success |-> TRUE] \in Truthful'
    BY <2>1 DEF Rewarded
  <2> QED BY <1>1, <1>4, <1>6 DEF Truthful, HistoryEntry, ChargeEnd
<1>13. History(payments', Truthful')
  BY <1>3, <1>8, <1>11, <1>12, HistoryGrows
<1>14. \A p \in Payments : receipts'[p] # NoReceipt =>
          /\ charge'[p].op \in ChargeEnd
          /\ ~receipts'[p].simulated => p \in taken' \/ charge'[p].op = "reward"
  BY <1>3, <1>6, <1>7 DEF ChargeInv, ChargeEnd
<1> QED BY <1>3, <1>5, <1>13, <1>14 DEF ChargeInv, History

LEMMA ChargesKeep == ChargeInv /\ [ChargeNext]_chargeVars => ChargeInv'
<1> SUFFICES ASSUME ChargeInv, [ChargeNext]_chargeVars PROVE ChargeInv'
  OBVIOUS
<1>1. CASE UNCHANGED <<charge, receipts, payments, taken>> /\ clock' \in Nat
  <2>1. History(payments', Truthful')
    BY <1>1 DEF ChargeInv, Truthful
  <2> QED BY <1>1, <2>1 DEF ChargeInv, History
<1>2. ASSUME NEW p \in Payments, NEW service \in Services \cup {Screening}, Begins(p, service)
      PROVE  ChargeInv'
  <2>1. charge[p].op \notin ChargeEnd
    BY <1>2 DEF Begins, Unused, ChargeEnd
  <2>2. charge' \in [Payments -> Charge] /\ \A q \in Payments \ {p} : charge'[q] = charge[q]
    BY <1>2 DEF Begins, ChargeInv, Charge, ChargeOp
  <2> QED BY <1>2, <2>1, <2>2, ChargeGoesOn DEF Begins, ChargeInv
<1>3. ASSUME NEW p \in Payments, Served(p) PROVE ChargeInv'
  <2>1. /\ Receipt(FALSE) \in ReceiptRecord /\ Receipt(FALSE) # NoReceipt
    BY ReceiptType
  <2>2. /\ receipts' \in [Payments -> ReceiptRecord \cup {NoReceipt}]
        /\ receipts'[p] = Receipt(FALSE)
        /\ \A q \in Payments \ {p} : receipts'[q] = receipts[q]
    BY <1>3, <2>1 DEF Served, ChargeInv
  <2>3. Asks(p) /\ Settles(p, "served") /\ taken' = taken \cup {p} /\ "served" \in ChargeEnd
    BY <1>3 DEF Served, ChargeEnd
  <2> QED BY <2>1, <2>2, <2>3, SettlesKeeps
<1>4. ASSUME NEW p \in Payments, Refused(p) PROVE ChargeInv'
  <2>1. Asks(p) /\ Settles(p, "refused") /\ taken' = taken /\ "refused" \in ChargeEnd
        /\ receipts' = receipts
    BY <1>4 DEF Refused, ChargeEnd
  <2>2. receipts[p] = NoReceipt
    BY <2>1 DEF ChargeInv, Asks, ChargeEnd
  <2>3. receipts' \in [Payments -> ReceiptRecord \cup {NoReceipt}]
    BY <2>1 DEF ChargeInv
  <2> QED BY <2>1, <2>2, <2>3, SettlesKeeps
<1>5. ASSUME NEW p \in Payments, Simulates(p) PROVE ChargeInv'
  <2>1. Receipt(TRUE) \in ReceiptRecord /\ Receipt(TRUE) # NoReceipt /\ Receipt(TRUE).simulated
    BY ReceiptType
  <2>2. /\ receipts' \in [Payments -> ReceiptRecord \cup {NoReceipt}]
        /\ receipts'[p] = Receipt(TRUE)
        /\ \A q \in Payments \ {p} : receipts'[q] = receipts[q]
    BY <1>5, <2>1 DEF Simulates, MarkedReceipt, ChargeInv
  <2>3. Asks(p) /\ Settles(p, "simulated") /\ taken \subseteq taken' /\ "simulated" \in ChargeEnd
    BY <1>5 DEF Simulates, Lost, ChargeEnd
  <2> QED BY <2>1, <2>2, <2>3, SettlesKeeps
<1>6. ASSUME NEW p \in Payments, FailsOnce(p) \/ TriesAgain(p) PROVE ChargeInv'
  <2>1. charge[p].op \notin ChargeEnd
    BY <1>6 DEF FailsOnce, TriesAgain, Lost, Asks, ChargeEnd
  <2>2. charge' \in [Payments -> Charge] /\ \A q \in Payments \ {p} : charge'[q] = charge[q]
    <3>1. CASE FailsOnce(p)
      BY <3>1 DEF FailsOnce, ChargeInv, Charge, ChargeOp
    <3>2. CASE TriesAgain(p)
      <4>1. charge[p] \in Charge /\ charge[p].attempt + 1 \in Nat
        BY DEF ChargeInv, Charge
      <4>2. charge' = [charge EXCEPT ![p] =
                          [charge[p] EXCEPT !.op = "asks", !.attempt = charge[p].attempt + 1]]
        BY <3>2, <4>1 DEF TriesAgain, ChargeInv, Charge
      <4>3. [charge[p] EXCEPT !.op = "asks", !.attempt = charge[p].attempt + 1] \in Charge
        BY <4>1 DEF Charge, ChargeOp
      <4> QED BY <4>2, <4>3 DEF ChargeInv
    <3> QED BY <1>6, <3>1, <3>2
  <2>3. taken \subseteq taken' /\ UNCHANGED <<receipts, payments, clock>>
    BY <1>6 DEF FailsOnce, TriesAgain, Lost
  <2> QED BY <2>1, <2>2, <2>3, ChargeGoesOn DEF ChargeInv
<1>7. ASSUME NEW service \in Services, Register(service) PROVE ChargeInv'
  BY <1>1, <1>7 DEF Register, ChargeInv
<1>8. CASE ClockTicks
  BY <1>1, <1>8 DEF ClockTicks, ChargeInv
<1>9. CASE UNCHANGED chargeVars
  BY <1>1, <1>9 DEF chargeVars, ChargeInv
<1> QED BY <1>2, <1>3, <1>4, <1>5, <1>6, <1>7, <1>8, <1>9, RewardsKeep
        DEF ChargeNext, PayForService, CallComplianceAgent

(* Whatever answers are lost and whatever attempts are repeated, over any  *)
(* number of payments, batches and trims of the history: a receipt that    *)
(* verifies unmarked is of a payment a provider took or of a reward, and   *)
(* the history has a payment once, as a success if and only if it has a    *)
(* receipt.                                                                *)
THEOREM ReceiptsCorrect == ChargeSpec => []ReceiptsAreTrue
<1>1. ChargeInv => ReceiptsAreTrue
  <2> SUFFICES ASSUME ChargeInv PROVE ReceiptsAreTrue
    OBVIOUS
  <2>1. \A i \in DOMAIN payments : payments[i] \in Truthful
    BY DEF ChargeInv, History
  <2>2. \A i \in DOMAIN payments : payments[i].success <=> receipts[payments[i].id] # NoReceipt
    BY <2>1 DEF Truthful
  <2> QED BY <2>2 DEF ChargeInv, History, ReceiptsAreTrue, Verifies
<1> QED BY <1>1, ChargeInit0, ChargesKeep, PTL DEF ChargeSpec

=============================================================================
