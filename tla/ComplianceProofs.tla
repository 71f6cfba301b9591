-------------------------- MODULE ComplianceProofs --------------------------
(***************************************************************************)
(* Theorems of Compliance with the histories of MCCompliance, for every    *)
(* set of users, addresses and calls that overlap, every lifetime of the   *)
(* caches and every limit.                                                 *)
(*                                                                         *)
(* The two plugins answer from a cache or from what they keep beside it.   *)
(* The invariant ties each cache to the other: a credential to the record, *)
(* a verdict to an entry of the audit trail, the limits to the file.       *)
(***************************************************************************)
EXTENDS MCCompliance, TLAPS

USE ComplianceAssumption

-----------------------------------------------------------------------------
(* Levels *)

(* A verification that waits found a lower level than it asks for.         *)
VerificationsRaise ==
    \A c \in Calls : call[c].op = "verify" =>
        /\ call[c].user \in Users /\ call[c].level \in Wanted
        /\ call[c].found \in Levels /\ call[c].found < call[c].level

KycInv ==
    /\ now \in Nat /\ restarts \in Nat
    /\ record \in [Users -> Levels]
    /\ credential \in [Users -> [level : Levels, expires : Nat]]
    /\ DOMAIN call = Calls
    /\ VerificationsRaise
    /\ CredentialAgreesWithRecord

LEMMA KycInitInv == MCInit => KycInv
BY DEF MCInit, Init, KycInv, VerificationsRaise, CredentialAgreesWithRecord, CredentialValid,
       Levels, NoCredential, Idle

(* A call that ends leaves the others as they are.                         *)
LEMMA EndsKeepsOthers ==
    ASSUME KycInv, NEW c \in Calls, NEW result, Ends(c, result)
    PROVE  DOMAIN call' = Calls /\ VerificationsRaise'
BY DEF KycInv, VerificationsRaise, Ends, Idle

LEMMA VerifiedKeeps ==
    ASSUME KycInv, NEW c \in Calls, NEW u \in Users, NEW l \in Wanted, Verified(c, u, l),
           UNCHANGED <<now, restarts>>
    PROVE  KycInv'
<1>1. DOMAIN call' = Calls /\ VerificationsRaise'
  BY EndsKeepsOthers DEF Verified
<1>2. record' = [record EXCEPT ![u] = l]
      /\ credential' = [credential EXCEPT ![u] = [level |-> l, expires |-> now + KycLife]]
  BY DEF Verified, CacheCredential
<1> QED BY <1>1, <1>2 DEF KycInv, Wanted, CredentialAgreesWithRecord, CredentialValid

LEMMA VerifyKeeps ==
    ASSUME KycInv, NEW c \in Calls, NEW u \in Users, NEW l \in Wanted, Verify(c, u, l)
    PROVE  KycInv'
<1>1. UNCHANGED <<now, restarts>>
  BY DEF Verify
<1>2. CASE UNCHANGED kycVars /\ \E result : Ends(c, result)
  BY <1>1, <1>2, EndsKeepsOthers DEF kycVars, KycInv, CredentialAgreesWithRecord, CredentialValid
<1>3. CASE /\ CacheCredential(u, record[u]) /\ UNCHANGED record
           /\ \E result : Ends(c, result)
  BY <1>1, <1>3, EndsKeepsOthers
    DEF CacheCredential, KycInv, CredentialAgreesWithRecord, CredentialValid
<1>4. CASE /\ DropExpired(u) /\ ~Known(u, l) /\ UNCHANGED record
           /\ Waits(c, [op |-> "verify", user |-> u, level |-> l, found |-> record[u]])
  <2>1. VerificationsRaise' /\ DOMAIN call' = Calls
    BY <1>4 DEF KycInv, VerificationsRaise, Waits, Known, Wanted, Levels
  <2>2. /\ credential' \in [Users -> [level : Levels, expires : Nat]]
        /\ CredentialAgreesWithRecord'
    BY <1>1, <1>4
      DEF KycInv, DropExpired, CredentialAgreesWithRecord, CredentialValid, NoCredential, Levels
  <2> QED BY <1>1, <1>4, <2>1, <2>2 DEF KycInv
<1>5. CASE Verified(c, u, l)
  BY <1>1, <1>5, VerifiedKeeps
<1> QED BY <1>2, <1>3, <1>4, <1>5 DEF Verify

(* Screenings, and the checks of a transfer, wait under other names.       *)
LEMMA ScreenKeepsVerifications ==
    ASSUME KycInv, NEW c \in Calls, NEW op \in {"screen", "gate"}, NEW a, NEW country,
           NEW amount, Screen(c, op, a, country, amount)
    PROVE  DOMAIN call' = Calls /\ VerificationsRaise'
<1>1. CASE \E result : Ends(c, result)
  BY <1>1, EndsKeepsOthers
<1>2. CASE Waits(c, [op |-> op, address |-> a, country |-> country, amount |-> amount])
  BY <1>2 DEF KycInv, VerificationsRaise, Waits
<1> QED BY <1>1, <1>2 DEF Screen, Screened

LEMMA KycStepKeeps == KycInv /\ [Next]_vars => KycInv'
<1> SUFFICES ASSUME KycInv, [Next]_vars PROVE KycInv'
  OBVIOUS
<1>1. ASSUME UNCHANGED <<kycVars, now, restarts>>, DOMAIN call' = Calls /\ VerificationsRaise'
      PROVE  KycInv'
  BY <1>1 DEF kycVars, KycInv, CredentialAgreesWithRecord, CredentialValid
<1>2. ASSUME NEW c \in Calls, SelfAnswers(c) PROVE KycInv'
  <2>1. call[c].user \in Users /\ call[c].level \in Wanted /\ UNCHANGED <<now, restarts>>
    BY <1>2 DEF SelfAnswers, KycInv, VerificationsRaise
  <2> QED BY <1>1, <1>2, <2>1, VerifiedKeeps, EndsKeepsOthers DEF SelfAnswers
<1>3. ASSUME NEW c \in Calls, NEW a \in Addresses, NEW country \in Countries,
             NEW amount \in Amounts, ScreenRecipient(c, a, country, amount)
      PROVE  KycInv'
  BY <1>1, <1>3, ScreenKeepsVerifications DEF ScreenRecipient
<1>4. ASSUME NEW c \in Calls, AgentAnswers(c) \/ AgentAnswersNothing(c) PROVE KycInv'
  BY <1>1, <1>4, EndsKeepsOthers DEF AgentAnswers, AgentAnswersNothing, Screened
<1>5. ASSUME NEW c \in Calls, NEW u \in Users, NEW a \in Addresses, NEW amount \in Amounts,
             CheckTransfer(c, u, a, amount)
      PROVE  KycInv'
  BY <1>1, <1>5, ScreenKeepsVerifications, EndsKeepsOthers DEF CheckTransfer
<1>6. ASSUME NEW u \in Users, NEW limit \in Limits, SetLimit(u, limit) PROVE KycInv'
  BY <1>1, <1>6 DEF SetLimit, KycInv, VerificationsRaise
<1>7. CASE Restart
  BY <1>7 DEF Restart, KycInv, VerificationsRaise, CredentialAgreesWithRecord, CredentialValid,
              NoCredential, Idle, Levels
<1>8. CASE Tick
  BY <1>8 DEF Tick, kycVars, KycInv, VerificationsRaise, CredentialAgreesWithRecord, CredentialValid
<1>9. CASE UNCHANGED vars
  BY <1>1, <1>9 DEF vars, KycInv, VerificationsRaise
<1> QED BY <1>2, <1>3, <1>4, <1>5, <1>6, <1>7, <1>8, <1>9, VerifyKeeps DEF Next

LEMMA KycCorrect == MCSpec => []KycInv
<1>1. KycInv /\ [MCNext]_mcVars => KycInv'
  BY KycStepKeeps DEF MCNext, mcVars
<1> QED BY <1>1, KycInitInv, PTL DEF MCSpec

(* A valid credential in the cache has the level on record, through        *)
(* verifications that overlap, fail and answer late.                       *)
THEOREM CredentialCorrect == MCSpec => []CredentialAgreesWithRecord
<1>1. KycInv => CredentialAgreesWithRecord
  BY DEF KycInv
<1> QED BY <1>1, KycCorrect, PTL

(* A level on record falls only by a restart, or by the late answer to a   *)
(* verification that began when the level was lower than it asked for.     *)
THEOREM LevelsFallByOverlap == MCSpec => LevelFallsOnlyByOverlap
<1> DEFINE ByOverlap ==
        restarts' = restarts =>
            \A u \in Users : record'[u] < record[u] =>
                \E c \in Calls : /\ call[c].op = "verify" /\ call[c].user = u
                                 /\ call[c].level = record'[u]
                                 /\ call[c].found < record'[u]
<1>1. KycInv /\ [MCNext]_mcVars => [ByOverlap]_mcVars
  <2> SUFFICES ASSUME KycInv, [Next]_vars, restarts' = restarts, NEW u \in Users,
                      record'[u] < record[u]
               PROVE  \E c \in Calls : /\ call[c].op = "verify" /\ call[c].user = u
                                       /\ call[c].level = record'[u]
                                       /\ call[c].found < record'[u]
    BY DEF MCNext, mcVars
  <2>1. record[u] \in Levels /\ record # record'
    BY DEF KycInv, Levels
  <2>2. ASSUME NEW c \in Calls, NEW v \in Users, NEW l \in Wanted, Verify(c, v, l) PROVE FALSE
    <3>1. record' = [record EXCEPT ![v] = l] /\ ~Known(v, l)
      BY <2>1, <2>2 DEF Verify, Verified, kycVars
    <3> QED BY <2>1, <3>1 DEF Known, KycInv, Levels, Wanted
  <2>3. ASSUME NEW c \in Calls, SelfAnswers(c)
        PROVE  \E d \in Calls : /\ call[d].op = "verify" /\ call[d].user = u
                                /\ call[d].level = record'[u] /\ call[d].found < record'[u]
    <3>1. /\ call[c].op = "verify"
          /\ record' = [record EXCEPT ![call[c].user] = call[c].level]
      BY <2>1, <2>3 DEF SelfAnswers, Verified, kycVars
    <3>2. call[c].user = u /\ call[c].level = record'[u]
      BY <2>1, <3>1 DEF KycInv, VerificationsRaise, Levels, Wanted
    <3> QED BY <3>1, <3>2 DEF KycInv, VerificationsRaise
  <2>4. ~Restart
    BY DEF Restart, KycInv
  <2> QED BY <2>1, <2>2, <2>3, <2>4
        DEF Next, ScreenRecipient, AgentAnswers, AgentAnswersNothing, CheckTransfer, SetLimit, Tick,
            vars, kycVars
<1> QED BY <1>1, KycCorrect, PTL DEF MCSpec, LevelFallsOnlyByOverlap

-----------------------------------------------------------------------------
(* Screenings *)

(* A verdict in the cache is one of the audit trail, and lives ScreenLife  *)
(* from its entry.                                                         *)
VerdictsAudited ==
    \A a \in Addresses : screened[a].expires # 0 =>
        \E i \in DOMAIN audit : /\ audit[i].address = a
                                /\ audit[i].status = screened[a].status
                                /\ screened[a].expires = audit[i].at + ScreenLife

(* Who waits for the agent, waits for a verdict on an address.             *)
ScreeningsOfAddresses ==
    \A c \in Calls : call[c].op \in {"screen", "gate"} => call[c].address \in Addresses

ScreenInv ==
    /\ now \in Nat
    /\ screened \in [Addresses -> [status : Statuses, expires : Nat]]
    /\ audit \in Seq([address : Addresses, status : Statuses, at : Nat])
    /\ DOMAIN call = Calls
    /\ ScreeningsOfAddresses
    /\ VerdictsAudited
    /\ PassesOnFreshVerdict

LEMMA ScreenInitInv == MCInit => ScreenInv
BY DEF MCInit, Init, ScreenInv, ScreeningsOfAddresses, VerdictsAudited, PassesOnFreshVerdict,
       NotScreened, Statuses, Idle

LEMMA RiskIsClearOrFlagged ==
    ASSUME NEW a, NEW country, NEW amount
    PROVE  Simulated(a, country, amount) \in Statuses
BY DEF Simulated, Statuses

(* A fresh screening puts its entry behind the others, and the verdict     *)
(* that is cached and answered is of that entry.                           *)
LEMMA ScreenedKeeps ==
    ASSUME ScreenInv, NEW c \in Calls, NEW op \in {"screen", "gate"}, NEW a \in Addresses,
           NEW country, NEW status \in Statuses, Screened(c, op, a, country, status),
           UNCHANGED now
    PROVE  ScreenInv'
<1> DEFINE entry == [address |-> a, status |-> status, at |-> now]
<1>1. entry \in [address : Addresses, status : Statuses, at : Nat]
  BY DEF ScreenInv
<1>2. /\ audit' = Append(audit, entry)
      /\ screened' = [screened EXCEPT ![a] = [status |-> status, expires |-> now + ScreenLife]]
      /\ call' = [call EXCEPT ![c] = Idle]
      /\ answer' = Judged(op, a, country, status)
  BY DEF Screened, Ends
<1> HIDE DEF entry
<1>3. /\ audit' \in Seq([address : Addresses, status : Statuses, at : Nat])
      /\ Len(audit') = Len(audit) + 1 /\ audit'[Len(audit')] = entry
      /\ \A i \in DOMAIN audit : i \in DOMAIN audit' /\ audit'[i] = audit[i]
      /\ Len(audit') \in DOMAIN audit'
  BY <1>1, <1>2 DEF ScreenInv
<1>4. VerdictsAudited'
  <2> SUFFICES ASSUME NEW b \in Addresses, screened'[b].expires # 0
               PROVE  \E i \in DOMAIN audit' :
                          /\ audit'[i].address = b
                          /\ audit'[i].status = screened'[b].status
                          /\ screened'[b].expires = audit'[i].at + ScreenLife
    BY DEF VerdictsAudited
  <2>1. CASE b = a
    <3>1. screened'[b] = [status |-> status, expires |-> now + ScreenLife]
      BY <1>2, <2>1 DEF ScreenInv
    <3> QED BY <1>3, <2>1, <3>1 DEF entry
  <2>2. CASE b # a
    <3>1. screened'[b] = screened[b]
      BY <1>2, <2>2 DEF ScreenInv
    <3>2. PICK i \in DOMAIN audit : /\ audit[i].address = b
                                    /\ audit[i].status = screened[b].status
                                    /\ screened[b].expires = audit[i].at + ScreenLife
      BY <2>2, <3>1 DEF ScreenInv, VerdictsAudited
    <3> QED BY <1>3, <3>1, <3>2
  <2> QED BY <2>1, <2>2
<1>5. PassesOnFreshVerdict'
  <2>1. answer'.op = "passed" =>
            answer'.address = entry.address /\ entry.status = "clear" /\ answer'.at = entry.at
    BY <1>2 DEF Judged, entry
  <2>2. entry.at < entry.at + ScreenLife
    BY DEF entry, ScreenInv
  <2> QED BY <1>3, <2>1, <2>2 DEF PassesOnFreshVerdict
<1>6. screened' \in [Addresses -> [status : Statuses, expires : Nat]]
  BY <1>2 DEF ScreenInv
<1>7. DOMAIN call' = Calls /\ ScreeningsOfAddresses'
  BY <1>2 DEF ScreenInv, ScreeningsOfAddresses, Idle
<1> QED BY <1>3, <1>4, <1>5, <1>6, <1>7 DEF ScreenInv

LEMMA ScreenKeeps ==
    ASSUME ScreenInv, NEW c \in Calls, NEW op \in {"screen", "gate"}, NEW a \in Addresses,
           NEW country, NEW amount, Screen(c, op, a, country, amount), UNCHANGED now
    PROVE  ScreenInv'
<1>1. CASE /\ ScreeningValid(a) /\ UNCHANGED screenVars
           /\ Ends(c, Judged(op, a, country, screened[a].status))
  <2>1. PICK i \in DOMAIN audit : /\ audit[i].address = a
                                  /\ audit[i].status = screened[a].status
                                  /\ screened[a].expires = audit[i].at + ScreenLife
    BY <1>1 DEF ScreeningValid, ScreenInv, VerdictsAudited
  <2>2. /\ UNCHANGED <<screened, audit>>
        /\ answer' = Judged(op, a, country, screened[a].status)
        /\ call' = [call EXCEPT ![c] = Idle]
    BY <1>1 DEF screenVars, Ends
  <2>3. PassesOnFreshVerdict'
    BY <1>1, <2>1, <2>2 DEF PassesOnFreshVerdict, Judged, ScreeningValid
  <2> QED BY <2>2, <2>3 DEF ScreenInv, ScreeningsOfAddresses, VerdictsAudited, Idle
<1>2. CASE /\ Waits(c, [op |-> op, address |-> a, country |-> country, amount |-> amount])
           /\ screened' = [screened EXCEPT ![a] = NotScreened]
           /\ UNCHANGED audit
  <2>1. ScreeningsOfAddresses' /\ DOMAIN call' = Calls
    BY <1>2 DEF Waits, ScreenInv, ScreeningsOfAddresses
  <2>2. screened' \in [Addresses -> [status : Statuses, expires : Nat]] /\ VerdictsAudited'
    BY <1>2 DEF ScreenInv, VerdictsAudited, NotScreened, Statuses
  <2> QED BY <1>2, <2>1, <2>2 DEF Waits, ScreenInv, PassesOnFreshVerdict
<1>3. CASE Screened(c, op, a, country, Simulated(a, country, amount))
  BY <1>3, ScreenedKeeps, RiskIsClearOrFlagged
<1> QED BY <1>1, <1>2, <1>3 DEF Screen

(* A call that ends without a verdict.                                     *)
LEMMA OtherAnswerKeeps ==
    ASSUME ScreenInv, NEW c \in Calls, NEW result, Ends(c, result), result.op # "passed",
           UNCHANGED <<screened, audit, now>>
    PROVE  ScreenInv'
BY DEF ScreenInv, Ends, ScreeningsOfAddresses, VerdictsAudited, PassesOnFreshVerdict, Idle

LEMMA ScreenStepKeeps == ScreenInv /\ [Next]_vars => ScreenInv'
<1> SUFFICES ASSUME ScreenInv, [Next]_vars PROVE ScreenInv'
  OBVIOUS
<1>1. ASSUME NEW c \in Calls, NEW u \in Users, NEW l \in Wanted, Verify(c, u, l)
      PROVE  ScreenInv'
  <2>1. UNCHANGED <<screened, audit, now>>
    BY <1>1 DEF Verify, screenVars
  <2>2. CASE Waits(c, [op |-> "verify", user |-> u, level |-> l, found |-> record[u]])
    BY <2>1, <2>2 DEF Waits, ScreenInv, ScreeningsOfAddresses, VerdictsAudited,
                      PassesOnFreshVerdict
  <2> QED BY <1>1, <2>1, <2>2, OtherAnswerKeeps DEF Verify, Verified
<1>2. ASSUME NEW c \in Calls, SelfAnswers(c) PROVE ScreenInv'
  BY <1>2, OtherAnswerKeeps DEF SelfAnswers, screenVars, Verified
<1>3. ASSUME NEW c \in Calls, NEW a \in Addresses, NEW country \in Countries,
             NEW amount \in Amounts, ScreenRecipient(c, a, country, amount)
      PROVE  ScreenInv'
  BY <1>3, ScreenKeeps DEF ScreenRecipient
<1>4. ASSUME NEW c \in Calls, AgentAnswers(c) PROVE ScreenInv'
  <2>1. call[c].op \in {"screen", "gate"} /\ call[c].address \in Addresses /\ UNCHANGED now
    BY <1>4 DEF AgentAnswers, ScreenInv, ScreeningsOfAddresses
  <2>2. PICK status \in Statuses :
            Screened(c, call[c].op, call[c].address, call[c].country, status)
    BY <1>4, RiskIsClearOrFlagged DEF AgentAnswers
  <2> QED BY <2>1, <2>2, ScreenedKeeps
<1>5. ASSUME NEW c \in Calls, AgentAnswersNothing(c) PROVE ScreenInv'
  BY <1>5, OtherAnswerKeeps DEF AgentAnswersNothing, screenVars
<1>6. ASSUME NEW c \in Calls, NEW u \in Users, NEW a \in Addresses, NEW amount \in Amounts,
             CheckTransfer(c, u, a, amount)
      PROVE  ScreenInv'
  BY <1>6, ScreenKeeps, OtherAnswerKeeps DEF CheckTransfer, screenVars
<1>7. ASSUME NEW u \in Users, NEW limit \in Limits, SetLimit(u, limit) PROVE ScreenInv'
  BY <1>7 DEF SetLimit, screenVars, ScreenInv, ScreeningsOfAddresses, VerdictsAudited,
              PassesOnFreshVerdict
<1>8. CASE Restart
  BY <1>8 DEF Restart, ScreenInv, ScreeningsOfAddresses, VerdictsAudited, PassesOnFreshVerdict,
              NotScreened, Statuses, Idle
<1>9. CASE Tick
  BY <1>9 DEF Tick, screenVars, ScreenInv, ScreeningsOfAddresses, VerdictsAudited,
              PassesOnFreshVerdict
<1>10. CASE UNCHANGED vars
  BY <1>10 DEF vars, screenVars, ScreenInv, ScreeningsOfAddresses, VerdictsAudited,
               PassesOnFreshVerdict
<1> QED BY <1>1, <1>2, <1>3, <1>4, <1>5, <1>6, <1>7, <1>8, <1>9, <1>10 DEF Next

(* Whoever is let through had a clear verdict in the audit trail, at most  *)
(* a lifetime of a screening ago, however screenings of the address        *)
(* overlap.                                                                *)
THEOREM PassesCorrect == MCSpec => []PassesOnFreshVerdict
<1>1. ScreenInv /\ [MCNext]_mcVars => ScreenInv'
  BY ScreenStepKeeps DEF MCNext, mcVars
<1>2. ScreenInv => PassesOnFreshVerdict
  BY DEF ScreenInv
<1> QED BY <1>1, <1>2, ScreenInitInv, PTL DEF MCSpec

-----------------------------------------------------------------------------
(* Limits *)

(* As long as every save went well, the file has the limits in memory, and *)
(* both are what the users set.                                            *)
LimitInv ==
    /\ limits \in [Users -> Nat]
    /\ lastSet \in [Users -> Nat]
    /\ ~saveFailed => limits = lastSet /\ limitsFile = limits

LEMMA LimitInitInv == MCInit => LimitInv
BY DEF MCInit, Init, LimitInv, DefaultLimit

LEMMA LimitStepKeeps == LimitInv /\ limitsFile \in [Users -> Nat] \cup {Torn}
                          /\ restarts \in Nat /\ [MCNext]_mcVars
                            => LimitInv' /\ limitsFile' \in [Users -> Nat] \cup {Torn}
                                         /\ restarts' \in Nat
<1> SUFFICES ASSUME LimitInv, limitsFile \in [Users -> Nat] \cup {Torn}, restarts \in Nat,
                    [MCNext]_mcVars
             PROVE  LimitInv' /\ limitsFile' \in [Users -> Nat] \cup {Torn} /\ restarts' \in Nat
  OBVIOUS
<1>1. ASSUME NEW u \in Users, NEW limit \in Limits, SetLimit(u, limit), MCNext
      PROVE  LimitInv' /\ limitsFile' \in [Users -> Nat] \cup {Torn} /\ restarts' \in Nat
  <2>1. /\ limits' = [limits EXCEPT ![u] = limit] /\ restarts' = restarts
        /\ limitsFile' \in {limits', limitsFile, Torn}
        /\ saveFailed' = (saveFailed \/ SaveFails)
        /\ lastSet' = [v \in Users |-> IF limits'[v] # limits[v] THEN limits'[v] ELSE lastSet[v]]
    BY <1>1 DEF SetLimit, SaveLimits, MCNext, SetBy
  <2>2. limits' \in [Users -> Nat] /\ lastSet' \in [Users -> Nat]
    BY <2>1 DEF LimitInv
  <2>3. ASSUME ~saveFailed' PROVE limits' = lastSet' /\ limitsFile' = limits'
    <3>1. ~saveFailed /\ (limitsFile' = limits' \/ UNCHANGED limitVars)
      BY <2>1, <2>3 DEF SaveFails
    <3>2. limits = lastSet /\ limitsFile = limits
      BY <3>1 DEF LimitInv
    <3>3. \A v \in Users : limits'[v] = lastSet'[v]
      BY <2>1, <3>2 DEF LimitInv
    <3> QED BY <2>1, <2>2, <3>1, <3>2, <3>3 DEF LimitInv, limitVars
  <2> QED BY <2>1, <2>2, <2>3 DEF LimitInv
<1>2. ASSUME Restart, MCNext
      PROVE  LimitInv' /\ limitsFile' \in [Users -> Nat] \cup {Torn} /\ restarts' \in Nat
  <2>1. /\ limits' = LoadLimits /\ limitsFile' = limitsFile /\ restarts' = restarts + 1
        /\ lastSet' = [v \in Users |-> lastSet[v]]
        /\ saveFailed' = (saveFailed \/ SaveFails)
    BY <1>2 DEF Restart, MCNext, SetBy
  <2>2. ~SaveFails
    BY <2>1 DEF SaveFails
  <2>3. LoadLimits \in [Users -> Nat] /\ (~saveFailed => LoadLimits = limits)
    BY DEF LoadLimits, LimitInv, DefaultLimit
  <2>4. lastSet' = lastSet
    BY <2>1 DEF LimitInv
  <2>5. ASSUME ~saveFailed' PROVE limits' = lastSet' /\ limitsFile' = limits'
    <3>1. ~saveFailed
      BY <2>1, <2>5
    <3> QED BY <2>1, <2>3, <2>4, <3>1 DEF LimitInv
  <2>6. limits' \in [Users -> Nat] /\ lastSet' \in [Users -> Nat] /\ restarts' \in Nat
    BY <2>1, <2>3, <2>4 DEF LimitInv
  <2> QED BY <2>1, <2>5, <2>6 DEF LimitInv
<1>3. ASSUME UNCHANGED <<limitVars, restarts>>, MCNext
      PROVE  LimitInv' /\ limitsFile' \in [Users -> Nat] \cup {Torn} /\ restarts' \in Nat
  <2>1. /\ UNCHANGED <<limits, limitsFile, restarts>>
        /\ lastSet' = [v \in Users |-> lastSet[v]]
        /\ saveFailed' = (saveFailed \/ SaveFails)
    BY <1>3 DEF MCNext, SetBy, limitVars
  <2>2. ~SaveFails
    BY <1>3 DEF SaveFails
  <2> QED BY <2>1, <2>2 DEF LimitInv
<1>4. CASE UNCHANGED mcVars
  BY <1>4 DEF mcVars, vars, limitVars, LimitInv
<1> QED BY <1>1, <1>2, <1>3, <1>4
      DEF MCNext, Next, Verify, SelfAnswers, ScreenRecipient, AgentAnswers, AgentAnswersNothing,
          CheckTransfer, Tick

(* A limit a user set outlives restarts, unless some save failed.          *)
THEOREM LimitsCorrect == MCSpec => []LimitOutlivesRestart
<1> DEFINE I == LimitInv /\ limitsFile \in [Users -> Nat] \cup {Torn} /\ restarts \in Nat
<1>1. MCInit => I
  BY LimitInitInv DEF MCInit, Init, DefaultLimit
<1>2. I /\ [MCNext]_mcVars => I'
  BY LimitStepKeeps
<1>3. I => LimitOutlivesRestart
  BY DEF LimitInv, LimitOutlivesRestart
<1> QED BY <1>1, <1>2, <1>3, PTL DEF MCSpec

=============================================================================
