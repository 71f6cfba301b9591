---------------------------- MODULE Compliance ----------------------------
(***************************************************************************)
(* plugins/kyc_plugin.py, plugins/compliance_agent_plugin.py, the spending *)
(* limits of plugins/remittance_plugin.py, and the checks execute_transfer *)
(* and send_token make with them.                                          *)
(*                                                                         *)
(* The limits are kept in a file.  The other two plugins keep their state  *)
(* in memory and put a cache before a remote service.  Only the call of    *)
(* the service suspends: a verification of identity when an API key is     *)
(* set, a screening when a compliance agent is.  Between the call and its  *)
(* answer any other call may run, of the same user or address too.         *)
(*                                                                         *)
(* A KYC level is its rank.  Addresses are those after lower().  Hashes,   *)
(* ids, fees and messages are left out; the screening cache is on, as      *)
(* agent_factory.py and main.py leave it.                                  *)
(***************************************************************************)
EXTENDS Integers, Sequences, FiniteSets

CONSTANTS Users, Addresses, Calls,
          Countries, HighRisk,    \* destinations, HIGH_RISK_JURISDICTIONS
          NoCountry,              \* "", what a transfer screens for
          Suspicious,             \* addresses that begin with 0x0000
          Amounts, Limits,        \* amounts of transfers and of limits
          Torn,                   \* a file that cannot be parsed
          KycLife,                \* CREDENTIAL_CACHE_TTL
          ScreenLife,             \* SCREENING_CACHE_TTL
          MaxTime, MaxAudit, MaxRestarts  \* bounds

ASSUME ComplianceAssumption ==
    /\ HighRisk \subseteq Countries /\ NoCountry \in Countries \ HighRisk
    /\ Suspicious \subseteq Addresses
    /\ Amounts \subseteq Nat /\ Limits \subseteq Nat
    /\ Torn \notin [Users -> Nat]
    /\ KycLife \in Nat \ {0} /\ ScreenLife \in Nat \ {0}
    /\ {MaxTime, MaxAudit, MaxRestarts} \subseteq Nat

VARIABLES config,      \* [selfKey, agent]: what is set in the environment
          record,      \* _user_records: user -> level, 0 without a record
          credential,  \* _credential_cache: user -> [level, expires]
          screened,    \* _screening_cache: address -> [status, expires]
          audit,       \* _audit_trail
          call,        \* call -> the coroutine that waits for a service
          answer,      \* the last answer given
          limits,      \* spending_limits: user -> limit
          limitsFile,  \* what user_limits.json holds, or Torn
          now,
          restarts

kycVars == <<record, credential>>
screenVars == <<screened, audit>>
limitVars == <<limits, limitsFile>>
vars == <<config, kycVars, screenVars, call, answer, limitVars, now, restarts>>

Levels == 0 .. 3  \* none, basic, standard, enhanced
Wanted == Levels \ {0}

(* max_single_transfer of KYC_LEVELS.                                      *)
SingleLimit == [l \in Levels |-> <<50, 1000, 10000, 100000>>[l + 1]]

Statuses == {"clear", "flagged", "error"}
DefaultLimit == 1000  \* of a user who set none, and of a file that is not there

NoCredential == [level |-> 0, expires |-> 0]
NotScreened == [status |-> "error", expires |-> 0]

Idle == [op |-> "idle"]

Init ==
    /\ config \in [selfKey : BOOLEAN, agent : BOOLEAN]
    /\ record = [u \in Users |-> 0]
    /\ credential = [u \in Users |-> NoCredential]
    /\ screened = [a \in Addresses |-> NotScreened]
    /\ audit = <<>>
    /\ call = [c \in Calls |-> Idle]
    /\ answer = [op |-> "none"]
    /\ limits = [u \in Users |-> DefaultLimit]
    /\ limitsFile = [u \in Users |-> DefaultLimit]
    /\ now = 0 /\ restarts = 0

Free(c) == call[c] = Idle
Ends(c, result) == call' = [call EXCEPT ![c] = Idle] /\ answer' = result
Waits(c, at) == call' = [call EXCEPT ![c] = at] /\ UNCHANGED answer

-----------------------------------------------------------------------------
(* KYCPlugin *)

CredentialValid(u) == credential[u].expires > now

(* Mutant: the cache keeps the credential it has.                          *)
CacheFirstLevel(u, l) ==
    credential' = IF CredentialValid(u) THEN credential
                  ELSE [credential EXCEPT ![u] = [level |-> l, expires |-> now + KycLife]]

CacheCredential(u, l) ==
    credential' = [credential EXCEPT ![u] = [level |-> l, expires |-> now + KycLife]]

(* The user is verified at l: the record and the cache say so.             *)
Verified(c, u, l) ==
    /\ record' = [record EXCEPT ![u] = l]
    /\ CacheCredential(u, l)
    /\ Ends(c, [op |-> "level", level |-> l])

(* A credential that has expired is dropped when it is looked up.          *)
DropExpired(u) ==
    credential' = IF CredentialValid(u) THEN credential
                  ELSE [credential EXCEPT ![u] = NoCredential]

(* Mutant: only the cache is asked.                                        *)
KnownByCache(u, l) == CredentialValid(u) /\ credential[u].level >= l

Known(u, l) == record[u] >= l

(* verify_kyc up to the call of Self Protocol, which is simulated without  *)
(* an API key.                                                             *)
Verify(c, u, l) ==
    /\ Free(c)
    /\ IF CredentialValid(u) /\ credential[u].level >= l
       THEN Ends(c, [op |-> "level", level |-> credential[u].level]) /\ UNCHANGED kycVars
       ELSE IF Known(u, l)
       THEN /\ CacheCredential(u, record[u])
            /\ Ends(c, [op |-> "level", level |-> record[u]])
            /\ UNCHANGED record
       ELSE IF config.selfKey
       THEN /\ DropExpired(u)
            /\ Waits(c, [op |-> "verify", user |-> u, level |-> l, found |-> record[u]])
            /\ UNCHANGED record
       ELSE Verified(c, u, l)
    /\ UNCHANGED <<config, screenVars, limitVars, now, restarts>>

(* The answer of Self Protocol.  An error and a timeout count as not       *)
(* verified.                                                               *)
SelfAnswers(c) ==
    /\ call[c].op = "verify"
    /\ \/ Verified(c, call[c].user, call[c].level)
       \/ Ends(c, [op |-> "pending"]) /\ UNCHANGED kycVars
    /\ UNCHANGED <<config, screenVars, limitVars, now, restarts>>

(* check_transfer_eligibility: the single limit of the level on record.    *)
Eligible(u, amount) == amount <= SingleLimit[record[u]]

-----------------------------------------------------------------------------
(* ComplianceAgentPlugin *)

RiskScore(a, country, amount) ==
    (IF country \in HighRisk THEN 80 ELSE 0)
    + (IF amount > 50000 THEN 30 ELSE IF amount > 10000 THEN 10 ELSE 0)
    + (IF a \in Suspicious THEN 50 ELSE 0)

(* _simulate_screening.                                                    *)
Simulated(a, country, amount) ==
    IF RiskScore(a, country, amount) >= 70 THEN "flagged" ELSE "clear"

(* Mutant: a screening is good for one tick longer.                        *)
ScreeningValidLong(a) == screened[a] # NotScreened /\ screened[a].expires >= now

ScreeningValid(a) == screened[a].expires > now

(* What a caller of screen_address makes of a status: check_pre_transfer   *)
(* approves what is clear.                                                 *)
Judged(op, a, country, status) ==
    [op |-> IF op = "screen" THEN "verdict" ELSE IF status = "clear" THEN "passed" ELSE "blocked",
     address |-> a, country |-> country, status |-> status, at |-> now]

(* The rest of screen_address after a fresh screening: audit, then cache.  *)
Screened(c, op, a, country, status) ==
    /\ audit' = Append(audit, [address |-> a, status |-> status, at |-> now])
    /\ screened' = [screened EXCEPT ![a] = [status |-> status, expires |-> now + ScreenLife]]
    /\ Ends(c, Judged(op, a, country, status))

(* screen_address up to the call of the compliance agent.  The cache knows *)
(* the address only: country and amount of a cached verdict are those of   *)
(* an earlier screening.                                                   *)
Screen(c, op, a, country, amount) ==
    /\ IF ScreeningValid(a)
       THEN Ends(c, Judged(op, a, country, screened[a].status)) /\ UNCHANGED screenVars
       ELSE IF config.agent
       THEN /\ Waits(c, [op |-> op, address |-> a, country |-> country, amount |-> amount])
            /\ screened' = [screened EXCEPT ![a] = NotScreened]
            /\ UNCHANGED audit
       ELSE Len(audit) < MaxAudit /\ Screened(c, op, a, country, Simulated(a, country, amount))

(* The tool screen_recipient.                                              *)
ScreenRecipient(c, a, country, amount) ==
    /\ Free(c)
    /\ Screen(c, "screen", a, country, amount)
    /\ UNCHANGED <<config, kycVars, limitVars, now, restarts>>

(* The agent answers with a verdict or an HTTP error, which is a verdict   *)
(* too; or the call fails, and the simulation decides.                     *)
AgentAnswers(c) ==
    /\ call[c].op \in {"screen", "gate"}
    /\ Len(audit) < MaxAudit
    /\ LET a == call[c].address
           country == call[c].country
       IN  \E status \in Statuses \cup {Simulated(a, country, call[c].amount)} :
              Screened(c, call[c].op, a, country, status)
    /\ UNCHANGED <<config, kycVars, limitVars, now, restarts>>

(* An answer without a status: the audit entry raises KeyError.  The tool  *)
(* fails, but a transfer goes on unscreened.                               *)
AgentAnswersNothing(c) ==
    /\ call[c].op \in {"screen", "gate"}
    /\ Ends(c, [op |-> IF call[c].op = "gate" THEN "unscreened" ELSE "raised",
                address |-> call[c].address])
    /\ UNCHANGED <<config, kycVars, screenVars, limitVars, now, restarts>>

-----------------------------------------------------------------------------
(* RemittancePlugin *)

(* _save_limits writes the whole file over the old one and swallows what   *)
(* goes wrong: the file may stay as it is or be torn.                      *)
SaveLimits(f) ==
    \/ limitsFile' = f
    \/ UNCHANGED limitsFile
    \/ limitsFile' = Torn

(* The tool set_spending_limit.                                            *)
SetLimit(u, limit) ==
    /\ limits' = [limits EXCEPT ![u] = limit]
    /\ SaveLimits(limits')
    /\ UNCHANGED <<config, kycVars, screenVars, call, answer, now, restarts>>

(* Mutant: the file is never read.                                         *)
LoadNothing == [u \in Users |-> DefaultLimit]

(* _load_limits: all of them or none.                                      *)
LoadLimits == IF limitsFile = Torn THEN [u \in Users |-> DefaultLimit] ELSE limitsFile

(* A new process, with what configure_agent loads.                         *)
Restart ==
    /\ restarts < MaxRestarts
    /\ restarts' = restarts + 1
    /\ limits' = LoadLimits
    /\ record' = [u \in Users |-> 0]
    /\ credential' = [u \in Users |-> NoCredential]
    /\ screened' = [a \in Addresses |-> NotScreened]
    /\ audit' = <<>>
    /\ call' = [c \in Calls |-> Idle]
    /\ answer' = [op |-> "none"]
    /\ UNCHANGED <<config, limitsFile, now>>

-----------------------------------------------------------------------------
(* The checks of execute_transfer and send_token: the limit, the level of  *)
(* the user, then a screening of the recipient, without a country.         *)
CheckTransfer(c, u, a, amount) ==
    /\ Free(c)
    /\ IF amount > limits[u]
       THEN Ends(c, [op |-> "over_limit"]) /\ UNCHANGED screenVars
       ELSE IF ~Eligible(u, amount)
       THEN Ends(c, [op |-> "kyc_required"]) /\ UNCHANGED screenVars
       ELSE Screen(c, "gate", a, NoCountry, amount)
    /\ UNCHANGED <<config, kycVars, limitVars, now, restarts>>

Tick ==
    /\ now < MaxTime
    /\ now' = now + 1
    /\ UNCHANGED <<config, kycVars, screenVars, limitVars, call, answer, restarts>>

Next ==
    \/ \E c \in Calls :
          \/ \E u \in Users, l \in Wanted : Verify(c, u, l)
          \/ SelfAnswers(c)
          \/ \E a \in Addresses, country \in Countries, amount \in Amounts :
                ScreenRecipient(c, a, country, amount)
          \/ AgentAnswers(c)
          \/ AgentAnswersNothing(c)
          \/ \E u \in Users, a \in Addresses, amount \in Amounts : CheckTransfer(c, u, a, amount)
    \/ \E u \in Users, limit \in Limits : SetLimit(u, limit)
    \/ Restart
    \/ Tick

Spec == Init /\ [][Next]_vars

=============================================================================
