-------------------------- MODULE AgentPaymentPool --------------------------
(***************************************************************************)
(* contracts/src/AgentPaymentPool.sol composed with the identity registry: *)
(* a pool of tokens from which the contract owner (the CeloFlow backend)   *)
(* pays agents a reward per transfer, at a rate fixed per agent, up to a   *)
(* daily cap per agent.                                                    *)
(*                                                                         *)
(* A reverted call is a stuttering step: Solidity rolls back everything    *)
(* the call wrote, the daily reset included.  nonReentrant makes deposit   *)
(* and withdrawPayment atomic; the payment token is a plain ERC-20, which  *)
(* calls nobody back.                                                      *)
(***************************************************************************)
EXTENDS AgentOwnership, FiniteSets

CONSTANTS Pool,             \* the pool's own address, a token holder like any other
          Deployer,         \* the account that deployed the pool
          Supply,           \* tokens in existence, all held by Deployer at the start
          UnitAmount,       \* 1e18, one token
          FactorCap,        \* 100e18, the cap on proportional scaling
          BasisPoints,      \* 10000
          Tiers,            \* reputation tiers, 0 .. 4
          DefaultMultipliers, \* tierMultipliers as the constructor sets them
          Day,              \* 1 days
          MaxUint,          \* checked arithmetic reverts above it
          InitialRate, InitialCap,  \* constructor arguments
          Amounts, Rates, Caps, MultiplierTables,  \* inputs of the calls
          MaxTime           \* bound on block.timestamp

Wallets == Accounts \cup {Pool}

ASSUME PoolAssumption ==
    /\ Pool \notin Accounts \cup {NoAddress}
    /\ Deployer \in Accounts
    /\ Supply \in Nat /\ MaxUint \in Nat
    /\ UnitAmount \in Nat \ {0} /\ FactorCap \in Nat
    /\ BasisPoints \in Nat \ {0} /\ Day \in Nat \ {0}
    /\ MaxTime \in Nat /\ Day <= MaxTime
    /\ InitialRate \in Nat \ {0} /\ InitialCap \in Nat
    /\ Amounts \subseteq Nat /\ Rates \subseteq Nat /\ Caps \subseteq Nat
    /\ DefaultMultipliers \in [Tiers -> Nat]
    /\ MultiplierTables \subseteq [Tiers -> Nat]

VARIABLES poolOwner,      \* Ownable._owner, NoAddress once renounced
          paused,         \* Pausable._paused
          basePaymentRate, dailyCapPerAgent, tierMultipliers,
          (* _stats[agentId], one variable per field *)
          totalEarned, lastPaymentTimestamp, dailyEarned, dailyResetTimestamp,
          paymentRate, reputationTier, paymentWallet,
          token,          \* balances of the payment token
          now             \* block.timestamp

configVars == <<poolOwner, paused, basePaymentRate, dailyCapPerAgent, tierMultipliers>>
earningVars == <<totalEarned, lastPaymentTimestamp, dailyEarned, dailyResetTimestamp>>
rateVars == <<paymentRate, reputationTier>>
poolVars == <<configVars, earningVars, rateVars, paymentWallet, token, now>>
vars == <<ownershipVars, poolVars>>

TypeOK ==
    /\ OwnershipTypeOK
    /\ poolOwner \in OptionalAccount
    /\ paused \in BOOLEAN
    /\ basePaymentRate \in Nat
    /\ dailyCapPerAgent \in Nat
    /\ tierMultipliers \in [Tiers -> Nat]
    /\ totalEarned \in [AgentIds -> Nat]
    /\ lastPaymentTimestamp \in [AgentIds -> Nat]
    /\ dailyEarned \in [AgentIds -> Nat]
    /\ dailyResetTimestamp \in [AgentIds -> Nat]
    /\ paymentRate \in [AgentIds -> Nat]
    /\ reputationTier \in [AgentIds -> Tiers \cup {0}]
    /\ paymentWallet \in [AgentIds -> Wallets \cup {NoAddress}]
    /\ token \in [Wallets -> Nat]
    /\ now \in Nat

(* The chain is older than a day when the pool is deployed.                *)
Init ==
    /\ OwnershipInit
    /\ poolOwner = Deployer
    /\ paused = FALSE
    /\ basePaymentRate = InitialRate
    /\ dailyCapPerAgent = InitialCap
    /\ tierMultipliers = DefaultMultipliers
    /\ totalEarned = [a \in AgentIds |-> 0]
    /\ lastPaymentTimestamp = [a \in AgentIds |-> 0]
    /\ dailyEarned = [a \in AgentIds |-> 0]
    /\ dailyResetTimestamp = [a \in AgentIds |-> 0]
    /\ paymentRate = [a \in AgentIds |-> 0]
    /\ reputationTier = [a \in AgentIds |-> 0]
    /\ paymentWallet = [a \in AgentIds |-> NoAddress]
    /\ token = [w \in Wallets |-> IF w = Deployer THEN Supply ELSE 0]
    /\ now = Day

-----------------------------------------------------------------------------

(* ERC-20 transfer.  A holder that pays itself keeps its balance.          *)
Moved(from, to, amount) ==
    IF from = to THEN token
    ELSE [token EXCEPT ![from] = @ - amount, ![to] = @ + amount]

(* Tokens move between holders, and into the pool, without its knowledge.  *)
TokenTransfer(from, to, amount) ==
    /\ amount <= token[from]
    /\ token' = Moved(from, to, amount)
    /\ UNCHANGED <<ownershipVars, configVars, earningVars, rateVars, paymentWallet, now>>

Deposit(sender, amount) ==
    /\ ~paused
    /\ amount > 0
    /\ amount <= token[sender]
    /\ token' = Moved(sender, Pool, amount)
    /\ UNCHANGED <<ownershipVars, configVars, earningVars, rateVars, paymentWallet, now>>

RegisterPaymentWallet(sender, a, wallet) ==
    /\ Exists(a)
    /\ sender = owner[a]
    /\ paymentWallet' = [paymentWallet EXCEPT ![a] = wallet]
    /\ UNCHANGED <<ownershipVars, configVars, earningVars, rateVars, token, now>>

(* The rate is computed here, from the base rate and the multipliers of    *)
(* the moment, and not again when those change.                            *)
SetPaymentRate(sender, a, tier) ==
    /\ sender = poolOwner
    /\ Exists(a)
    /\ paymentRate' = [paymentRate EXCEPT
                         ![a] = (basePaymentRate * tierMultipliers[tier]) \div BasisPoints]
    /\ reputationTier' = [reputationTier EXCEPT ![a] = tier]
    /\ UNCHANGED <<ownershipVars, configVars, earningVars, paymentWallet, token, now>>

-----------------------------------------------------------------------------

AmountFactor(amount) == IF amount > FactorCap THEN FactorCap ELSE amount

Reward(a, amount) == (paymentRate[a] * AmountFactor(amount)) \div UnitAmount

(* Mutant: the window lasts through its last instant.                      *)
WindowExpiredLate(a) == now > dailyResetTimestamp[a] + Day

WindowExpired(a) == now >= dailyResetTimestamp[a] + Day

(* dailyEarned as withdrawPayment sees it after its reset, and what is     *)
(* left of the cap.                                                        *)
EarnedInWindow(a) == IF WindowExpired(a) THEN 0 ELSE dailyEarned[a]

Remaining(a) ==
    IF dailyCapPerAgent > EarnedInWindow(a) THEN dailyCapPerAgent - EarnedInWindow(a) ELSE 0

(* Mutant: the reward is not cut down to what remains.                     *)
PayoutUncapped(a, amount) == Reward(a, amount)

Payout(a, amount) == IF Reward(a, amount) > Remaining(a) THEN Remaining(a) ELSE Reward(a, amount)

(* What withdrawPayment requires but whenNotPaused; also the mutant that   *)
(* lacks the modifier.                                                     *)
WithdrawableWhilePaused(sender, a, amount) ==
    /\ sender = poolOwner
    /\ Exists(a)
    /\ paymentWallet[a] # NoAddress
    /\ paymentRate[a] # 0
    /\ Reward(a, amount) # 0
    /\ Remaining(a) # 0
    /\ token[Pool] >= Payout(a, amount)
    /\ totalEarned[a] + Payout(a, amount) <= MaxUint

Withdrawable(sender, a, amount) == ~paused /\ WithdrawableWhilePaused(sender, a, amount)

WithdrawPayment(sender, a, amount) ==
    LET paid == Payout(a, amount) IN
    /\ Withdrawable(sender, a, amount)
    /\ dailyResetTimestamp' =
          [dailyResetTimestamp EXCEPT ![a] = IF WindowExpired(a) THEN now ELSE @]
    /\ dailyEarned' = [dailyEarned EXCEPT ![a] = EarnedInWindow(a) + paid]
    /\ totalEarned' = [totalEarned EXCEPT ![a] = @ + paid]
    /\ lastPaymentTimestamp' = [lastPaymentTimestamp EXCEPT ![a] = now]
    /\ token' = Moved(Pool, paymentWallet[a], paid)
    /\ UNCHANGED <<ownershipVars, configVars, rateVars, paymentWallet, now>>

-----------------------------------------------------------------------------

UpdateBaseRate(sender, rate) ==
    /\ sender = poolOwner
    /\ rate # 0
    /\ basePaymentRate' = rate
    /\ UNCHANGED <<ownershipVars, poolOwner, paused, dailyCapPerAgent, tierMultipliers,
                   earningVars, rateVars, paymentWallet, token, now>>

UpdateDailyCap(sender, cap) ==
    /\ sender = poolOwner
    /\ dailyCapPerAgent' = cap
    /\ UNCHANGED <<ownershipVars, poolOwner, paused, basePaymentRate, tierMultipliers,
                   earningVars, rateVars, paymentWallet, token, now>>

UpdateTierMultipliers(sender, table) ==
    /\ sender = poolOwner
    /\ tierMultipliers' = table
    /\ UNCHANGED <<ownershipVars, poolOwner, paused, basePaymentRate, dailyCapPerAgent,
                   earningVars, rateVars, paymentWallet, token, now>>

(* Mutant: without onlyOwner.                                              *)
SetPausedByAnyone(sender, flag) ==
    /\ paused # flag
    /\ paused' = flag
    /\ UNCHANGED <<ownershipVars, poolOwner, basePaymentRate, dailyCapPerAgent,
                   tierMultipliers, earningVars, rateVars, paymentWallet, token, now>>

(* _pause and _unpause revert when there is nothing to change.             *)
SetPaused(sender, flag) ==
    /\ sender = poolOwner
    /\ paused # flag
    /\ paused' = flag
    /\ UNCHANGED <<ownershipVars, poolOwner, basePaymentRate, dailyCapPerAgent,
                   tierMultipliers, earningVars, rateVars, paymentWallet, token, now>>

(* transferOwnership, or renounceOwnership for NoAddress.                  *)
ChangePoolOwner(sender, newOwner) ==
    /\ sender = poolOwner
    /\ poolOwner' = newOwner
    /\ UNCHANGED <<ownershipVars, paused, basePaymentRate, dailyCapPerAgent,
                   tierMultipliers, earningVars, rateVars, paymentWallet, token, now>>

(* Works while the pool is paused.                                         *)
EmergencyWithdraw(sender, to, amount) ==
    /\ sender = poolOwner
    /\ amount <= token[Pool]
    /\ token' = Moved(Pool, to, amount)
    /\ UNCHANGED <<ownershipVars, configVars, earningVars, rateVars, paymentWallet, now>>

Tick ==
    /\ now < MaxTime
    /\ now' = now + 1
    /\ UNCHANGED <<ownershipVars, configVars, earningVars, rateVars, paymentWallet, token>>

(* What any account may call, and what only the pool's owner may.          *)
PublicNext(sender) ==
    \/ \E amount \in Amounts :
          \/ Deposit(sender, amount)
          \/ \E to \in Wallets : TokenTransfer(sender, to, amount)
    \/ \E a \in AgentIds, wallet \in Wallets : RegisterPaymentWallet(sender, a, wallet)

OwnerNext(sender) ==
    \/ \E a \in AgentIds, amount \in Amounts : WithdrawPayment(sender, a, amount)
    \/ \E a \in AgentIds, tier \in Tiers : SetPaymentRate(sender, a, tier)
    \/ \E to \in Wallets, amount \in Amounts : EmergencyWithdraw(sender, to, amount)
    \/ \E rate \in Rates : UpdateBaseRate(sender, rate)
    \/ \E cap \in Caps : UpdateDailyCap(sender, cap)
    \/ \E table \in MultiplierTables : UpdateTierMultipliers(sender, table)
    \/ \E flag \in BOOLEAN : SetPaused(sender, flag)
    \/ \E newOwner \in OptionalAccount : ChangePoolOwner(sender, newOwner)

PoolNext == \E sender \in Accounts : PublicNext(sender) \/ OwnerNext(sender)

Next == \/ PoolNext
        \/ OwnershipNext /\ UNCHANGED poolVars
        \/ Tick

Spec == Init /\ [][Next]_vars

-----------------------------------------------------------------------------
(* Safety.                                                                 *)

(* A daily window that was opened holds a payment made in it: the reset in *)
(* withdrawPayment takes effect only together with a payout, because every *)
(* later revert of the call rolls it back.  An agent that was never paid   *)
(* has no window.                                                          *)
WindowHoldsItsPayments ==
    \A a \in AgentIds :
        /\ dailyEarned[a] <= totalEarned[a]
        /\ dailyResetTimestamp[a] <= lastPaymentTimestamp[a]
        /\ lastPaymentTimestamp[a] < dailyResetTimestamp[a] + Day
        /\ lastPaymentTimestamp[a] <= now
        /\ totalEarned[a] = 0 <=> dailyEarned[a] = 0
        /\ totalEarned[a] = 0 <=> dailyResetTimestamp[a] = 0

(* No payout leaves an agent above the cap in force, whatever cap its      *)
(* window was opened under and however often the cap was moved since.      *)
PayoutWithinCap ==
    [][\A a \in AgentIds :
          totalEarned'[a] > totalEarned[a]
              => /\ dailyEarned'[a] <= dailyCapPerAgent
                 /\ dailyEarned'[a] >= totalEarned'[a] - totalEarned[a]]_vars

(* Tokens leave the pool only as one agent's recorded reward, of exactly   *)
(* the amount recorded and to that agent's wallet, or by the emergency     *)
(* exit of the owner, which records nobody's earnings; and rewards stop    *)
(* while the pool is paused.                                               *)
OutflowIsAccountedFor ==
    [][token'[Pool] < token[Pool]
          => \/ \E a \in AgentIds :
                   /\ ~paused
                   /\ paymentWallet[a] \in Accounts
                   /\ totalEarned'[a] - totalEarned[a] = token[Pool] - token'[Pool]
                   /\ token'[paymentWallet[a]] - token[paymentWallet[a]]
                         = token[Pool] - token'[Pool]
                   /\ \A b \in AgentIds \ {a} : totalEarned'[b] = totalEarned[b]
             \/ poolOwner # NoAddress /\ UNCHANGED totalEarned]_vars

(* Renouncing the pool is final: nothing is paid or rescued from it ever   *)
(* again, and it has no owner again.                                       *)
RenouncedPoolIsFrozen ==
    [][poolOwner = NoAddress
          => /\ token'[Pool] >= token[Pool]
             /\ UNCHANGED <<configVars, earningVars, rateVars>>]_vars

=============================================================================
