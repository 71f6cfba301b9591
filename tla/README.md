# Celoflow in TLA+

Celoflow sends money across borders by chat: an agent (Python, `celoflow/`) talks to the user and
to the Celo chain, contracts (`contracts/src/`) register agents, rate them and pay them, and a web
client (`celoflow-ui/`) shows the conversation and signs transfers. This directory models the parts
of it that keep state, checks them with TLC on small instances, and proves what matters most about
them with TLAPS for every value of the constants.

## 1. Inventory

State, operations and interactions are those of the source; "hard" names what a test would hardly
reach. `PROJECT.json` lists every hazard at its line and the property that watches it.

| Component | State | Operations | Talks to | Hard |
|---|---|---|---|---|
| Identity registry `IdentityRegistry.sol` + ERC721 | owners, balances, approvals, operators, `_lastId`, wallets, URIs, metadata | `register` x3, `setMetadata`, `setAgentUri`, `setAgentWallet`, `unsetAgentWallet`, approvals, transfers | calls the receiving contract from `_safeMint` | calls that re-enter between mint and metadata; a wallet or approval left from an earlier owner |
| Payment pool `AgentPaymentPool.sol` | owner, pause, rates, multipliers, caps, per-agent earnings and daily window, token balance | `deposit`, `registerPaymentWallet`, `setPaymentRate`, `withdrawPayment`, `update*`, `pause`, `emergencyWithdraw`, ownership | identity registry (owner of an agent), ERC20 | daily window moves with the first payment; cap changed under an open window; reset rolled back by a later revert |
| Feedback registry `ReputationRegistry.sol` | feedback per agent and client, client lists | `giveFeedback`, `revokeFeedback`, `appendResponse`, `getSummary`, `getSummaryPaged` | identity registry (feedback by the owner is refused) | mixed precisions; pages read while feedback changes |
| TEE registry `TEERegistry.sol` | verifiers, keys in two indexes | `addVerifier`, `removeVerifier`, `addKey`, `removeKey`, `getAgentKeys` | identity registry, verifier contracts | swap-and-pop against paged reads; two indexes that must agree |
| Reputation analytics `reputation_analytics.py` | score and last event per agent | `record_event`, `get_summary` and other reads | rewards, agent selection | reads write the decay back |
| Payment rewards `payment_reward_service.py` | circuit breaker, daily tracking, audit log | `process_transfer_reward` | analytics, x402 client | coroutines that sleep between retries after checking cap and breaker |
| x402 client `x402_client.py` | registered services, receipts, payment history | `process_agent_reward` alone and in batches, charging over HTTP 402 | rewards, HTTP services | a payment taken whose answer is lost; simulated success after exhausted retries |
| User signing `user_signing_service.py`, `/transfer/*` of `server.py` | `_pending` by transfer id | prepare, execute, reject, get, list | wallet, chain, web client | receipt later than the wait for it; ids that repeat within a minute; stale nonces |
| Recurring transfers `scheduler_plugin.py`, `/api/transfers` | jobs in memory, in APScheduler, in a file; history | schedule, list, cancel, fire, load, save | notifications | two tables of jobs; the file is written at shutdown only and not atomically; ids of one second; nobody starts the scheduler |
| Authentication `auth_service.py`, `auth_middleware.py`, `/auth` | revocation store, rate-limit windows, signing secret | authenticate, validate, refresh, revoke, clean up | every request | logouts forgotten by clean-up or restart; refresh tokens that stay good; one limiter for logins and requests |
| Previews `transfer_preview_service.py` | cached previews | preview, validate, get, invalidate, evict | fee comparison, Mento | eviction by age and at the limit |
| Pricing `fee_comparison_service.py`, `wise_client.py` | a cache per service, rate limit, history | `compare_fees`, `monitor_fee_changes`, `get_comparison` | HTTP service, previews | comparisons overlap in retries; data pass two caches; the window of the rate limit |
| Routing `route_optimization_service.py` | cache of routes | `find_routes` | tools | which detours are tried |
| Status stream `real_time_status.py`, `server.py` | subscribers' queues, history | subscribe, broadcast, unsubscribe | transfers, web client | a broadcast waits for room in each queue; slow readers, clients that leave while it waits |
| Remittance tools `remittance_tools.py`, Mento `mento_plugin.py`, `remittance_plugin.py` | the agent's one wallet, recorded transactions | `send_token`, `execute_transfer`, auto-swap, `execute_swap`, `record_transaction` | status stream, chain, rewards | calls interleave at status events and spend from the same wallet; nonces taken in two ways; receipts later than the wait |
| Chats `server.py`'s middleware, context services | one wallet context, one list of contacts, one agent's instructions, settings | chat, turns, wallet, contacts and settings endpoints | agent, chain | context of one request seen by another; balances of the last wallet |
| KYC and compliance `kyc_plugin.py`, `compliance_agent_plugin.py`, limits of `remittance_plugin.py` | levels, verdicts, a cache before each service, audit trail, a file of limits | verify, screen, set limit, check a transfer | Self Protocol, compliance agent, transfers | overlapping verifications; verdicts found by address alone; a file torn or not written |
| Notifications, bots, language, registries, tool servers, TEE wallet, scripts, contracts' deployment | none | - | third parties | - |
| Web client `celoflow-ui` | React state, local storage | pages, hooks | endpoints | reconnecting streams |

## 2. Modules

    AgentOwnership            who owns an agent: the abstract registry
      |-- AgentPaymentPool      composes it: the pool reads ownerOf
      |-- ReputationRegistry    composes it: owners give no feedback
      |-- TEERegistry           composes it: owners manage keys
      `-- IdentityRegistry      the detailed registry, refines AgentOwnership
    ReputationAnalytics
      `-- PaymentReward         composes it: rewards read and raise the score
    X402Client                charges over HTTP 402
    UserSigning               /transfer endpoints against a chain
    StatusStream              who gets which status event
      `-- RemittanceTransfer    composes it: transfers broadcast, and is shown to implement it
    Compliance                KYC, screening, limits and the checks of a transfer
    AuthService               tokens and requests
    RecurringTransfers        jobs in two tables and a file
    ChatContext               what all chats share
    WiseClient                cache, rate limit and retries of the comparison API
      `-- FeeComparison         composes it: comparisons over two caches
            `-- TransferPreview   composes it: previews made with comparisons
    RouteFinder               routes over the pools

Each `MCx.tla` extends what it checks with history variables, readers and definitions for TLC:
`MCRegistries` the two registries beside the identity registry, `MCPaymentReward` rewards, scores
and charges, `MCServer` authentication, recurring transfers and chats, `MCQuotes` comparisons,
previews and routes, the others the module of their name. Where the parts of an MC module share
nothing but the process, `focus` picks the one that moves, so that each is explored by itself.
The theorems are in eight modules, each over what one MC module composes: `ContractProofs` (ownership,
pool, keys, feedback), `IdentityRegistryProofs`, `PaymentRewardProofs` (rewards, scores, charges),
`UserSigningProofs`, `RemittanceTransferProofs` (transfers and the stream), `ComplianceProofs`,
`ServerProofs` (authentication, recurring transfers, chats) and `QuotesProofs` (comparisons,
previews, routes). No module declares a RECURSIVE operator: loops and sums are recursive functions
or folds of the community modules.

**AgentOwnership** - `owner`, `approved`, `operators`, `lastId`. `Mint`, `Approve`,
`SetApprovalForAll` and `TransferAgent` are what the rest of the system can see of
`IdentityRegistry`: an agent's id is the number of agents before it, it has an owner for ever, and
every transfer clears its approval. The three registries that ask `ownerOf` extend it, so agents
change hands under them at any step.

**IdentityRegistry** - every storage variable of the contract and of the ERC721 it inherits.
`Register` is a single step for a receiver without code. For a contract it is two,
`RegisterStarts` up to `onERC721Received` and `RegisterEnds` after it (`suspended` holds the call's
arguments), with any call of any other function by contracts in between; `register` itself is
nonReentrant in its three forms, so none is nested. `Update` is `_update`: owner, approval, balances
and the wallet, cleared on transfer. `ImplementsOwnership` is the specification of AgentOwnership
under the mapping `owner <- owners`, `approved <- tokenApprovals`, `operators <- ` the pairs of
`operatorApprovals`.

**AgentPaymentPool** - `withdrawPayment` is cut into the checks (`Withdrawable`), the reset
(`WindowExpired`, `EarnedInWindow`), the remaining amount and the clamp (`Remaining`, `Payout`).
A revert is a step that is not enabled, so nothing of it stays. `token` holds the balances of the
pool and the accounts; amounts are bounded by `MaxUint` where the contract's checked arithmetic
would revert. `Tick` is the block timestamp.

**ReputationRegistry** - feedback per agent and client as a sequence. `Summary` is
`getSummaryInternal` as it runs: the outer loop over the clients of the page (`AddedPage`), the
inner one over the feedback of each (`AddedList`), every entry filtered and scaled to the finest
precision so far (`Added`), the total divided with truncation towards zero (`Quotient`) and narrowed
to the type of the answer without a check (`Narrowed`, modulo twice `ValueLimit`, as `int128(...)`
keeps the low bits). Each loop is a function of the number of turns, so that it can be reasoned about
a turn at a time.

**TEERegistry** - `agentKeys` is OpenZeppelin's EnumerableSet as the sequence it is stored in,
with its swap-and-pop (`SwapAndPop`), because `getAgentKeys` pages through that order.

**ReputationAnalytics** - scores as integers of a unit the instance chooses. `AfterDecay` is
`_apply_decay`; `ReadScore` is what every read does to the store. Floats are abstracted to whole
units, with decay truncated.

**PaymentReward** - one task per call of `process_transfer_reward`. The coroutine yields only in
the sleep of `_process_with_retry`, so a call is one step to its first failed attempt (refused by
breaker or cap, paid at once, or asleep) and one step for each later attempt (`RetryPaid`,
`RetryFailed`, `GivenUp`); other calls, reads, events and the clock move between. What was read
before the sleep is not read again, as in the code. Nothing limits how many calls sleep at once.
`ledger` is the client's `_payment_history`, which other callers of the client append to as well
(`OthersPay`) and which is cut to its newest `KeepLedger` entries when it has more than `MaxLedger`
(`Booked`). `HistorySpec` of `MCPaymentReward` adds what the properties compare with, and restricts
no step: the most calls of an agent asleep at once in its window (`peak`) and everything due to the
history (`booked`).

**UserSigning** - `_pending` by transfer id, which is the request and the minute it was made in.
No handler awaits, and the wait for a receipt blocks the loop, so a handler is one step whatever
the chain does in it: the transaction is refused, mined with either outcome, or sent and still
unmined when the wait ends. The chain is external: nonces in order, one transaction each, any of
those sent mined later or replaced by the wallet.

**StatusStream** - a broadcast is a step that takes the snapshot of the subscribers
(`StartBroadcast`) and a step per queue (`Put`), enabled when there is room: `queue.put` waits, it
raises nothing. `Connect` is `subscribe` with the current event as a first element, `Read` and
`Disconnect` are the generator of `/status/stream`. `owed` is what the properties compare with: the
events of the snapshots a connection was in.

**RemittanceTransfer** - one task per call of `send_token` or `execute_transfer`. All tools run on
one event loop and the calls to the node are synchronous, so a call keeps the loop (`loop`) through
balances, transactions and receipts and gives it up in three places: the compliance screening, a
status event that finds a queue full (`WaitForRoom`) and the reward. `Emits` starts a broadcast of
StatusStream, so the stream's interleavings are those of the transfers. The chain is external:
`pending` is the wallet's transactions in the order of nonces, `Mine` takes the first at any time,
the loop blocked or not. The auto-swap asks for the pending nonce and appends; every other
transaction asks for the latest one and takes the place of a transaction that is still out
(`Enqueued`), or is refused (`NodeFails`). Prices are one to one with a margin and a slippage.
`StreamSpec`, the specification of StatusStream, is checked and proved as a property of
RemittanceTransfer.

**X402Client** - a charge is one step to its first attempt and one for each answer; a pause ends
with `TriesAgain`. `taken` is the providers' side: a payment whose answer is lost may have been
taken, and every attempt presents it again. Wallets registered by `register_agent_payment` have an
`internal://` URL no request reaches, so charging them always ends simulated.

**Compliance** - `verify_kyc` and `screen_address` are two steps each, split at the call of the
service, and one where the service is simulated or the cache answers. What was read before the call
is kept in `call`, and nothing is read again, as in the code. `CheckTransfer` is what
`execute_transfer` and `send_token` do in order: limit, level, screening without a country.
`Restart` loads the limits, all or none, and forgets the rest.

**AuthService** - handlers do not suspend, so a login, a refresh, a logout and a request are a
step each; clock, clean-ups and restarts move between. A token is a record in the order of issue,
its signature the number of the secret. Unless `JWT_SECRET` is set a restart makes up a new one.

**RecurringTransfers** - `jobs` is the dictionary and `timers` what APScheduler holds, both
written by every handler, as in the code. A due job is submitted (`Fire`) and runs later (`Run`),
with anything in between. `Stop` saves, well, torn or not at all; `Crash` does not; `Start` loads
what `_build_trigger` knows. With `Hosted` FALSE nobody starts the scheduler, as in the program.

**ChatContext** - the middleware is one step: wallet, contacts, settings, instructions, in this
order, up to the end (`Rebuilds`) or to an exception, which is swallowed and leaves what was set
before it: the address is no string (`FailsAfterWallet`), the user id of the settings is no key
(`FailsAtSettings`), or the contacts there by then do not sort (`FailsToBuild`). `UpdateContacts`
swallows a failure of its own and leaves no contacts. A `Turn`
of the model comes any time later, reads the agent's instructions and the wallet service as they
are by then, and says in `lastTurn` whose data it read.

**WiseClient**, **FeeComparison** - a comparison runs to the HTTP request (`Asks`) and on from each
answer; retries sleep in between. WiseClient holds the operators those steps are made of and its
own cache and window; FeeComparison the cache in front of it, the labels and the history. Times
stand for the data: the properties ask how old they are.

**TransferPreview** - making a preview never suspends, so it is a step, with the eviction at its
end.

**RouteFinder** - the paths tried, in the order of the code, over the pools an instance gives, with
all amounts taken as one (liquidity, slippage and confidence are left out, so
`RecommendedIsShortest` is about the number of hops), and the cache, whose entry under a key is replaced and whose first to expire go when it is full. The
property compares with every way over the pools (`Ways`), and an answer that there is none with a
set of currencies no pool leads out of (`CutOff`).

## 3. Runs

| Run | Question | Bounds and why they are enough | Result |
|---|---|---|---|
| `pool` | are window, cap, pause and ownership right in every order of payments, changes and ticks? | one agent (agents share only the balance), a day of 2 instants and a clock of 4: a window, its boundary and half of the next; caps 1 and 2, so a cap falls below what was earned | holds |
| `identity` | do re-entrant registrations keep wallets and authorization, and implement ownership? | 2 accounts, one a contract; 2 agents, so one can be handed about in the callback of the other's registration; one key | holds |
| `registries` | do the two indexes of keys agree, is the summary the average where that fits, and what do paged reads miss? | keys: 2 agents, 3 keys, pages of 2, 2 removals during a read, so a key can be moved into a page already read; feedback: 3 accounts, 3 entries of 2 precisions, pages of one client; values of -9 and 25 against a `ValueLimit` of 32: sums beyond it whose average fits, and averages that do not once 25 is scaled by ten | holds |
| `reward` | do overlapping calls keep cap and ledger, and end; when do scores decay; are receipts of charges true? | 3 calls of one agent, any of them asleep at once, 3 attempts each (the code's number), a cap of 3 and rewards of 2 and 3: calls cross the cap awake and asleep; a history of 2 that keeps 1, and one payment of others: it is cut twice; scores by themselves with events of others; 3 payments of 2 tries, a history that is cut at the third | holds |
| `signing` | is anything sent twice, is a rejected transfer sent? | one request over 3 minutes of 2 instants, expiry 3 instants: an entry outlives its minute and expires within the clock | holds |
| `transfer` | are transfers funded, answers true, status events delivered once, and is every call answered? | 2 calls out of a send by two hops, a send by one hop and a swap, one client with a queue of 2: three events of one call fill it, calls overlap at it and at the screening; 8 CELO and 1 USDm: enough for one two-hop send and short for what follows. No slippage here (the slips are in the next run) and a history of one event, all that is read of it | holds |
| `server` | do logouts hold and sessions end; do jobs survive what the code says they do; is the shared context consistent, and right for a chat alone, wherever the middleware fails? | tokens: 4 (two logins), access life 2 against refresh life 1, a clock of 3, one restart; jobs: 2 users, 2 recipients, 2 jobs, 2 runs, a stop or a crash and a start; chats: 2 users | holds |
| `compliance` | what are cached levels and verdicts good for, and what becomes of limits? | 2 overlapping calls of one user to one recipient, a harmless and a risky country, an amount on each side of the thresholds, lives of one tick, a failing save and a restart | holds |
| `quotes` | how old is what is shown as real-time, do late answers replace newer data, does every comparison end, how long do previews last, are routes shortest? | 2 callers, 2 quotes on one pair, 1 request a window, 2 attempts, client's life 2, service's 1, a clock of 3; a cache of 2 previews and 3 made; 5 currencies and 4 pools: one currency without a pool, one with a pool to USDm only, and an alias | holds |
| `execute_records` | "Store a completed transaction." | 2 calls, slippage 1 | violated: errors of `execute_swap` are hashes to its caller |
| `recurring_unhosted` | "Create a new recurring transfer schedule." | as `server`, with `Hosted = FALSE` | violated: the scheduler is never started, and the handler fails behind `add_job` |
| `chat_turns` | "LIVE Wallet Context (auto-injected per request)" | as `server` | violated: a second chat replaces the context before the turn of the first |

What the violated runs show is a disagreement of the code with its own words, quoted under
`findings`. `AloneSeesOwn` says what holds of chats instead: as long as nothing else comes in between,
a chat reads its own wallet from the tool, and its own context in instructions that were built for
it; and `SummaryIsAverage` what holds of summaries: count and precision always, the value wherever
it fits. Two more claims of the code do not hold, and a property of a passing
run states exactly what does: the daily cap per agent (`CapOverrunBounded`: it is exceeded by less
than one greatest reward for the payment that crosses it, which need not have slept, and one for
each of the agent's calls that were asleep at once in the window) and the answer to every transfer
(`AnswersUnlessAbandoned`: as long as no connection is closed with its queue full; "Remove
subscriber if queue is full (disconnected)" never happens, `put` waits). A signed transfer reported
as "Broadcast failed" may still be mined (`user_signing_service.py:449`).

Seen while modelling, and left without a run:
- every read of a reputation score writes its decay back without moving `last_updated`
  (`reputation_analytics.py:290`), so reads compound the "0.1% daily decay" of line 15;
- a failure of the middleware between wallet and instructions is swallowed (`server.py:314`): the chat
  goes on with the instructions an earlier chat left, though the middleware "dynamically rebuilds
  agent.instructions with fresh context BEFORE contextwise processes the request" (line 114);
- `getSummary` narrows the average without a check (`ReputationRegistry.sol:214`), so one that does
  not fit is no "Average value" (line 95);
- `giveFeedback` has no check for the "(-100 to 100)" of `ReputationRegistry.sol:34`;
- no form of `register` sets the wallet "minting sets in register()" (`IdentityRegistry.sol:190`);
- `execute_swap` is told a recipient "to send the output tokens to" and the swap pays the signer;
- a short send of CELO itself is swapped from CELO to USDm and back, though the docstring of
  `send_token` says "no swap needed";
- simulated transfers share one hash, so each replaces the record of the one before, and they are
  rewarded;
- `start_monitoring` attaches its handler to loggers the modules do not log under;
- an array as the comparison API's answer fails in `get_comparison` (`wise_client.py:168` asks it
  for "error") before the parser that expects one (line 240); the static fees stand in;
- a comparison without a usable provider shows static fees under the label "realtime";
- retries of a request take no place of their own in the window of the rate limit;
- previews never show comparisons: `transfer_preview_service.py:299` reads "providers" of a result
  that has "comparisons";
- the fee preference in the instructions is always that of the user "default" (`server.py:138`);
- contacts are sorted with `not favorite` and `reverse=True`, so favorites come last and can fall
  off the ten shown (`contacts_context_service.py:91-95`, "Sort by favorites first");
- a chat that brings no wallet is shown the last one any user brought;
- transfers are screened without a country, so high-risk countries flag only what is screened by
  the tool first, whose verdict by address then decides for the transfer too;
- a refused charge (402) is recorded as unpaid even if the provider took the payment in an attempt
  whose answer was lost, and receipts are never dropped from memory.

Constraints: `FewApprovals` and `NoSelfOperators` cut approvals that the properties of that run
cannot tell apart, and `NoApproval` leaves approvals out of `registries`; `Bounded` allows one
precision per sign of the value and `MaxTotal` entries. States at a constraint's edge are still
checked. `reward` explores calls without the score events of other callers, which it explores by
themselves, and with at most `MaxOthers` payments of theirs.
Symmetry of accounts (`registries`) and of users (`server`) is used where no property is temporal.
The VIEWs leave out what no guard and no property of their run reads: of `server` the fee
preference, kept and in the instructions, the address of a wallet that is not connected, and what a
chat brought and its last turn read once it is not alone, of `quotes` the logs, who monitors, when a static result was made, whose fees
are compared, and of the last answer all but the age of its data. Deadlock is not checked: every
clock is bounded and most calls are made once, and a bounded system may stop.

**Fairness** is assumed in three modules. In `PaymentReward`, weak fairness of `Wake(t)` for every
call: the sleep is `asyncio.sleep`, which the event loop always ends, and an attempt that follows it
always returns or raises. In `FeeComparison`, weak fairness of the answer, the next attempt and the
end of the last pause of every caller: a request has a timeout of 15 seconds, after which it raises,
and a pause is a sleep. In `RemittanceTransfer`, weak fairness of `Call(t)` for every call, since
the loop runs whatever can go on and every wait for the node has a timeout, and of `StreamReads(c)`
for every open connection: a client that is there reads. Nothing is assumed of users, of the clock,
of the chain, of clients leaving or of which attempts succeed. All other properties are safety
properties.

Every property has a mutant: a change of a mapped definition as a slip in the code would make it
(a dropped guard, an off-by-one, a missing reset), under which the run finds the property violated.
They stand next to the definition they replace, marked "Mutant".

## 4. Theorems

Every safety property of a passing run, invariant or action property, is a theorem, for every value
of the constants. All assumptions are the named ASSUMEs of the modules; they are about constants
only, and TLC evaluates them in the runs. Three theorems have a hypothesis more, given with them. In
each case the property itself is too weak to be inductive; the argument says what had to be added.

**Contracts** (`ContractProofs`, `IdentityRegistryProofs`)

| Theorem | Argument |
|---|---|
| `MintedCorrect` | inductive with the type invariant: only `Mint` moves `lastId`, by the id it gives away |
| `TypeCorrect`, `WindowCorrect` | a reset is only ever kept together with a payment, so the last payment is within a day of the window's start |
| `CapCorrect`, `RenounceIsFinal`, `OutflowCorrect` | action properties from the type invariant: the clamp uses the same cap as the check; every function that spends or configures needs the owner; only `withdrawPayment` and the emergency exit take from the pool's balance, and a lemma says what each moves |
| `DayCorrect` | `CapInv`: what an agent had been paid just before its window opened plus what the window holds is all it was paid (`Spans`); less than a cap came in any day that reaches back over the start, and less than two in any that ends before it. Hypothesis: there is a largest cap and it is not zero, since with a cap of zero even nothing is "two caps" |
| `KeysCorrect` | `KeysInv`: listed keys are recorded, recorded ones listed, none listed twice; a lemma says what swap-and-pop does to a sequence without repetitions |
| `PagedReadCorrect` | `ReaderInv`: of the keys that were there all along, what lies ahead of the offset has not been received, what was received came once, and what was passed by (`PassedBy`) is no more than there were removals; a removal moves one key into a place already read, an addition none |
| `SummaryCorrect` | `FeedbackInv`: clients are listed once, and all of whom there is feedback. With it the two loops, turn by turn, have added exactly the feedback before them at the finest precision among it (`Sums`, `Summed`), so their end is the sum over the set that the definition takes: distinct clients give disjoint sets, and scaling a sum scales its terms; narrowing keeps what fits (`NarrowedKeeps`) |
| `PagedCountCorrect` | `CountInv`: in the middle of a read the total is at least what stands all along of the clients before the offset (`Front`), and at most what was ever seen of them; lists of clients only grow at their end |
| `InvCorrect`, `BalancesCorrect`, `BlankCorrect` | type invariant, balances and blank ids, inductive together: balances are cardinalities, and `_update` moves one agent between two accounts |
| `OwnershipImplemented` | initial states map to initial states; each step maps to a step of AgentOwnership, `RegisterStarts` to `Mint`, `RegisterEnds` to a stutter |
| `WalletCorrect` | with the invariant above: `_update` clears the wallet in the step that moves the agent, and an id not minted has none |
| `ProfilesCorrect` | an action property, by cases of the call that changed the profile: a registration that ends writes the agent it minted only, one that begins writes none that exists, and every other call that writes has passed the check of the sender |

**Rewards and signing** (`PaymentRewardProofs`, `UserSigningProofs`)

| Theorem | Argument |
|---|---|
| `TypeCorrect`, `BreakerCorrect` | the count reaches the threshold only in the step that opens the breaker |
| `CapOverrunCorrect` | about `HistorySpec`, which allows what `Next` does: nobody is admitted at the cap, so what is earned plus a greatest reward for each call asleep stays below the cap plus a greatest reward for one crossing payment and for each of the most calls asleep so far in the window; a new window starts with those asleep then. Nothing bounds that number, as in the service |
| `LedgerCorrect` | about `HistorySpec`. `LedgerInv`: the history is an end of what was due to it, never longer than its limit nor cut shorter than it should be; its entries are of paid calls, with what their admission fixed, and none twice. Appending to an end and cutting its front leaves one (`BookedEnds`), and the call a payment adds was not paid before |
| `DecayCorrect` | `DecayInv`: a score is at most what the last event left and, while a day has not passed, just that; a read lowers it only after a day (`DecayLowers`) |
| `ReceiptsCorrect` | `ChargeInv`: a receipt is of a charge that has ended and, unless simulated, of a payment taken or a reward; the history has each payment at most once, with entries that are true because their charge has ended (`Truthful`), and stays so when it is cut and when a batch is recorded at its end |
| `UserSigningProofs!TypeCorrect`, `SentOnceCorrect` | needs two more invariants: an entry was made in the minute its id names, and an id that was sent is either still known or its minute is over (an entry lives at least a minute, `Minute <= Expiry`); so `prepare` never makes a sent id pending again |
| `RejectedCorrect` | `RefusedInv`: an id that was rejected has not been sent, is not pending, and if it is forgotten its minute is over |

**Transfers and compliance** (`RemittanceTransferProofs`, `ComplianceProofs`)

| Theorem | Argument |
|---|---|
| `StreamTypeCorrect`, `EveryStatusDelivered` | inductive together with three facts: a walk passes a connection once and only connections that were opened, a connection not yet made has been given nothing, and every event known is one already broadcast, so the event of a new broadcast is new. What a put or a read does to a queue is in lemmas on `Append` and `Tail` |
| `TransfersUseTheStream`, `TransferStatusDelivered` | refinement by the same variables: each step of a transfer is one step of the stream or none, so what holds of every stream holds here |
| `TransferTypesCorrect` | control and data apart; the wallet stays natural because the chain mines what is covered |
| `AnswersAreTrue` | `HonestInv` follows a call from the steps before its transfer, where nothing is sent, to its receipt: the transfer is out at most once, a receipt comes only for one that is out, and what is recorded is read off the receipt |
| `ShortCorrect` | `ShortInv`: what is out belongs to a call that waits for it or has given up (`QueueOrder`), and a transfer is always first in line, since it takes the latest nonce; a call about to transfer holds the loop since it read the balance, so only the chain can spend in between, and all it can mine then is what another call gave up on (`Orderly`) |
| `CredentialCorrect`, `LevelsFallByOverlap` | `KycInv`: a verification under way is for a level above the one it found; so an answer lowers a record only if the record rose while it was awaited |
| `PassesCorrect` | `ScreenInv`: every cached verdict is one of the audit trail and lives one life from its entry (`VerdictsAudited`), and the trail keeps what it has |
| `LimitsCorrect` | `LimitInv`: until a save fails, memory, file and what was last set are one |

**Server and prices** (`ServerProofs`, `QuotesProofs`)

| Theorem | Argument |
|---|---|
| `LogoutCorrect`, `SessionCorrect` | `AuthInv`: every token goes back to a login under its secret, a refresh token within one refresh life of it, an access token within one access life more (`TokensTrace`); every logout is in the store, its token expired, or a restart came in between that kept or changed the secret (`LogoutsSpend`) |
| `JobsCorrect` | `JobsInv`: an id names one job in the table and in the file, so replacing and cancelling by id take the same job from both tables. Hypothesis `Hosted`: the scheduler is started. `recurring_unhosted` shows what happens in the program, where it is not |
| `PromisesCorrect` | `PromiseInv`: what was promised is in the table while the process is up, and in the file, in a form `_build_trigger` knows, while it is down |
| `RecordsCorrect` | `RunsInv`: the places of the history that hold a recipient are finitely many, as many as the runs; a run adds one place |
| `ChatContextCorrect` | inductive as it is, with the types; a lemma says what an update of the wallet leaves |
| `AloneCorrect` | `AloneInv`: as long as a chat is alone, the wallet in the service is its own and so are the contacts it left, and the instructions, if they were built for it, show these (`HasItsOwn`); only a chat or a post of another changes them. A lemma says what the middleware leaves, however far it came (`ChatOutcomes`) |
| `RealtimeAgeCorrect`, `RealtimeOrderCorrect` | `FeeInv`: what is in either cache was fetched before now and expires at most one life after that (client) or both (service); the static cache holds nothing real-time; and no entry of the client is older than the real-time entry of a quote on its pair, so neither an answer nor a cached one can put an older one in its place |
| `PreviewsCorrect` | `PreviewInv`: ids are distinct and numbered by age, so evicting the oldest at the limit takes one that as many newer ones followed as the cache holds |
| `LimitCorrect` | `WindowInv`: the timestamps kept are a suffix of the last `Limit` requests, and those the suffix lacks are out of the window |
| `RoutesCorrect` | `RoutesInv`: every cached route and the last one found is a shortest; where there is a pool of the two, the direct route, else the one over USDm, which no other tried can beat. Hypothesis `Hubbed`: a currency that has a pool has one with USDm. So it is in `MENTO_POOLS` (`route_optimization_service.py:19-37`); without it the detours tried would not be enough |

Model-checked only: liveness (`EveryCallSettles`, `EveryComparisonEnds`, `AnswersUnlessAbandoned`),
which is out of the prover's reach, as is ENABLED.

Two techniques recur. Where the code computes with a loop, the model has a recursive function, and a
property of it is proved without an induction theorem that takes an operator: the set of numbers at
which the property fails has a least element (`WFMin` of `WellFoundedInduction`), which the step
refutes (`UpTo`, `LoopRuns`, `LoopKeeps`). This is not available for `SelectSeq`, `FlattenSeq` and
`FoldLeft`, so what a theorem reads is written as the loop or the set itself. And where a
property counts, the invariant has sets and the theorem their cardinalities.

## 5. Not modelled

Left out on purpose: text (intent parsing, translation, language), the arithmetic of fees, ranks,
slippage and confidence, third-party messaging, cryptography of the TEE wallet, deployment scripts,
the pages of the web client. Inside the modelled parts: events and views that return stored state,
gas, cryptographic signatures (TEE proofs, wallet signatures and tokens are good or not), token data of a prepared transfer, history and fraud
scores of the analytics, the text made of contacts, endpoints that only read. `PROJECT.json` gives
the reason for each component.

## 6. Plan

Done, in the order of importance: money on the chain (pool, with the ownership it relies on), the
detailed registry and its refinement, keys and feedback, the rewards and signing services, the
transfers with the status stream they broadcast on, and then the keepers of state around them:
recurring transfers, authentication, chats, compliance, comparisons and previews, charges.

Next, should the code move on: `SigningClient`, the web client's hook over `UserSigning` with lost
and repeated answers; the composition of `Compliance` with `RemittanceTransfer`, which takes the
outcome of the checks as an input; a refinement of `RecurringTransfers` by the set of jobs a user
was told are scheduled. Theorems to come with them: that `RecurringTransfers`, started, implements
that set; that a transfer composed with its checks is sent only on a verdict of the audit trail;
and a bound on the failures of overlapping calls it takes to open the breaker of `PaymentReward`.
