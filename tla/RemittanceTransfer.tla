------------------------- MODULE RemittanceTransfer -------------------------
(***************************************************************************)
(* send_token and execute_transfer of tools/remittance_tools.py with the   *)
(* auto-swap, MentoPlugin.execute_swap and the records of                  *)
(* RemittancePlugin: the agent's one wallet pays for every user.           *)
(*                                                                         *)
(* The tools are coroutines on one event loop.  A call gives the loop up   *)
(* at the screening of the recipient, at the reward and where a status     *)
(* event meets a full queue (StatusStream); everything else, the calls to  *)
(* the node and the waits for receipts included, is synchronous and holds  *)
(* the loop.  The variable loop says which call holds it.                  *)
(*                                                                         *)
(* The chain mines in the order of nonces, at any time.  A nonce is        *)
(* represented by a place in pending: the number "pending" is the place    *)
(* behind every transaction that is out, the number "latest" the place of  *)
(* the first.  Prices are one to one; Margin stands for the 5 % and 10 %   *)
(* that are bought on top and a swap pays out up to MaxSlip less.  Gas is  *)
(* left out, and so are deposits into the wallet.                          *)
(*                                                                         *)
(* The verdicts of the limit, KYC and compliance checks are inputs.        *)
(***************************************************************************)
EXTENDS StatusStream

CONSTANTS Tokens,       \* token symbols, CELO and USDm among them
          Requests,     \* the requests of the calls, see RequestType
          InitialFunds, \* token -> balance of the agent's wallet
          Margin,
          MaxSlip,
          Idle          \* no call holds the loop

RequestType == [tool : {"send", "execute"}, token : Tokens, buys : Tokens, amount : Nat \ {0}]

ASSUME TransferAssumption ==
    /\ {"CELO", "USDm"} \subseteq Tokens
    /\ Requests \subseteq RequestType
    /\ InitialFunds \in [Tokens -> Nat]
    /\ Margin \in Nat /\ MaxSlip \in Nat
    /\ Idle \notin Tasks

VARIABLES request,      \* call -> what it was asked to do
          pc,           \* call -> the step it is at
          then,         \* call -> the step after its broadcast, the transaction it waits for
          loop,         \* the call that holds the event loop, or Idle
          shortBy,      \* call -> deficit of the token to send
          usdm,         \* call -> usdm_needed, later swap_amount
          wallet,       \* token -> balance of the signer
          pending,      \* transactions sent and not mined, by nonce
          receipt,      \* call -> transaction -> "none" and what became of it
          hash,         \* call -> the hash it records: "none", "mined", "simulated", "failed"
          recorded,     \* the calls whose entry is in RemittancePlugin.transactions
          rewarded,     \* the calls process_transfer_reward was called for
          answer        \* call -> "none" and the answer of the tool

callVars == <<request, pc, then, shortBy, usdm, hash, answer>>
chainVars == <<wallet, pending, receipt>>
bookVars == <<recorded, rewarded>>
vars == <<streamVars, callVars, loop, chainVars, bookVars>>

(* The transactions of a call, by the step that sends them.                *)
AutoSwap == {"approveCelo", "swapCelo", "approveUsdm", "swapUsdm"}
Execute == {"approveIn", "swapIn"}
TxStep == AutoSwap \cup {"transfer"} \cup Execute
Step == TxStep \cup {"idle", "screening", "preflight", "quote", "fund", "hop2", "recheck",
                     "record", "reward", "done", "emit", "wait"}
Outcome == {"ok", "reverted", "short"}

TypeOK ==
    /\ StreamTypeOK
    /\ request \in [Tasks -> Requests]
    /\ pc \in [Tasks -> Step] /\ then \in [Tasks -> Step]
    /\ loop \in Tasks \cup {Idle}
    /\ shortBy \in [Tasks -> Nat] /\ usdm \in [Tasks -> Nat]
    /\ wallet \in [Tokens -> Nat]
    /\ pending \in Seq([of : Tasks, step : TxStep])
    /\ receipt \in [Tasks -> [TxStep -> Outcome \cup {"none"}]]
    /\ hash \in [Tasks -> {"none", "mined", "simulated", "failed"}]
    /\ recorded \subseteq Tasks /\ rewarded \subseteq Tasks
    /\ answer \in [Tasks -> {"none", "refused", "error", "insufficient", "reverted", "success"}]

Init ==
    /\ StreamInit
    /\ request \in [Tasks -> Requests]
    /\ pc = [t \in Tasks |-> "idle"] /\ then = [t \in Tasks |-> "idle"]
    /\ loop = Idle
    /\ shortBy = [t \in Tasks |-> 0] /\ usdm = [t \in Tasks |-> 0]
    /\ wallet = InitialFunds
    /\ pending = <<>>
    /\ receipt = [t \in Tasks |-> [s \in TxStep |-> "none"]]
    /\ hash = [t \in Tasks |-> "none"]
    /\ recorded = {} /\ rewarded = {}
    /\ answer = [t \in Tasks |-> "none"]

Token(t) == request[t].token
Amount(t) == request[t].amount
Sends(t) == request[t].tool = "send"

-----------------------------------------------------------------------------
(* Control: a call runs while it holds the loop.                           *)

Goes(t, s) == pc' = [pc EXCEPT ![t] = s]
Runs(t, s) == pc[t] = s /\ loop = t
GoesOn(t, s) == Goes(t, s) /\ UNCHANGED <<then, loop, answer>>
Yields(t, s) == Goes(t, s) /\ loop' = Idle /\ UNCHANGED <<then, answer>>

Answers(t, a) ==
    /\ Goes(t, "done")
    /\ answer' = [answer EXCEPT ![t] = a]
    /\ loop' = Idle
    /\ UNCHANGED then

(* execute_swap hands its failures back as a hash, "0xERROR_...".          *)
Fails(t, a) ==
    IF Sends(t)
    THEN Answers(t, a) /\ UNCHANGED hash
    ELSE GoesOn(t, "record") /\ hash' = [hash EXCEPT ![t] = "failed"]

(* _emit_swap_status: a broadcast, and what comes after it.                *)
Emits(t, next) ==
    /\ StartBroadcast(t)
    /\ Goes(t, "emit") /\ then' = [then EXCEPT ![t] = next]
    /\ UNCHANGED <<loop, answer>>

PutStatus(t) ==
    /\ pc[t] = "emit" /\ loop \in {Idle, t}
    /\ Put(t)
    /\ loop' = t
    /\ UNCHANGED <<callVars, chainVars, bookVars>>

(* Mutant: the wait for room is not a suspension.                          *)
WaitForRoomOnLoop(t) ==
    /\ Runs(t, "emit")
    /\ Broadcasting(t) /\ Full(Head(todo[t]))
    /\ UNCHANGED vars

(* Mutant: a full queue ends the broadcast.                                *)
NoRoomEndsBroadcast(t) ==
    /\ Runs(t, "emit")
    /\ Broadcasting(t) /\ Full(Head(todo[t]))
    /\ todo' = [todo EXCEPT ![t] = <<>>]
    /\ UNCHANGED <<conn, queue, got, owed, emitted, history, callVars, loop, chainVars, bookVars>>

WaitForRoom(t) ==
    /\ Runs(t, "emit")
    /\ Broadcasting(t) /\ Full(Head(todo[t]))
    /\ loop' = Idle
    /\ UNCHANGED <<streamVars, callVars, chainVars, bookVars>>

StatusSent(t) ==
    /\ Runs(t, "emit") /\ ~ Broadcasting(t)
    /\ GoesOn(t, then[t])
    /\ UNCHANGED <<streamVars, request, shortBy, usdm, hash, chainVars, bookVars>>

-----------------------------------------------------------------------------
(* Transactions.                                                           *)

Tx(t, s) == [of |-> t, step |-> s]

(* _nonce of the auto-swap asks for the pending count, the other           *)
(* transactions take the count of mined ones.                              *)
UsesLatestNonce(s) == s \notin AutoSwap

(* The node takes the transaction at its nonce.  A nonce that is out is    *)
(* taken from the older transaction when the gas price has risen enough.   *)
Enqueued(tx) ==
    IF UsesLatestNonce(tx.step) /\ pending # <<>>
    THEN <<tx>> \o Tail(pending)
    ELSE Append(pending, tx)

Submit(t) ==
    /\ pc[t] \in TxStep /\ loop = t
    /\ pending' = Enqueued(Tx(t, pc[t]))
    /\ Goes(t, "wait") /\ then' = [then EXCEPT ![t] = pc[t]]
    /\ UNCHANGED <<streamVars, request, loop, shortBy, usdm, hash, answer, wallet, receipt, bookVars>>

(* An exception, of the node or of the wait for a receipt.  send_token     *)
(* reports those of the auto-swap as a lack of funds.                      *)
InAutoSwap == AutoSwap \cup {"quote", "fund", "hop2", "recheck"}
Raises(t, s) == Fails(t, IF s \in InAutoSwap THEN "insufficient" ELSE "error")

(* The node does not answer, or refuses the transaction ("nonce too low",  *)
(* "replacement transaction underpriced").                                 *)
NodeFails(t) ==
    /\ pc[t] \in TxStep \cup InAutoSwap \cup {"preflight"} /\ loop = t
    /\ Raises(t, pc[t])
    /\ UNCHANGED <<streamVars, request, shortBy, usdm, chainVars, bookVars>>

TimesOut(t) ==
    /\ Runs(t, "wait") /\ receipt[t][then[t]] = "none"
    /\ Raises(t, then[t])
    /\ UNCHANGED <<streamVars, request, shortBy, usdm, chainVars, bookVars>>

(* What a transaction sells, and for which token; the CELO of the first    *)
(* hop covers the USDm of the second, or the deficit itself.               *)
CeloIn(t) == (IF Token(t) = "USDm" THEN shortBy[t] ELSE usdm[t]) + Margin
Sells(tx) ==
    CASE tx.step = "swapCelo" -> [token |-> "CELO", amount |-> CeloIn(tx.of)]
      [] tx.step = "swapUsdm" -> [token |-> "USDm", amount |-> usdm[tx.of]]
      [] OTHER -> [token |-> Token(tx.of), amount |-> Amount(tx.of)]
Buys(tx) ==
    CASE tx.step = "swapCelo" -> "USDm"
      [] tx.step = "swapUsdm" -> Token(tx.of)
      [] OTHER -> request[tx.of].buys

MovesTokens(tx) == tx.step \notin {"approveCelo", "approveUsdm", "approveIn"}
Covered(tx) == MovesTokens(tx) => wallet[Sells(tx).token] >= Sells(tx).amount

Applied(tx, slip) ==
    LET sold == Sells(tx)
        left == [wallet EXCEPT ![sold.token] = @ - sold.amount]
    IN  CASE ~ MovesTokens(tx) -> wallet
          [] tx.step = "transfer" -> left
          [] OTHER -> [left EXCEPT ![Buys(tx)] = @ + (sold.amount - slip)]

(* The chain mines the first transaction; without the funds it reverts, a  *)
(* swap also when the price has moved and a transfer when the token        *)
(* refuses it.                                                             *)
Mine ==
    /\ pending # <<>>
    /\ pending' = Tail(pending)
    /\ LET tx == Head(pending)
           Settles(o) == receipt' = [receipt EXCEPT ![tx.of][tx.step] = o]
       IN  \/ /\ Covered(tx) /\ Settles("ok")
              /\ \E slip \in 0 .. MaxSlip :
                    slip <= Sells(tx).amount /\ wallet' = Applied(tx, slip)
           \/ Covered(tx) /\ Settles("reverted") /\ UNCHANGED wallet
           \/ ~ Covered(tx) /\ Settles("short") /\ UNCHANGED wallet
    /\ UNCHANGED <<streamVars, callVars, loop, bookVars>>

-----------------------------------------------------------------------------
(* Up to the first transaction.                                            *)

(* The spending limit and KYC, which do not suspend.                       *)
Begin(t) ==
    /\ pc[t] = "idle" /\ loop = Idle
    /\ Answers(t, "refused") \/ Yields(t, "screening")
    /\ UNCHANGED <<streamVars, request, shortBy, usdm, hash, chainVars, bookVars>>

(* The screening is back: a verdict, or an exception, which does not stop  *)
(* the transfer.  A token that is not known and a route that is not found  *)
(* end the call as a refusal does, before anything is read of the wallet.  *)
Screened(t) ==
    /\ pc[t] = "screening" /\ loop = Idle
    /\ \/ Answers(t, "refused")
       \/ /\ Goes(t, "preflight") /\ loop' = t
          /\ UNCHANGED <<then, answer>>
    /\ UNCHANGED <<streamVars, request, shortBy, usdm, hash, chainVars, bookVars>>

(* execute_swap: the balance of the token to sell.                         *)
ExecutePreflight(t) ==
    /\ Runs(t, "preflight") /\ ~ Sends(t)
    /\ IF wallet[Token(t)] >= Amount(t)
       THEN GoesOn(t, "approveIn") /\ UNCHANGED hash
       ELSE Fails(t, "error")
    /\ UNCHANGED <<streamVars, request, shortBy, usdm, chainVars, bookVars>>

(* send_token without a connection to the node.                            *)
Simulate(t) ==
    /\ Runs(t, "preflight") /\ Sends(t)
    /\ hash' = [hash EXCEPT ![t] = "simulated"]
    /\ GoesOn(t, "record")
    /\ UNCHANGED <<streamVars, request, shortBy, usdm, chainVars, bookVars>>

(* send_token: the wallet holds enough, or an auto-swap is announced.      *)
Preflight(t) ==
    /\ Runs(t, "preflight") /\ Sends(t)
    /\ IF wallet[Token(t)] >= Amount(t)
       THEN GoesOn(t, "transfer") /\ UNCHANGED <<shortBy, streamVars>>
       ELSE /\ shortBy' = [shortBy EXCEPT ![t] = Amount(t) - wallet[Token(t)]]
            /\ Emits(t, "quote")
    /\ UNCHANGED <<request, usdm, hash, chainVars, bookVars>>

(* _auto_swap_for_token: one hop for USDm, two for any other token, CELO   *)
(* included.  There may be no pool, and the pool may be paused.            *)
Quote(t) ==
    /\ Runs(t, "quote")
    /\ \/ Answers(t, "error") /\ UNCHANGED <<usdm, streamVars>>
       \/ /\ Token(t) = "USDm"
          /\ Emits(t, "approveCelo") /\ UNCHANGED usdm
       \/ /\ Token(t) # "USDm"
          /\ usdm' = [usdm EXCEPT ![t] = shortBy[t] + Margin]
          /\ Emits(t, "fund")
    /\ UNCHANGED <<request, shortBy, hash, chainVars, bookVars>>

Fund(t) ==
    /\ Runs(t, "fund")
    /\ IF wallet["CELO"] < CeloIn(t) THEN Answers(t, "error") ELSE GoesOn(t, "approveCelo")
    /\ UNCHANGED <<streamVars, request, shortBy, usdm, hash, chainVars, bookVars>>

-----------------------------------------------------------------------------
(* After a receipt.                                                        *)

Mined(t, s) == Runs(t, "wait") /\ then[t] = s /\ receipt[t][s] # "none"
Succeeded(t, s) == receipt[t][s] = "ok"

(* An approval that failed ends the auto-swap; execute_swap does not look. *)
Approved(t) ==
    /\ \/ /\ Mined(t, "approveCelo")
          /\ IF Succeeded(t, "approveCelo") THEN GoesOn(t, "swapCelo") ELSE Answers(t, "error")
       \/ /\ Mined(t, "approveUsdm")
          /\ IF Succeeded(t, "approveUsdm") THEN GoesOn(t, "swapUsdm") ELSE Answers(t, "error")
       \/ Mined(t, "approveIn") /\ GoesOn(t, "swapIn")
    /\ UNCHANGED <<streamVars, request, shortBy, usdm, hash, chainVars, bookVars>>

AutoSwapped(t) ==
    /\ \E s \in {"swapCelo", "swapUsdm"} :
          /\ Mined(t, s)
          /\ IF Succeeded(t, s)
             THEN Emits(t, IF s = "swapCelo" /\ Token(t) # "USDm" THEN "hop2" ELSE "recheck")
             ELSE Answers(t, "error") /\ UNCHANGED streamVars
    /\ UNCHANGED <<request, shortBy, usdm, hash, chainVars, bookVars>>

(* The second hop sells what it needs of the USDm there is.                *)
Hop2(t) ==
    /\ Runs(t, "hop2")
    /\ LET balance == wallet["USDm"]
       IN  usdm' = [usdm EXCEPT ![t] = IF balance < @ THEN balance ELSE @]
    /\ IF usdm'[t] = 0 THEN Answers(t, "error") ELSE GoesOn(t, "approveUsdm")
    /\ UNCHANGED <<streamVars, request, shortBy, hash, chainVars, bookVars>>

(* Mutant: the summary of the auto-swap is taken for the funds.            *)
RecheckNothing(t) ==
    /\ Runs(t, "recheck") /\ GoesOn(t, "transfer")
    /\ UNCHANGED <<streamVars, request, shortBy, usdm, hash, chainVars, bookVars>>

Recheck(t) ==
    /\ Runs(t, "recheck")
    /\ IF wallet[Token(t)] < Amount(t) THEN Answers(t, "insufficient") ELSE GoesOn(t, "transfer")
    /\ UNCHANGED <<streamVars, request, shortBy, usdm, hash, chainVars, bookVars>>

(* Mutant: the status of the receipt is not looked at.                     *)
TransferredAnyway(t) ==
    /\ Mined(t, "transfer")
    /\ Emits(t, "record") /\ hash' = [hash EXCEPT ![t] = "mined"]
    /\ UNCHANGED <<request, shortBy, usdm, chainVars, bookVars>>

Transferred(t) ==
    /\ Mined(t, "transfer")
    /\ IF Succeeded(t, "transfer")
       THEN Emits(t, "record") /\ hash' = [hash EXCEPT ![t] = "mined"]
       ELSE Answers(t, "reverted") /\ UNCHANGED <<hash, streamVars>>
    /\ UNCHANGED <<request, shortBy, usdm, chainVars, bookVars>>

Executed(t) ==
    /\ Mined(t, "swapIn")
    /\ IF Succeeded(t, "swapIn")
       THEN GoesOn(t, "record") /\ hash' = [hash EXCEPT ![t] = "mined"]
       ELSE Fails(t, "reverted")
    /\ UNCHANGED <<streamVars, request, shortBy, usdm, chainVars, bookVars>>

(* record_transaction keys the entries by hash: simulated transfers share  *)
(* one, and so do the errors with one text; the later replaces the         *)
(* earlier.  record_successful_task does not suspend and keeps nothing.    *)
SameKey(t, u) == hash[t] = hash[u] /\ hash[t] # "mined"

Record(t) ==
    /\ Runs(t, "record")
    /\ recorded' = {u \in recorded : ~ SameKey(t, u)} \cup {t}
    /\ IF Sends(t) THEN Yields(t, "reward") ELSE Answers(t, "success")
    /\ UNCHANGED <<streamVars, request, shortBy, usdm, hash, chainVars, rewarded>>

(* process_transfer_reward is over (PaymentReward), however it ended.      *)
Reward(t) ==
    /\ pc[t] = "reward" /\ loop = Idle
    /\ rewarded' = rewarded \cup {t}
    /\ Answers(t, "success")
    /\ UNCHANGED <<streamVars, request, shortBy, usdm, hash, chainVars, recorded>>

-----------------------------------------------------------------------------
Call(t) ==
    \/ Begin(t) \/ Screened(t) \/ ExecutePreflight(t) \/ Simulate(t) \/ Preflight(t)
    \/ Quote(t) \/ Fund(t) \/ Submit(t) \/ NodeFails(t) \/ TimesOut(t)
    \/ Approved(t) \/ AutoSwapped(t) \/ Hop2(t) \/ Recheck(t)
    \/ Transferred(t) \/ Executed(t) \/ Record(t) \/ Reward(t)
    \/ PutStatus(t) \/ WaitForRoom(t) \/ StatusSent(t)

(* The generators of the stream run on the loop too.                       *)
StreamReads(c) ==
    /\ loop = Idle /\ Read(c)
    /\ UNCHANGED <<callVars, loop, chainVars, bookVars>>

StreamOpensOrCloses(c) ==
    /\ loop = Idle /\ (Connect(c) \/ Disconnect(c))
    /\ UNCHANGED <<callVars, loop, chainVars, bookVars>>

Next ==
    \/ \E t \in Tasks : Call(t)
    \/ Mine
    \/ \E c \in Connections : StreamReads(c) \/ StreamOpensOrCloses(c)

(* The loop runs every task that can go on; connected clients read.        *)
Fairness ==
    /\ \A t \in Tasks : WF_vars(Call(t))
    /\ \A c \in Connections : WF_vars(StreamReads(c))

Spec == Init /\ [][Next]_vars
FairSpec == Spec /\ Fairness

-----------------------------------------------------------------------------
(* A call gave up waiting for a transaction that was mined all the same.   *)
MinedLate(u) ==
    /\ pc[u] = "done" /\ then[u] \in TxStep /\ receipt[u][then[u]] = "ok"
    /\ answer[u] # "success" \/ hash[u] = "failed"

(* A transfer is sent without the funds for it, on a wallet every call     *)
(* spends from, only if a transaction some other call had given up on was  *)
(* mined late: the balance is read last before the send, and no other call *)
(* runs in between, however the calls overlapped before.                   *)
ShortOnlyByLateSpend ==
    \A t \in Tasks : receipt[t]["transfer"] = "short" =>
        \E u \in Tasks \ {t} : MinedLate(u)

Out(t) == \E i \in DOMAIN pending : pending[i] = Tx(t, "transfer")

(* What send_token answers is what became of the transfer, when it says    *)
(* so: paid when it tells a mined hash, reverted by the token when it says *)
(* and not sent at all when it was refused or short of funds.              *)
AnswersMatchChain ==
    \A t \in Tasks : Sends(t) =>
        /\ answer[t] = "success" /\ hash[t] = "mined" => receipt[t]["transfer"] = "ok"
        /\ answer[t] = "reverted" => receipt[t]["transfer"] \in {"reverted", "short"}
        /\ answer[t] \in {"refused", "insufficient"} =>
              receipt[t]["transfer"] = "none" /\ ~ Out(t)
        /\ t \in rewarded => receipt[t]["transfer"] = "ok" \/ hash[t] = "simulated"

(* record_transaction: "Store a completed transaction."  An entry stands   *)
(* for a transfer or a swap that was mined.                                *)
RecordedIsCompleted ==
    \A t \in recorded : hash[t] # "simulated" =>
        receipt[t]["transfer"] = "ok" \/ receipt[t]["swapIn"] = "ok"

Answered(t) == pc[t] # "idle" ~> pc[t] = "done"

(* "Remove subscriber if queue is full (disconnected)": a client that      *)
(* reads, or is gone, does not keep a transfer from being answered.        *)
EveryCallAnswers == \A t \in Tasks : Answered(t)

(* Every transfer is answered as long as no connection is closed with its  *)
(* queue full.                                                             *)
AnswersUnlessAbandoned ==
    [](\A c \in Connections : conn[c] = "closed" => ~ Full(c)) => EveryCallAnswers

=============================================================================
