---------------------------- MODULE UserSigning ----------------------------
(***************************************************************************)
(* services/user_signing_service.py behind the /transfer endpoints of      *)
(* server.py: transfers that the server prepares, the user's wallet signs  *)
(* and the server broadcasts.                                              *)
(*                                                                         *)
(* No handler awaits anything: the calls to the node, the wait of up to a  *)
(* minute for a receipt included, block the event loop.  So each handler   *)
(* is one step, in which the chain may or may not have taken the           *)
(* transaction in.  Handlers that begin with _cleanup_expired clean up in  *)
(* the same step.                                                          *)
(*                                                                         *)
(* The chain is external and modelled by what the service relies on: an    *)
(* account's transactions take effect one per nonce, in order, and a       *)
(* transaction once sent may be mined at any later time.  Auto-swap steps, *)
(* gas and token data are part of an answer only and left out.             *)
(***************************************************************************)
EXTENDS Naturals, FiniteSets

CONSTANTS Users, Requests,  \* a request is a recipient, an amount and a token
          Minute,           \* 60 s, the bucket of a transfer id
          Expiry,           \* 300 s, TRANSFER_EXPIRY
          NoEntry,          \* a transfer id not in _pending
          NoNonce,          \* prepared while the node was unreachable
          MaxTime, MaxNonce \* bounds on the clock and on transactions per user

ASSUME SigningAssumption ==
    /\ Minute \in Nat \ {0} /\ Expiry \in Nat /\ Minute <= Expiry
    /\ MaxTime \in Nat /\ MaxNonce \in Nat
    /\ NoNonce \notin Nat

VARIABLES pending,    \* _pending: transfer id -> PreparedTransfer
          connected,  \* w3.is_connected()
          now,        \* time.time()
          (* the chain *)
          nonce,      \* user -> transactions mined
          mempool,    \* transactions sent by the service and not mined
          mined       \* transactions sent by the service and mined

chainVars == <<nonce, mempool, mined>>
vars == <<pending, connected, now, chainVars>>

Status == {"pending", "confirmed", "failed", "rejected"}
Hash == {"none", "simulated", "real"}
TransferIds == [user : Users, request : Requests, minute : 0 .. (MaxTime \div Minute)]
Entry == [status : Status, createdAt : Nat, nonce : Nat \cup {NoNonce}, hash : Hash]
Tx == [id : TransferIds, nonce : Nat]
MinedTx == [id : TransferIds, nonce : Nat, succeeded : BOOLEAN]

ASSUME NoEntryAssumption == NoEntry \notin Entry

TypeOK ==
    /\ pending \in [TransferIds -> Entry \cup {NoEntry}]
    /\ connected \in BOOLEAN
    /\ now \in 0 .. MaxTime
    /\ nonce \in [Users -> Nat]
    /\ mempool \subseteq Tx
    /\ mined \subseteq MinedTx

Init ==
    /\ pending = [id \in TransferIds |-> NoEntry]
    /\ connected \in BOOLEAN
    /\ now = 0
    /\ nonce = [u \in Users |-> 0]
    /\ mempool = {}
    /\ mined = {}

-----------------------------------------------------------------------------

IsExpired(entry) == now > entry.createdAt + Expiry

(* _cleanup_expired drops what has expired, in whatever status it is.      *)
Cleaned(id) ==
    IF pending[id] = NoEntry \/ IsExpired(pending[id]) THEN NoEntry ELSE pending[id]

CleanedUp == [id \in TransferIds |-> Cleaned(id)]

(* _generate_transfer_id hashes the parameters and the minute.             *)
TransferId(u, r) == [user |-> u, request |-> r, minute |-> now \div Minute]

(* eth_getTransactionCount counts mined transactions only.                 *)
NextNonce(u) == IF connected THEN nonce[u] ELSE NoNonce

(* Mutant: only a pending transfer is handed out again.                    *)
KnownPending(id) == Cleaned(id) # NoEntry /\ Cleaned(id).status = "pending"

(* "Already pending": whatever its status.                                 *)
Known(id) == Cleaned(id) # NoEntry

(* prepare_transfer; an error of the node or an unknown token leaves only  *)
(* the clean-up.                                                           *)
Prepare(u, r) ==
    LET id == TransferId(u, r) IN
    /\ pending' = IF Known(id) THEN CleanedUp
                  ELSE [CleanedUp EXCEPT ![id] =
                          [status |-> "pending", createdAt |-> now,
                           nonce |-> NextNonce(u), hash |-> "none"]]
    /\ UNCHANGED <<connected, now, chainVars>>

(* get_pending_transfers, and every handler that fails early.              *)
CleanUp ==
    /\ pending' = CleanedUp
    /\ UNCHANGED <<connected, now, chainVars>>

-----------------------------------------------------------------------------
(* execute_signed_transfer.                                                *)

Executable(id) == Cleaned(id) # NoEntry /\ Cleaned(id).status = "pending"

Settled(id, status, hash) ==
    pending' = [CleanedUp EXCEPT ![id] = [@ EXCEPT !.status = status, !.hash = hash]]

(* The wallet signs the nonce it was given, or its next one.               *)
SignedNonce(id) ==
    IF Cleaned(id).nonce = NoNonce THEN nonce[id.user] ELSE Cleaned(id).nonce

(* A node takes no second transaction of the same nonce.                   *)
Acceptable(id) ==
    /\ SignedNonce(id) >= nonce[id.user]
    /\ \A x \in mempool : x.id.user = id.user => x.nonce # SignedNonce(id)

ExecuteSimulated(id) ==
    /\ Executable(id)
    /\ ~connected
    /\ Settled(id, "confirmed", "simulated")
    /\ UNCHANGED <<connected, now, chainVars>>

(* The node refuses the transaction or cannot be reached.                  *)
ExecuteRefused(id) ==
    /\ Executable(id)
    /\ connected
    /\ Settled(id, "failed", "none")
    /\ UNCHANGED <<connected, now, chainVars>>

(* The receipt comes in time, of a success or of a revert.                 *)
ExecuteMined(id, succeeded) ==
    /\ Executable(id)
    /\ connected
    /\ Acceptable(id) /\ SignedNonce(id) = nonce[id.user]
    /\ nonce[id.user] < MaxNonce
    /\ Settled(id, IF succeeded THEN "confirmed" ELSE "failed", "real")
    /\ mined' = mined \cup {[id |-> id, nonce |-> SignedNonce(id), succeeded |-> succeeded]}
    /\ nonce' = [nonce EXCEPT ![id.user] = @ + 1]
    /\ UNCHANGED <<mempool, connected, now>>

(* The wait for the receipt fails; the transaction is out.                 *)
ExecuteTimedOut(id) ==
    /\ Executable(id)
    /\ connected
    /\ Acceptable(id)
    /\ Settled(id, "failed", "none")
    /\ mempool' = mempool \cup {[id |-> id, nonce |-> SignedNonce(id)]}
    /\ UNCHANGED <<nonce, mined, connected, now>>

Execute(id) ==
    \/ ExecuteSimulated(id)
    \/ ExecuteRefused(id)
    \/ \E succeeded \in BOOLEAN : ExecuteMined(id, succeeded)
    \/ ExecuteTimedOut(id)

(* Mutant: a rejected transfer is dropped.                                 *)
RejectDrops(id) ==
    /\ pending[id] # NoEntry
    /\ pending' = [pending EXCEPT ![id] = NoEntry]
    /\ UNCHANGED <<connected, now, chainVars>>

(* reject_transfer: no clean-up, and no look at the status.                *)
Reject(id) ==
    /\ pending[id] # NoEntry
    /\ pending' = [pending EXCEPT ![id].status = "rejected"]
    /\ UNCHANGED <<connected, now, chainVars>>

-----------------------------------------------------------------------------
(* The environment.                                                        *)

(* A transaction of an earlier request is mined after all.                 *)
MineLate(x, succeeded) ==
    /\ x.nonce = nonce[x.id.user]
    /\ nonce[x.id.user] < MaxNonce
    /\ nonce' = [nonce EXCEPT ![x.id.user] = @ + 1]
    /\ mempool' = mempool \ {x}
    /\ mined' = mined \cup {[id |-> x.id, nonce |-> x.nonce, succeeded |-> succeeded]}
    /\ UNCHANGED <<pending, connected, now>>

(* The wallet sends something of its own, or replaces what is waiting.     *)
MineOther(u) ==
    /\ nonce[u] < MaxNonce
    /\ nonce' = [nonce EXCEPT ![u] = @ + 1]
    /\ mempool' = {x \in mempool : x.id.user = u => x.nonce # nonce[u]}
    /\ UNCHANGED <<pending, connected, now, mined>>

Reconnect == connected' = ~connected /\ UNCHANGED <<pending, now, chainVars>>

Tick == now < MaxTime /\ now' = now + 1 /\ UNCHANGED <<pending, connected, chainVars>>

Handlers ==
    \/ \E u \in Users, r \in Requests : Prepare(u, r)
    \/ \E id \in TransferIds : Execute(id) \/ Reject(id)
    \/ CleanUp

Environment ==
    \/ \E x \in mempool, succeeded \in BOOLEAN : MineLate(x, succeeded)
    \/ \E u \in Users : MineOther(u)
    \/ Reconnect
    \/ Tick

Next == Handlers \/ Environment

Spec == Init /\ [][Next]_vars

-----------------------------------------------------------------------------
(* Safety.                                                                 *)

Sent == mempool \cup {[id |-> x.id, nonce |-> x.nonce] : x \in mined}

(* However often a user prepares, retries or rejects a request, and however *)
(* late the chain is, a transfer id is sent at most once: an id the server *)
(* has sent is still known until its minute is over, when nobody is given  *)
(* it again.                                                               *)
SentAtMostOnce ==
    /\ \A x, y \in Sent : x.id = y.id => x = y
    /\ \A x \in Sent : pending[x.id] # NoEntry => pending[x.id].status # "pending"

=============================================================================
