-------------------------- MODULE IdentityRegistry --------------------------
(***************************************************************************)
(* contracts/src/IdentityRegistry.sol with the OpenZeppelin ERC721 and     *)
(* ERC721URIStorage contracts it inherits from.                            *)
(*                                                                         *)
(* register mints through _safeMint, which calls onERC721Received of a     *)
(* caller that is a contract before register has written the URI and the   *)
(* metadata.  What contracts do inside that callback happens between       *)
(* RegisterStarts and RegisterEnds; only register itself is nonReentrant.  *)
(* The callback of safeTransferFrom comes after its last write, so there   *)
(* the same steps simply follow TransferFrom.  A reverted transaction,     *)
(* callback included, is a stuttering step.                                *)
(***************************************************************************)
EXTENDS Naturals, FiniteSets

CONSTANTS Accounts, Contracts,  \* senders of transactions, and those with code
          NoAddress, MaxAgents,
          Keys, Values, NoValue,  \* metadata; NoValue is the empty bytes
          Uris, EmptyUri,
          KeepUri,              \* register(): no URI argument, so none is written
          InitialMetadata,      \* metadata arguments, as key -> last value given
          NoCall                \* no register call is suspended

ASSUME IdentityAssumption ==
    /\ NoAddress \notin Accounts
    /\ IsFiniteSet(Accounts)
    /\ Contracts \subseteq Accounts
    /\ MaxAgents \in Nat
    /\ EmptyUri \in Uris /\ KeepUri \notin Uris
    /\ NoValue \in Values
    /\ InitialMetadata \subseteq UNION {[K -> Values] : K \in SUBSET Keys}

VARIABLES owners, balances, tokenApprovals,
          operatorApprovals,  \* owner -> the operators approved for all its agents
          lastId, agentWallets, tokenURIs, metadata,
          suspended           \* the register call inside its callback, or NoCall

erc721Vars == <<owners, balances, tokenApprovals, operatorApprovals>>
profileVars == <<agentWallets, tokenURIs, metadata>>
vars == <<erc721Vars, profileVars, lastId, suspended>>

AgentIds == 0 .. (MaxAgents - 1)
OptionalAccount == Accounts \cup {NoAddress}
Registration == [sender : Accounts, id : AgentIds, uri : Uris \cup {KeepUri},
                 entries : InitialMetadata]

TypeOK ==
    /\ owners \in [AgentIds -> OptionalAccount]
    /\ balances \in [Accounts -> Nat]
    /\ tokenApprovals \in [AgentIds -> OptionalAccount]
    /\ operatorApprovals \in [Accounts -> SUBSET Accounts]
    /\ lastId \in 0 .. MaxAgents
    /\ agentWallets \in [AgentIds -> OptionalAccount]
    /\ tokenURIs \in [AgentIds -> Uris]
    /\ metadata \in [AgentIds -> [Keys -> Values]]
    /\ suspended \in Registration \cup {NoCall}

Init ==
    /\ owners = [id \in AgentIds |-> NoAddress]
    /\ balances = [a \in Accounts |-> 0]
    /\ tokenApprovals = [id \in AgentIds |-> NoAddress]
    /\ operatorApprovals = [a \in Accounts |-> {}]
    /\ lastId = 0
    /\ agentWallets = [id \in AgentIds |-> NoAddress]
    /\ tokenURIs = [id \in AgentIds |-> EmptyUri]
    /\ metadata = [id \in AgentIds |-> [k \in Keys |-> NoValue]]
    /\ suspended = NoCall

-----------------------------------------------------------------------------
(* ERC721.                                                                 *)

Exists(id) == owners[id] # NoAddress

IsApprovedForAll(holder, operator) == operator \in operatorApprovals[holder]

IsAuthorized(sender, id) ==
    /\ Exists(id)
    /\ \/ sender = owners[id]
       \/ IsApprovedForAll(owners[id], sender)
       \/ sender = tokenApprovals[id]

Counted(to, id) ==
    balances' =
        LET left == IF Exists(id) THEN [balances EXCEPT ![owners[id]] = @ - 1] ELSE balances
        IN  [left EXCEPT ![to] = @ + 1]

(* Mutants: a transfer keeps the wallet; it keeps the approval.            *)
ForgetsApproval(id) ==
    /\ tokenApprovals' = [tokenApprovals EXCEPT ![id] = NoAddress]
    /\ UNCHANGED agentWallets

ForgetsWallet(id) ==
    /\ agentWallets' = [agentWallets EXCEPT ![id] = NoAddress]
    /\ UNCHANGED tokenApprovals

(* What a transfer forgets, and a mint, which finds nothing, does not.     *)
Forgets(id) ==
    IF Exists(id)
    THEN /\ tokenApprovals' = [tokenApprovals EXCEPT ![id] = NoAddress]
         /\ agentWallets' = [agentWallets EXCEPT ![id] = NoAddress]
    ELSE UNCHANGED <<tokenApprovals, agentWallets>>

(* _update, of ERC721 and then of IdentityRegistry.  Nothing burns, so     *)
(* `to` is an account.                                                     *)
Update(to, id) ==
    /\ owners' = [owners EXCEPT ![id] = to]
    /\ Counted(to, id)
    /\ Forgets(id)

Approve(sender, to, id) ==
    /\ Exists(id)
    /\ sender = owners[id] \/ IsApprovedForAll(owners[id], sender)
    /\ tokenApprovals' = [tokenApprovals EXCEPT ![id] = to]
    /\ UNCHANGED <<owners, balances, operatorApprovals, profileVars, lastId, suspended>>

SetApprovalForAll(sender, operator, allowed) ==
    /\ operatorApprovals' =
          [operatorApprovals EXCEPT ![sender] = IF allowed THEN @ \cup {operator}
                                                           ELSE @ \ {operator}]
    /\ UNCHANGED <<owners, balances, tokenApprovals, profileVars, lastId, suspended>>

TransferFrom(sender, to, id) ==
    /\ IsAuthorized(sender, id)
    /\ Update(to, id)
    /\ UNCHANGED <<operatorApprovals, tokenURIs, metadata, lastId, suspended>>

-----------------------------------------------------------------------------
(* register, in its three forms.                                           *)

WrittenUri(id, uri) ==
    tokenURIs' = IF uri = KeepUri THEN tokenURIs ELSE [tokenURIs EXCEPT ![id] = uri]

WrittenMetadata(id, entries) ==
    metadata' = [metadata EXCEPT ![id] =
                    [k \in Keys |-> IF k \in DOMAIN entries THEN entries[k] ELSE @[k]]]

(* nonReentrant: no other register call is suspended.                      *)
Minted(sender) ==
    /\ suspended = NoCall
    /\ lastId < MaxAgents
    /\ lastId' = lastId + 1
    /\ Update(sender, lastId)
    /\ UNCHANGED operatorApprovals

Register(sender, uri, entries) ==
    /\ sender \notin Contracts
    /\ Minted(sender)
    /\ WrittenUri(lastId, uri)
    /\ WrittenMetadata(lastId, entries)
    /\ UNCHANGED suspended

RegisterStarts(sender, uri, entries) ==
    /\ sender \in Contracts
    /\ Minted(sender)
    /\ suspended' = [sender |-> sender, id |-> lastId, uri |-> uri, entries |-> entries]
    /\ UNCHANGED <<tokenURIs, metadata>>

RegisterEnds ==
    /\ suspended # NoCall
    /\ WrittenUri(suspended.id, suspended.uri)
    /\ WrittenMetadata(suspended.id, suspended.entries)
    /\ suspended' = NoCall
    /\ UNCHANGED <<erc721Vars, lastId, agentWallets>>

-----------------------------------------------------------------------------
(* The profile of an agent.                                                *)

SetMetadata(sender, id, key, value) ==
    /\ IsAuthorized(sender, id)
    /\ metadata' = [metadata EXCEPT ![id][key] = value]
    /\ UNCHANGED <<erc721Vars, agentWallets, tokenURIs, lastId, suspended>>

(* Mutant: anybody may.                                                    *)
SetAgentUriByAnyone(sender, id, uri) ==
    /\ Exists(id)
    /\ tokenURIs' = [tokenURIs EXCEPT ![id] = uri]
    /\ UNCHANGED <<erc721Vars, agentWallets, metadata, lastId, suspended>>

SetAgentUri(sender, id, uri) ==
    /\ IsAuthorized(sender, id)
    /\ tokenURIs' = [tokenURIs EXCEPT ![id] = uri]
    /\ UNCHANGED <<erc721Vars, agentWallets, metadata, lastId, suspended>>

SetAgentWallet(sender, id, wallet) ==
    /\ IsAuthorized(sender, id)
    /\ agentWallets[id] = NoAddress
    /\ agentWallets' = [agentWallets EXCEPT ![id] = wallet]
    /\ UNCHANGED <<erc721Vars, tokenURIs, metadata, lastId, suspended>>

UnsetAgentWallet(sender, id) ==
    /\ IsAuthorized(sender, id)
    /\ agentWallets[id] # NoAddress
    /\ agentWallets' = [agentWallets EXCEPT ![id] = NoAddress]
    /\ UNCHANGED <<erc721Vars, tokenURIs, metadata, lastId, suspended>>

-----------------------------------------------------------------------------

(* Inside a callback only contracts send calls.                            *)
CanSend(sender) == suspended = NoCall \/ sender \in Contracts

OnAgent(sender, id) ==
    \/ \E to \in OptionalAccount : Approve(sender, to, id)
    \/ \E to \in Accounts : TransferFrom(sender, to, id)
    \/ \E key \in Keys, value \in Values : SetMetadata(sender, id, key, value)
    \/ \E uri \in Uris : SetAgentUri(sender, id, uri)
    \/ \E wallet \in Accounts : SetAgentWallet(sender, id, wallet)
    \/ UnsetAgentWallet(sender, id)

RegisterCall(sender, uri, entries) ==
    Register(sender, uri, entries) \/ RegisterStarts(sender, uri, entries)

SentBy(sender) ==
    /\ CanSend(sender)
    /\ \/ \E id \in AgentIds : OnAgent(sender, id)
       \/ \E operator \in Accounts, allowed \in BOOLEAN :
             SetApprovalForAll(sender, operator, allowed)
       \/ \E uri \in Uris \cup {KeepUri}, entries \in InitialMetadata :
             RegisterCall(sender, uri, entries)

Next == RegisterEnds \/ \E sender \in Accounts : SentBy(sender)

Spec == Init /\ [][Next]_vars

-----------------------------------------------------------------------------

(* What the other contracts rely on: this registry implements ownership    *)
(* and approval of agents as AgentOwnership states them, also while a      *)
(* register call is suspended in a callback.                               *)
Ownership == INSTANCE AgentOwnership WITH
    owner <- owners,
    approved <- tokenApprovals,
    operators <- {p \in Accounts \X Accounts : p[2] \in operatorApprovals[p[1]]}

ImplementsOwnership == Ownership!OwnershipSpec

(* balanceOf counts the agents held, though it is kept by increments and   *)
(* unchecked decrements.                                                   *)
BalancesCountAgents ==
    \A a \in Accounts : balances[a] = Cardinality({id \in AgentIds : owners[id] = a})

(* An id not handed out yet carries nothing its first owner would inherit, *)
(* and only the newest agent's registration can be unfinished.             *)
FreshIdsAreBlank ==
    /\ \A id \in lastId .. (MaxAgents - 1) :
          /\ owners[id] = NoAddress /\ tokenApprovals[id] = NoAddress
          /\ agentWallets[id] = NoAddress /\ tokenURIs[id] = EmptyUri
          /\ \A k \in Keys : metadata[id][k] = NoValue
    /\ suspended # NoCall => suspended.id = lastId - 1

=============================================================================
