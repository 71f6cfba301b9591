--------------------------- MODULE AgentOwnership ---------------------------
(***************************************************************************)
(* Who owns an agent, and who may act for the owner: the ERC-721 half of   *)
(* contracts/src/IdentityRegistry.sol.  The payment pool, the TEE registry *)
(* and the reputation registry consult nothing else of the identity        *)
(* registry (exists, ownerOf, isApprovedForAll, getApproved), so they are  *)
(* composed with this module; IdentityRegistry is the detailed model and   *)
(* is shown to implement it.                                               *)
(*                                                                         *)
(* A transaction that reverts changes nothing, so it is a stuttering step: *)
(* every action below is a transaction that succeeds.                      *)
(***************************************************************************)
EXTENDS Naturals

CONSTANTS Accounts,    \* addresses that send transactions
          NoAddress,   \* address(0)
          MaxAgents    \* bound on _lastId: how many agents a behaviour mints

ASSUME AccountsAssumption == NoAddress \notin Accounts
ASSUME MaxAgentsAssumption == MaxAgents \in Nat

VARIABLES owner,      \* _owners: agent id -> address, NoAddress before the mint
          approved,   \* _tokenApprovals
          operators,  \* _operatorApprovals, as the set of pairs <<owner, operator>> that hold
          lastId      \* _lastId, the next id to mint

ownershipVars == <<owner, approved, operators, lastId>>

AgentIds == 0 .. (MaxAgents - 1)
OptionalAccount == Accounts \cup {NoAddress}

OwnershipTypeOK ==
    /\ owner \in [AgentIds -> OptionalAccount]
    /\ approved \in [AgentIds -> OptionalAccount]
    /\ operators \subseteq Accounts \X Accounts
    /\ lastId \in 0 .. MaxAgents

OwnershipInit ==
    /\ owner = [id \in AgentIds |-> NoAddress]
    /\ approved = [id \in AgentIds |-> NoAddress]
    /\ operators = {}
    /\ lastId = 0

Exists(id) == owner[id] # NoAddress

IsOperator(holder, sender) == <<holder, sender>> \in operators

(* _isAuthorized of the identity registry, _isAgentAuthorized of the TEE   *)
(* registry: ownerOf reverts for an agent that was never minted.           *)
IsAuthorized(sender, id) ==
    /\ Exists(id)
    /\ \/ sender = owner[id]
       \/ IsOperator(owner[id], sender)
       \/ sender = approved[id]

-----------------------------------------------------------------------------

(* register(): the next id goes to the caller.                             *)
Mint(sender) ==
    /\ lastId < MaxAgents
    /\ owner' = [owner EXCEPT ![lastId] = sender]
    /\ lastId' = lastId + 1
    /\ UNCHANGED <<approved, operators>>

(* A single-token approval does not let its holder approve somebody else.  *)
Approve(sender, to, id) ==
    /\ Exists(id)
    /\ sender = owner[id] \/ IsOperator(owner[id], sender)
    /\ approved' = [approved EXCEPT ![id] = to]
    /\ UNCHANGED <<owner, operators, lastId>>

SetApprovalForAll(sender, operator, allowed) ==
    /\ operators' = IF allowed THEN operators \cup {<<sender, operator>>}
                               ELSE operators \ {<<sender, operator>>}
    /\ UNCHANGED <<owner, approved, lastId>>

(* transferFrom: _update moves the token and clears its approval.          *)
TransferAgent(sender, to, id) ==
    /\ IsAuthorized(sender, id)
    /\ owner' = [owner EXCEPT ![id] = to]
    /\ approved' = [approved EXCEPT ![id] = NoAddress]
    /\ UNCHANGED <<operators, lastId>>

OwnershipNext ==
    \E sender \in Accounts :
        \/ Mint(sender)
        \/ \E id \in AgentIds :
              \/ \E to \in OptionalAccount : Approve(sender, to, id)
              \/ \E to \in Accounts : TransferAgent(sender, to, id)
        \/ \E operator \in Accounts, allowed \in BOOLEAN :
              SetApprovalForAll(sender, operator, allowed)

OwnershipSpec == OwnershipInit /\ [][OwnershipNext]_ownershipVars

-----------------------------------------------------------------------------

(* Ids are handed out densely and never twice: exactly the ids below       *)
(* _lastId have an owner, and a minted agent is never without one again.   *)
MintedExactlyBelowLastId == \A id \in AgentIds : Exists(id) <=> id < lastId

=============================================================================
