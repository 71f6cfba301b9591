------------------------ MODULE MCIdentityRegistry ------------------------
(* IdentityRegistry on a small instance, with a history of who sent the    *)
(* last transaction and for which holder each agent wallet was set.        *)
EXTENDS IdentityRegistry

VARIABLES actor,        \* history: sender of the last step
          walletHolder  \* history: owner of the agent when its wallet was last set

mcVars == <<vars, actor, walletHolder>>

MCInit == Init /\ actor = NoAddress /\ walletHolder = [id \in AgentIds |-> NoAddress]

MCNext ==
    /\ \/ RegisterEnds /\ actor' = suspended.sender
       \/ \E sender \in Accounts : SentBy(sender) /\ actor' = sender
    /\ walletHolder' = [id \in AgentIds |->
          IF agentWallets'[id] # agentWallets[id]
          THEN IF agentWallets'[id] = NoAddress THEN NoAddress ELSE owners[id]
          ELSE walletHolder[id]]

MCSpec == MCInit /\ [][MCNext]_mcVars

MCInitialMetadata == {[k \in {} |-> NoValue]} \cup [Keys -> Values \ {NoValue}]

(* An operator of itself may do nothing more than it may anyway: not       *)
(* explored further.                                                       *)
NoSelfOperators == \A a \in Accounts : a \notin operatorApprovals[a]

(* A wallet that proves control of an agent was set under its present      *)
(* holder: no transfer, to oneself or inside a callback, leaves the wallet *)
(* of an earlier one.                                                      *)
WalletSetUnderHolder ==
    \A id \in AgentIds : agentWallets[id] # NoAddress => walletHolder[id] = owners[id]

Profile(id) == <<tokenURIs[id], metadata[id], agentWallets[id]>>

(* The profile of an agent is changed by the owner, its operators and the  *)
(* approved address only - or by the pending register call that minted it, *)
(* even if the agent has moved on during the callback.                     *)
ProfileChangesAreAuthorized ==
    [][\A id \in AgentIds :
          Exists(id) /\ <<tokenURIs, metadata, agentWallets>>' # <<tokenURIs, metadata, agentWallets>>
                     /\ Profile(id)' # Profile(id)
              => \/ IsAuthorized(actor', id)
                 \/ suspended # NoCall /\ suspended' = NoCall
                       /\ suspended.id = id /\ actor' = suspended.sender]_mcVars

=============================================================================
