---------------------------- MODULE TEERegistry ----------------------------
(***************************************************************************)
(* contracts/src/TEERegistry.sol composed with the identity registry: the  *)
(* keys attested for each agent, and the whitelist of verifiers.           *)
(*                                                                         *)
(* _agentKeys is an EnumerableSet: an array that removes by moving its     *)
(* last element into the gap.  verifyAttestation is a view call, so it     *)
(* decides whether addKey goes through and changes nothing.  A reverted    *)
(* call is a stuttering step.  What a key carries besides its verifier     *)
(* (measurement, configuration, time) is left out.                         *)
(***************************************************************************)
EXTENDS AgentOwnership, Sequences

CONSTANTS RegistryDeployer,  \* the account that deployed the registry
          Verifiers,     \* addresses of verifier contracts
          Architectures, \* bytes32 identifiers of TEE architectures
          NoArch,        \* bytes32(0)
          Pubkeys,       \* addresses of keys
          NoVerifier     \* address(0), the verifier of an unregistered key

ASSUME TEEAssumption ==
    /\ RegistryDeployer \in Accounts
    /\ NoArch \in Architectures
    /\ NoVerifier \notin Verifiers

VARIABLES registryOwner,  \* Ownable._owner
          teeArch,        \* _verifiers: verifier -> architecture, NoArch unless whitelisted
          agentKeys,      \* _agentKeys: agent -> its keys, in the order of the array
          keyVerifier     \* _keys[pubkey].verifier

registryVars == <<registryOwner, teeArch, agentKeys, keyVerifier>>
teeVars == <<ownershipVars, registryVars>>

TEETypeOK ==
    /\ OwnershipTypeOK
    /\ registryOwner \in OptionalAccount
    /\ teeArch \in [Verifiers -> Architectures]
    /\ agentKeys \in [AgentIds -> Seq(Pubkeys)]
    /\ keyVerifier \in [Pubkeys -> Verifiers \cup {NoVerifier}]

TEEInit ==
    /\ OwnershipInit
    /\ registryOwner = RegistryDeployer
    /\ teeArch = [v \in Verifiers |-> NoArch]
    /\ agentKeys = [a \in AgentIds |-> <<>>]
    /\ keyVerifier = [k \in Pubkeys |-> NoVerifier]

-----------------------------------------------------------------------------

(* A verifier added with architecture 0 is not whitelisted.                *)
AddVerifier(sender, v, arch) ==
    /\ sender = registryOwner
    /\ teeArch' = [teeArch EXCEPT ![v] = arch]
    /\ UNCHANGED <<ownershipVars, registryOwner, agentKeys, keyVerifier>>

(* The keys it has vouched for stay.                                       *)
RemoveVerifier(sender, v) ==
    /\ sender = registryOwner
    /\ teeArch' = [teeArch EXCEPT ![v] = NoArch]
    /\ UNCHANGED <<ownershipVars, registryOwner, agentKeys, keyVerifier>>

ChangeRegistryOwner(sender, newOwner) ==
    /\ sender = registryOwner
    /\ registryOwner' = newOwner
    /\ UNCHANGED <<ownershipVars, teeArch, agentKeys, keyVerifier>>

HasKey(a, k) == \E i \in DOMAIN agentKeys[a] : agentKeys[a][i] = k

(* Mutant: without KeyAlreadyExists.                                       *)
AddKeyAgain(sender, a, k, v) ==
    /\ IsAuthorized(sender, a)
    /\ teeArch[v] # NoArch
    /\ keyVerifier' = [keyVerifier EXCEPT ![k] = v]
    /\ agentKeys' = [agentKeys EXCEPT ![a] = IF HasKey(a, k) THEN @ ELSE Append(@, k)]
    /\ UNCHANGED <<ownershipVars, registryOwner, teeArch>>

AddKey(sender, a, k, v) ==
    /\ IsAuthorized(sender, a)
    /\ teeArch[v] # NoArch
    /\ keyVerifier[k] = NoVerifier
    /\ keyVerifier' = [keyVerifier EXCEPT ![k] = v]
    /\ agentKeys' = [agentKeys EXCEPT ![a] = IF HasKey(a, k) THEN @ ELSE Append(@, k)]
    /\ UNCHANGED <<ownershipVars, registryOwner, teeArch>>

(* EnumerableSet.remove: the last element takes the place of k.            *)
SwapAndPop(s, k) ==
    [i \in 1 .. (Len(s) - 1) |-> IF s[i] = k THEN s[Len(s)] ELSE s[i]]

RemoveKey(sender, a, k) ==
    /\ IsAuthorized(sender, a)
    /\ HasKey(a, k)
    /\ agentKeys' = [agentKeys EXCEPT ![a] = SwapAndPop(@, k)]
    /\ keyVerifier' = [keyVerifier EXCEPT ![k] = NoVerifier]
    /\ UNCHANGED <<ownershipVars, registryOwner, teeArch>>

(* getAgentKeys(agentId, start, limit): a page and the next offset.        *)
PageEnd(a, start, limit) ==
    IF start + limit > Len(agentKeys[a]) THEN Len(agentKeys[a]) ELSE start + limit

Page(a, start, limit) ==
    IF start >= Len(agentKeys[a]) THEN <<>>
    ELSE SubSeq(agentKeys[a], start + 1, PageEnd(a, start, limit))

(* Mutant: the next page starts one key late.                              *)
NextOffsetLate(a, start, limit) ==
    IF start < Len(agentKeys[a]) /\ PageEnd(a, start, limit) < Len(agentKeys[a])
    THEN PageEnd(a, start, limit) + 1
    ELSE 0

NextOffset(a, start, limit) ==
    IF start < Len(agentKeys[a]) /\ PageEnd(a, start, limit) < Len(agentKeys[a])
    THEN PageEnd(a, start, limit)
    ELSE 0

VerifiersNext(sender) ==
    \/ \E v \in Verifiers, arch \in Architectures : AddVerifier(sender, v, arch)
    \/ \E v \in Verifiers : RemoveVerifier(sender, v)
    \/ \E newOwner \in OptionalAccount : ChangeRegistryOwner(sender, newOwner)

KeysNext(sender) ==
    \E a \in AgentIds, k \in Pubkeys :
        RemoveKey(sender, a, k) \/ \E v \in Verifiers : AddKey(sender, a, k, v)

TEENext ==
    \/ \E sender \in Accounts : VerifiersNext(sender) \/ KeysNext(sender)
    \/ OwnershipNext /\ UNCHANGED registryVars

TEESpec == TEEInit /\ [][TEENext]_teeVars

-----------------------------------------------------------------------------

(* The two indexes agree, through transfers of agents, removals in any     *)
(* order and re-registrations: a key that has a record is in the list of   *)
(* exactly one agent, once, and that agent exists, so somebody can remove  *)
(* the key; a key without a record is in no list.                          *)
ListedKeysRecorded ==
    \A a \in AgentIds, k \in Pubkeys :
        HasKey(a, k) => Exists(a) /\ keyVerifier[k] # NoVerifier

RecordedKeysListed ==
    \A k \in Pubkeys : keyVerifier[k] # NoVerifier => \E a \in AgentIds : HasKey(a, k)

ListedOnce ==
    \A a, b \in AgentIds :
        \A i \in DOMAIN agentKeys[a], j \in DOMAIN agentKeys[b] :
            agentKeys[a][i] = agentKeys[b][j] => a = b /\ i = j

KeysAgree == ListedKeysRecorded /\ RecordedKeysListed /\ ListedOnce

=============================================================================
