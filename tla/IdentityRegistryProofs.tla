----------------------- MODULE IdentityRegistryProofs -----------------------
(* Proofs about IdentityRegistry, for every set of accounts, contracts and *)
(* metadata and every bound on the agents.                                 *)
EXTENDS MCIdentityRegistry, FiniteSetTheorems, TLAPS

-----------------------------------------------------------------------------
(* Types.                                                                  *)

LEMMA InitTypes == Init => TypeOK
BY IdentityAssumption DEF Init, TypeOK, AgentIds, OptionalAccount

(* _update keeps the types, a transfer to oneself included.                *)
LEMMA UpdateTypes ==
    ASSUME TypeOK, NEW to \in Accounts, NEW id \in AgentIds, Update(to, id),
           balances' \in [Accounts -> Nat]
    PROVE  /\ owners' \in [AgentIds -> OptionalAccount]
           /\ tokenApprovals' \in [AgentIds -> OptionalAccount]
           /\ agentWallets' \in [AgentIds -> OptionalAccount]
<1>1. CASE Exists(id)
  BY <1>1 DEF TypeOK, Update, Counted, Forgets, OptionalAccount
<1>2. CASE ~Exists(id)
  BY <1>2 DEF TypeOK, Update, Counted, Forgets, OptionalAccount
<1> QED BY <1>1, <1>2

-----------------------------------------------------------------------------
(* balanceOf.  The decrement of _update is unchecked, so that a balance is *)
(* a natural number rests on its counting the agents held: the two are one *)
(* invariant.                                                              *)

Held(a, own) == {id \in AgentIds : own[id] = a}

LEMMA HeldFinite == \A a, own : IsFiniteSet(Held(a, own)) /\ Cardinality(Held(a, own)) \in Nat
<1>1. IsFiniteSet(AgentIds)
  BY IdentityAssumption, FS_Interval DEF AgentIds
<1> QED BY <1>1, FS_Subset, FS_CardinalityType DEF Held

(* What one _update does to the counts.                                    *)
LEMMA UpdateKeepsBalances ==
    ASSUME TypeOK, BalancesCountAgents,
           NEW to \in Accounts, NEW id \in AgentIds, Update(to, id)
    PROVE  BalancesCountAgents' /\ balances' \in [Accounts -> Nat]
<1> DEFINE from == owners[id]
           left == IF Exists(id) THEN [balances EXCEPT ![from] = @ - 1] ELSE balances
           rest(a) == Held(a, owners) \ {id}
<1>1. balances' = [left EXCEPT ![to] = @ + 1] /\ owners' = [owners EXCEPT ![id] = to]
  BY DEF Update, Counted, Forgets
<1>2. \A a \in Accounts : balances[a] = Cardinality(Held(a, owners))
  BY DEF BalancesCountAgents, Held
<1>3. \A a \in Accounts : left[a] = Cardinality(rest(a)) /\ left \in [Accounts -> Int]
  <2> TAKE a \in Accounts
  <2>1. left \in [Accounts -> Int]
    <3>1. balances \in [Accounts -> Int]
      BY DEF TypeOK
    <3>2. CASE Exists(id)
      <4>1. from \in Accounts
        BY <3>2 DEF TypeOK, OptionalAccount, Exists
      <4>2. [balances EXCEPT ![from] = balances[from] - 1] \in [Accounts -> Int]
        BY <3>1, <4>1
      <4> QED BY <3>2, <4>2
    <3>3. CASE ~Exists(id)
      BY <3>1, <3>3
    <3> QED BY <3>2, <3>3
  <2>2. CASE Exists(id) /\ a = from
    <3>1. id \in Held(a, owners)
      BY <2>2 DEF Held
    <3>2. Cardinality(rest(a)) = Cardinality(Held(a, owners)) - 1
      BY <3>1, HeldFinite, FS_RemoveElement
    <3> QED BY <2>1, <2>2, <3>2, <1>2 DEF TypeOK
  <2>3. CASE ~(Exists(id) /\ a = from)
    <3>1. id \notin Held(a, owners)
      BY <2>3, IdentityAssumption DEF Held, Exists
    <3>2. rest(a) = Held(a, owners)
      BY <3>1
    <3>3. left[a] = balances[a]
      BY <2>3 DEF TypeOK
    <3> QED BY <2>1, <3>2, <3>3, <1>2
  <2> QED BY <2>2, <2>3
<1>4. \A a \in Accounts : balances'[a] = Cardinality(Held(a, owners'))
  <2> TAKE a \in Accounts
  <2>1. CASE a = to
    <3>1. Held(a, owners') = rest(a) \cup {id}
      BY <1>1, <2>1 DEF Held, TypeOK
    <3>2. Cardinality(Held(a, owners')) = Cardinality(rest(a)) + 1
      <4>1. IsFiniteSet(rest(a)) /\ id \notin rest(a)
        BY HeldFinite, FS_Subset
      <4> QED BY <3>1, <4>1, FS_AddElement
    <3> QED BY <1>1, <1>3, <2>1, <3>2
  <2>2. CASE a # to
    <3>1. Held(a, owners') = rest(a)
      BY <1>1, <2>2 DEF Held, TypeOK
    <3> QED BY <1>1, <1>3, <2>2, <3>1
  <2> QED BY <2>1, <2>2
<1>5. balances' \in [Accounts -> Nat]
  <2>1. DOMAIN balances' = Accounts /\ balances' = [x \in Accounts |-> balances'[x]]
    BY <1>1 DEF TypeOK
  <2> QED BY <2>1, <1>4, HeldFinite
<1> QED BY <1>4, <1>5 DEF BalancesCountAgents, Held

-----------------------------------------------------------------------------
(* The inductive invariant: types and balances together, and the blank ids *)
(* that a mint relies on.                                                  *)

IInv == TypeOK /\ BalancesCountAgents /\ FreshIdsAreBlank

LEMMA InitInv == Init => IInv
<1> SUFFICES ASSUME Init PROVE IInv OBVIOUS
<1>1. TypeOK BY InitTypes
<1>2. BalancesCountAgents
  <2>1. \A a \in Accounts : Held(a, owners) = {}
    BY IdentityAssumption DEF Init, Held
  <2> QED BY <2>1, FS_EmptySet DEF Init, BalancesCountAgents, Held
<1>3. FreshIdsAreBlank
  BY IdentityAssumption DEF Init, FreshIdsAreBlank, AgentIds
<1> QED BY <1>1, <1>2, <1>3 DEF IInv

(* Every call of a sender that leaves owners alone keeps the balances.     *)
LEMMA SameOwnersSameBalances ==
    ASSUME BalancesCountAgents, UNCHANGED <<owners, balances>>
    PROVE  BalancesCountAgents'
BY DEF BalancesCountAgents

LEMMA TransferKeepsInv ==
    ASSUME IInv, NEW sender \in Accounts, NEW to \in Accounts, NEW id \in AgentIds,
           TransferFrom(sender, to, id)
    PROVE  IInv'
<1> USE DEF IInv
<1>1. Update(to, id) /\ Exists(id)
  BY DEF TransferFrom, IsAuthorized
<1>2. BalancesCountAgents' /\ balances' \in [Accounts -> Nat]
  BY <1>1, UpdateKeepsBalances
<1>3. TypeOK'
  BY <1>1, <1>2, UpdateTypes DEF TypeOK, TransferFrom
<1>4. FreshIdsAreBlank'
  <2>1. id < lastId
    BY <1>1 DEF FreshIdsAreBlank, Exists, TypeOK, AgentIds
  <2>2. ASSUME NEW other \in lastId .. (MaxAgents - 1)
        PROVE  /\ owners'[other] = owners[other]
               /\ tokenApprovals'[other] = tokenApprovals[other]
               /\ agentWallets'[other] = agentWallets[other]
    <3>1. other # id /\ other \in AgentIds
      BY <2>1, IdentityAssumption DEF AgentIds, TypeOK
    <3> QED BY <1>1, <3>1 DEF Update, Counted, Forgets, TypeOK
  <2> QED BY <2>2 DEF FreshIdsAreBlank, TransferFrom
<1> QED BY <1>2, <1>3, <1>4

(* A mint: the id it takes was blank, the ones above it stay so.           *)
LEMMA MintKeepsInv ==
    ASSUME IInv, NEW sender \in Accounts, Minted(sender)
    PROVE  /\ BalancesCountAgents'
           /\ owners' \in [AgentIds -> OptionalAccount]
           /\ balances' \in [Accounts -> Nat]
           /\ tokenApprovals' \in [AgentIds -> OptionalAccount]
           /\ operatorApprovals' \in [Accounts -> SUBSET Accounts]
           /\ agentWallets' \in [AgentIds -> OptionalAccount]
           /\ lastId \in AgentIds /\ lastId' = lastId + 1 /\ lastId' \in 0 .. MaxAgents
           /\ \A id \in lastId' .. (MaxAgents - 1) :
                 /\ owners'[id] = NoAddress /\ tokenApprovals'[id] = NoAddress
                 /\ agentWallets'[id] = NoAddress
<1> USE DEF IInv
<1>1. lastId \in AgentIds /\ lastId' = lastId + 1 /\ lastId' \in 0 .. MaxAgents
  BY IdentityAssumption DEF Minted, TypeOK, AgentIds
<1>2. Update(sender, lastId) /\ operatorApprovals' = operatorApprovals
  BY DEF Minted
<1>3. BalancesCountAgents' /\ balances' \in [Accounts -> Nat]
  BY <1>1, <1>2, UpdateKeepsBalances
<1>4. /\ owners' \in [AgentIds -> OptionalAccount]
      /\ tokenApprovals' \in [AgentIds -> OptionalAccount]
      /\ agentWallets' \in [AgentIds -> OptionalAccount]
  BY <1>1, <1>2, <1>3, UpdateTypes
<1>5. ASSUME NEW id \in lastId' .. (MaxAgents - 1)
      PROVE  /\ owners'[id] = NoAddress /\ tokenApprovals'[id] = NoAddress
             /\ agentWallets'[id] = NoAddress
  <2>1. id \in lastId .. (MaxAgents - 1) /\ id # lastId /\ id \in AgentIds
    BY <1>1, IdentityAssumption DEF AgentIds
  <2>2. /\ owners[id] = NoAddress /\ tokenApprovals[id] = NoAddress
        /\ agentWallets[id] = NoAddress
    BY <2>1 DEF FreshIdsAreBlank
  <2> QED BY <1>1, <1>2, <2>1, <2>2 DEF Update, Counted, Forgets, TypeOK
<1>6. operatorApprovals' \in [Accounts -> SUBSET Accounts]
  BY <1>2 DEF TypeOK
<1> QED BY <1>1, <1>3, <1>4, <1>5, <1>6

(* The two writes of register stay in their types and touch one id.        *)
LEMMA RegisterWrites ==
    ASSUME TypeOK, NEW id \in AgentIds, NEW uri \in Uris \cup {KeepUri},
           NEW entries \in InitialMetadata,
           WrittenUri(id, uri), WrittenMetadata(id, entries)
    PROVE  /\ tokenURIs' \in [AgentIds -> Uris]
           /\ metadata' \in [AgentIds -> [Keys -> Values]]
           /\ \A other \in AgentIds \ {id} :
                 tokenURIs'[other] = tokenURIs[other] /\ metadata'[other] = metadata[other]
<1>1. /\ tokenURIs' \in [AgentIds -> Uris]
      /\ \A other \in AgentIds \ {id} : tokenURIs'[other] = tokenURIs[other]
  <2>1. CASE uri = KeepUri
    BY <2>1 DEF WrittenUri, TypeOK
  <2>2. CASE uri # KeepUri
    BY <2>2 DEF WrittenUri, TypeOK
  <2> QED BY <2>1, <2>2
<1>2. PICK K \in SUBSET Keys : entries \in [K -> Values]
  BY IdentityAssumption
<1> DEFINE row == [k \in Keys |-> IF k \in DOMAIN entries THEN entries[k] ELSE metadata[id][k]]
<1>3. metadata[id] \in [Keys -> Values]
  BY DEF TypeOK
<1>4. row \in [Keys -> Values]
  BY <1>2, <1>3
<1>5. metadata' = [metadata EXCEPT ![id] = row]
  BY DEF WrittenMetadata, TypeOK
<1> HIDE DEF row
<1>6. /\ metadata' \in [AgentIds -> [Keys -> Values]]
      /\ \A other \in AgentIds \ {id} : metadata'[other] = metadata[other]
  BY <1>4, <1>5 DEF TypeOK
<1> QED BY <1>1, <1>6

LEMMA RegisterKeepsInv ==
    ASSUME IInv, NEW sender \in Accounts, NEW uri \in Uris \cup {KeepUri},
           NEW entries \in InitialMetadata, RegisterCall(sender, uri, entries)
    PROVE  IInv'
<1>1. /\ BalancesCountAgents'
      /\ owners' \in [AgentIds -> OptionalAccount]
      /\ balances' \in [Accounts -> Nat]
      /\ tokenApprovals' \in [AgentIds -> OptionalAccount]
      /\ operatorApprovals' \in [Accounts -> SUBSET Accounts]
      /\ agentWallets' \in [AgentIds -> OptionalAccount]
      /\ lastId \in AgentIds /\ lastId' = lastId + 1 /\ lastId' \in 0 .. MaxAgents
      /\ \A id \in lastId' .. (MaxAgents - 1) :
            /\ owners'[id] = NoAddress /\ tokenApprovals'[id] = NoAddress
            /\ agentWallets'[id] = NoAddress
  BY MintKeepsInv DEF RegisterCall, Register, RegisterStarts
<1>2. ASSUME NEW id \in lastId' .. (MaxAgents - 1)
      PROVE  /\ id \in AgentIds \ {lastId} /\ tokenURIs[id] = EmptyUri
             /\ \A k \in Keys : metadata[id][k] = NoValue
  <2>1. id \in lastId .. (MaxAgents - 1) /\ id \in AgentIds \ {lastId}
    BY <1>1, IdentityAssumption DEF AgentIds
  <2> QED BY <2>1 DEF IInv, FreshIdsAreBlank
<1>3. CASE Register(sender, uri, entries)
  <2>1. /\ tokenURIs' \in [AgentIds -> Uris]
        /\ metadata' \in [AgentIds -> [Keys -> Values]]
        /\ \A other \in AgentIds \ {lastId} :
              tokenURIs'[other] = tokenURIs[other] /\ metadata'[other] = metadata[other]
    BY <1>1, <1>3, RegisterWrites DEF IInv, Register
  <2>2. suspended = NoCall /\ suspended' = NoCall
    BY <1>3 DEF Register, Minted
  <2>3. TypeOK'
    BY <1>1, <2>1, <2>2 DEF TypeOK
  <2>4. FreshIdsAreBlank'
    BY <1>1, <1>2, <2>1, <2>2 DEF FreshIdsAreBlank
  <2> QED BY <1>1, <2>3, <2>4 DEF IInv
<1>4. CASE RegisterStarts(sender, uri, entries)
  <2>1. /\ suspended' = [sender |-> sender, id |-> lastId, uri |-> uri, entries |-> entries]
        /\ tokenURIs' = tokenURIs /\ metadata' = metadata
    BY <1>4 DEF RegisterStarts
  <2>2. suspended' \in Registration /\ suspended'.id = lastId
    BY <1>1, <2>1 DEF Registration
  <2>3. TypeOK'
    BY <1>1, <2>1, <2>2 DEF TypeOK, IInv
  <2>4. FreshIdsAreBlank'
    BY <1>1, <1>2, <2>1, <2>2, IdentityAssumption DEF FreshIdsAreBlank, AgentIds
  <2> QED BY <1>1, <2>3, <2>4 DEF IInv
<1> QED BY <1>3, <1>4 DEF RegisterCall

LEMMA RegisterEndsKeepsInv ==
    ASSUME IInv, RegisterEnds
    PROVE  IInv'
<1>1. suspended \in Registration /\ suspended.id = lastId - 1 /\ suspended' = NoCall
  BY DEF IInv, TypeOK, FreshIdsAreBlank, RegisterEnds
<1>2. /\ suspended.id \in AgentIds /\ suspended.uri \in Uris \cup {KeepUri}
      /\ suspended.entries \in InitialMetadata
  BY <1>1 DEF Registration
<1>3. /\ tokenURIs' \in [AgentIds -> Uris]
      /\ metadata' \in [AgentIds -> [Keys -> Values]]
      /\ \A other \in AgentIds \ {suspended.id} :
            tokenURIs'[other] = tokenURIs[other] /\ metadata'[other] = metadata[other]
  BY <1>2, RegisterWrites DEF IInv, RegisterEnds
<1>4. UNCHANGED <<erc721Vars, lastId, agentWallets>>
  BY DEF RegisterEnds
<1>5. TypeOK'
  BY <1>1, <1>3, <1>4 DEF TypeOK, IInv, erc721Vars
<1>6. FreshIdsAreBlank'
  <2>1. \A id \in lastId .. (MaxAgents - 1) : id \in AgentIds \ {suspended.id}
    BY <1>1, IdentityAssumption DEF AgentIds, IInv, TypeOK
  <2> QED BY <1>1, <1>3, <1>4, <2>1 DEF FreshIdsAreBlank, IInv, erc721Vars
<1> QED BY <1>4, <1>5, <1>6, SameOwnersSameBalances DEF IInv, erc721Vars

(* The calls that need the authority over a minted agent: they write to an *)
(* id below _lastId only.                                                  *)
LEMMA OnAgentKeepsInv ==
    ASSUME IInv, NEW sender \in Accounts, NEW id \in AgentIds, OnAgent(sender, id)
    PROVE  IInv'
<1>1. ASSUME Exists(id)
      PROVE  \A other \in lastId .. (MaxAgents - 1) : other # id /\ other \in AgentIds
  BY <1>1, IdentityAssumption DEF IInv, TypeOK, FreshIdsAreBlank, Exists, AgentIds
<1>2. ASSUME NEW to \in OptionalAccount, Approve(sender, to, id) PROVE IInv'
  <2>1. TypeOK'
    BY <1>2 DEF IInv, TypeOK, Approve, profileVars
  <2>2. FreshIdsAreBlank'
    BY <1>1, <1>2 DEF IInv, TypeOK, FreshIdsAreBlank, Approve, profileVars
  <2> QED BY <1>2, <2>1, <2>2, SameOwnersSameBalances DEF IInv, Approve
<1>3. ASSUME NEW to \in Accounts, TransferFrom(sender, to, id) PROVE IInv'
  BY <1>3, TransferKeepsInv
<1>4. ASSUME NEW key \in Keys, NEW value \in Values, SetMetadata(sender, id, key, value)
      PROVE  IInv'
  <2>1. TypeOK'
    BY <1>4 DEF IInv, TypeOK, SetMetadata, erc721Vars
  <2>2. \A other \in AgentIds \ {id} : metadata'[other] = metadata[other]
    BY <1>4 DEF IInv, TypeOK, SetMetadata
  <2>3. FreshIdsAreBlank'
    BY <1>1, <1>4, <2>2 DEF IInv, FreshIdsAreBlank, SetMetadata, IsAuthorized, erc721Vars
  <2> QED BY <1>4, <2>1, <2>3, SameOwnersSameBalances DEF IInv, SetMetadata, erc721Vars
<1>5. ASSUME NEW uri \in Uris, SetAgentUri(sender, id, uri) PROVE IInv'
  <2>1. TypeOK'
    BY <1>5 DEF IInv, TypeOK, SetAgentUri, erc721Vars
  <2>2. FreshIdsAreBlank'
    BY <1>1, <1>5 DEF IInv, TypeOK, FreshIdsAreBlank, SetAgentUri, IsAuthorized, erc721Vars
  <2> QED BY <1>5, <2>1, <2>2, SameOwnersSameBalances DEF IInv, SetAgentUri, erc721Vars
<1>6. ASSUME NEW wallet \in Accounts, SetAgentWallet(sender, id, wallet) PROVE IInv'
  <2>1. TypeOK'
    BY <1>6 DEF IInv, TypeOK, SetAgentWallet, erc721Vars, OptionalAccount
  <2>2. FreshIdsAreBlank'
    BY <1>1, <1>6 DEF IInv, TypeOK, FreshIdsAreBlank, SetAgentWallet, IsAuthorized, erc721Vars
  <2> QED BY <1>6, <2>1, <2>2, SameOwnersSameBalances DEF IInv, SetAgentWallet, erc721Vars
<1>7. ASSUME UnsetAgentWallet(sender, id) PROVE IInv'
  <2>1. TypeOK'
    BY <1>7 DEF IInv, TypeOK, UnsetAgentWallet, erc721Vars, OptionalAccount
  <2>2. FreshIdsAreBlank'
    BY <1>1, <1>7 DEF IInv, TypeOK, FreshIdsAreBlank, UnsetAgentWallet, IsAuthorized, erc721Vars
  <2> QED BY <1>7, <2>1, <2>2, SameOwnersSameBalances DEF IInv, UnsetAgentWallet, erc721Vars
<1> QED BY <1>2, <1>3, <1>4, <1>5, <1>6, <1>7 DEF OnAgent

LEMMA NextKeepsInv == IInv /\ [Next]_vars => IInv'
<1> SUFFICES ASSUME IInv, [Next]_vars PROVE IInv' OBVIOUS
<1>1. CASE RegisterEnds
  BY <1>1, RegisterEndsKeepsInv
<1>2. ASSUME NEW sender \in Accounts, NEW id \in AgentIds, OnAgent(sender, id) PROVE IInv'
  BY <1>2, OnAgentKeepsInv
<1>3. ASSUME NEW sender \in Accounts, NEW operator \in Accounts, NEW allowed \in BOOLEAN,
             SetApprovalForAll(sender, operator, allowed)
      PROVE  IInv'
  <2>1. operatorApprovals' \in [Accounts -> SUBSET Accounts]
    BY <1>3 DEF IInv, TypeOK, SetApprovalForAll
  <2>2. TypeOK' /\ FreshIdsAreBlank'
    BY <1>3, <2>1 DEF IInv, TypeOK, FreshIdsAreBlank, SetApprovalForAll, profileVars
  <2> QED BY <1>3, <2>2, SameOwnersSameBalances DEF IInv, SetApprovalForAll
<1>4. ASSUME NEW sender \in Accounts, NEW uri \in Uris \cup {KeepUri},
             NEW entries \in InitialMetadata, RegisterCall(sender, uri, entries)
      PROVE  IInv'
  BY <1>4, RegisterKeepsInv
<1>5. CASE UNCHANGED vars
  BY <1>5 DEF IInv, TypeOK, BalancesCountAgents, FreshIdsAreBlank, vars, erc721Vars, profileVars
<1> QED BY <1>1, <1>2, <1>3, <1>4, <1>5 DEF Next, SentBy

(* Every reachable state has the declared types and counts its agents.     *)
THEOREM InvCorrect == Spec => []IInv
BY InitInv, NextKeepsInv, PTL DEF Spec

(* balanceOf agrees with ownerOf, for every history of mints, transfers to *)
(* oneself or others, and callbacks: the unchecked decrement of _update    *)
(* never wraps.                                                            *)
THEOREM BalancesCorrect == Spec => []BalancesCountAgents
<1>1. IInv => BalancesCountAgents BY DEF IInv
<1> QED BY <1>1, InvCorrect, PTL

(* What a mint hands out carries nothing of an earlier life.               *)
THEOREM BlankCorrect == Spec => []FreshIdsAreBlank
<1>1. IInv => FreshIdsAreBlank BY DEF IInv
<1> QED BY <1>1, InvCorrect, PTL

-----------------------------------------------------------------------------
(* The registry implements AgentOwnership.                                 *)

(* operators, as the refinement mapping reads it.                          *)
OperatorPairs == {p \in Accounts \X Accounts : p[2] \in operatorApprovals[p[1]]}

LEMMA PairsAreApprovals ==
    \A holder \in Accounts, sender \in Accounts :
        <<holder, sender>> \in OperatorPairs <=> IsApprovedForAll(holder, sender)
BY DEF OperatorPairs, IsApprovedForAll

(* The two modules agree on who is authorized.                             *)
LEMMA SameAuthority ==
    ASSUME TypeOK, NEW sender \in Accounts, NEW id \in AgentIds, Exists(id)
    PROVE  /\ owners[id] \in Accounts
           /\ Ownership!Exists(id)
           /\ Ownership!IsOperator(owners[id], sender) <=> IsApprovedForAll(owners[id], sender)
           /\ IsAuthorized(sender, id) <=> Ownership!IsAuthorized(sender, id)
<1>1. owners[id] \in Accounts
  BY DEF TypeOK, Exists, OptionalAccount
<1>2. <<owners[id], sender>> \in OperatorPairs <=> IsApprovedForAll(owners[id], sender)
  BY <1>1, PairsAreApprovals
<1> QED
  BY <1>1, <1>2 DEF Exists, IsAuthorized, OperatorPairs, Ownership!Exists,
       Ownership!IsOperator, Ownership!IsAuthorized

LEMMA InitImplements == Init => Ownership!OwnershipInit
<1> SUFFICES ASSUME Init PROVE Ownership!OwnershipInit OBVIOUS
<1>1. OperatorPairs = {}
  BY DEF Init, OperatorPairs
<1> QED BY <1>1 DEF Init, OperatorPairs, Ownership!OwnershipInit, AgentIds, Ownership!AgentIds

LEMMA SetApprovalImplements ==
    ASSUME TypeOK, NEW sender \in Accounts, NEW operator \in Accounts,
           NEW allowed \in BOOLEAN, SetApprovalForAll(sender, operator, allowed)
    PROVE  Ownership!SetApprovalForAll(sender, operator, allowed)
<1> DEFINE given == IF allowed THEN operatorApprovals[sender] \cup {operator}
                    ELSE operatorApprovals[sender] \ {operator}
<1>1. operatorApprovals' = [operatorApprovals EXCEPT ![sender] = given]
  BY DEF SetApprovalForAll
<1>2. \A holder \in Accounts : operatorApprovals'[holder] =
          IF holder = sender THEN given ELSE operatorApprovals[holder]
  BY <1>1 DEF TypeOK
<1>3. CASE allowed
  <2>1. OperatorPairs' = OperatorPairs \cup {<<sender, operator>>}
    BY <1>2, <1>3 DEF OperatorPairs
  <2> QED BY <1>3, <2>1 DEF SetApprovalForAll, OperatorPairs, Ownership!SetApprovalForAll
<1>4. CASE ~allowed
  <2>1. OperatorPairs' = OperatorPairs \ {<<sender, operator>>}
    BY <1>2, <1>4 DEF OperatorPairs
  <2> QED BY <1>4, <2>1 DEF SetApprovalForAll, OperatorPairs, Ownership!SetApprovalForAll
<1> QED BY <1>3, <1>4

(* A mint of the detailed registry is the abstract one: the id minted is   *)
(* blank, so _update has no approval to clear.                             *)
LEMMA MintImplements ==
    ASSUME IInv, NEW sender \in Accounts, Minted(sender)
    PROVE  Ownership!Mint(sender)
<1>1. lastId \in AgentIds /\ owners[lastId] = NoAddress
  <2>1. lastId \in 0 .. MaxAgents /\ lastId < MaxAgents
    BY DEF IInv, TypeOK, Minted
  <2>2. lastId \in AgentIds /\ lastId \in lastId .. (MaxAgents - 1)
    BY <2>1, IdentityAssumption DEF AgentIds
  <2> QED BY <2>2 DEF IInv, FreshIdsAreBlank
<1>2. tokenApprovals' = tokenApprovals
  BY <1>1 DEF Minted, Update, Counted, Forgets, Exists
<1> QED BY <1>1, <1>2 DEF Minted, Update, Counted, Forgets, Ownership!Mint

LEMMA StepImplements ==
    IInv /\ [Next]_vars => [Ownership!OwnershipNext]_(Ownership!ownershipVars)
<1> SUFFICES ASSUME IInv, [Next]_vars
             PROVE  Ownership!OwnershipNext \/ UNCHANGED Ownership!ownershipVars
  OBVIOUS
<1>0. TypeOK /\ AgentIds = Ownership!AgentIds /\ OptionalAccount = Ownership!OptionalAccount
  BY DEF IInv, AgentIds, Ownership!AgentIds, OptionalAccount, Ownership!OptionalAccount
<1>1. ASSUME UNCHANGED <<erc721Vars, lastId>> PROVE UNCHANGED Ownership!ownershipVars
  BY <1>1 DEF erc721Vars, Ownership!ownershipVars
<1>2. CASE RegisterEnds
  BY <1>1, <1>2 DEF RegisterEnds
<1>3. ASSUME NEW sender \in Accounts, NEW id \in AgentIds, OnAgent(sender, id)
      PROVE  Ownership!OwnershipNext \/ UNCHANGED Ownership!ownershipVars
  <2>1. ASSUME NEW to \in OptionalAccount, Approve(sender, to, id)
        PROVE  Ownership!OwnershipNext
    <3>1. Ownership!Approve(sender, to, id)
      BY <1>0, <2>1, SameAuthority DEF Approve, Ownership!Approve
    <3> QED BY <1>0, <3>1 DEF Ownership!OwnershipNext
  <2>2. ASSUME NEW to \in Accounts, TransferFrom(sender, to, id)
        PROVE  Ownership!OwnershipNext
    <3>1. Exists(id)
      BY <2>2 DEF TransferFrom, IsAuthorized
    <3>2. Ownership!TransferAgent(sender, to, id)
      BY <1>0, <2>2, <3>1, SameAuthority
           DEF TransferFrom, Update, Counted, Forgets, Ownership!TransferAgent
    <3> QED BY <1>0, <3>2 DEF Ownership!OwnershipNext
  <2>3. ASSUME \/ \E key \in Keys, value \in Values : SetMetadata(sender, id, key, value)
               \/ \E uri \in Uris : SetAgentUri(sender, id, uri)
               \/ \E wallet \in Accounts : SetAgentWallet(sender, id, wallet)
               \/ UnsetAgentWallet(sender, id)
        PROVE  UNCHANGED Ownership!ownershipVars
    BY <1>1, <2>3 DEF SetMetadata, SetAgentUri, SetAgentWallet, UnsetAgentWallet
  <2> QED BY <1>3, <2>1, <2>2, <2>3 DEF OnAgent
<1>4. ASSUME NEW sender \in Accounts, NEW operator \in Accounts, NEW allowed \in BOOLEAN,
             SetApprovalForAll(sender, operator, allowed)
      PROVE  Ownership!OwnershipNext
  BY <1>0, <1>4, SetApprovalImplements DEF Ownership!OwnershipNext
<1>5. ASSUME NEW sender \in Accounts, NEW uri \in Uris \cup {KeepUri},
             NEW entries \in InitialMetadata, RegisterCall(sender, uri, entries)
      PROVE  Ownership!OwnershipNext
  BY <1>5, MintImplements
     DEF RegisterCall, Register, RegisterStarts, Ownership!OwnershipNext
<1>6. CASE UNCHANGED vars
  BY <1>1, <1>6 DEF vars
<1> QED BY <1>2, <1>3, <1>4, <1>5, <1>6 DEF Next, SentBy

(* The identity registry implements the ownership its users are composed   *)
(* with: every step, also one inside a callback, is a step of              *)
(* AgentOwnership or leaves what it promises alone.                        *)
THEOREM OwnershipImplemented == Spec => ImplementsOwnership
<1>1. IInv /\ [Next]_vars => [Ownership!OwnershipNext]_(Ownership!ownershipVars)
  BY StepImplements
<1> QED
  BY <1>1, InitImplements, InvCorrect, PTL
       DEF Spec, ImplementsOwnership, Ownership!OwnershipSpec

-----------------------------------------------------------------------------
(* Agent wallets and profiles.                                             *)

LEMMA MCStepIsStep == [MCNext]_mcVars => [Next]_vars
BY DEF MCNext, mcVars, Next

LEMMA MCInvCorrect == MCSpec => []IInv
<1>1. MCInit => IInv
  BY InitInv DEF MCInit
<1>2. IInv /\ [MCNext]_mcVars => IInv'
  BY NextKeepsInv, MCStepIsStep
<1> QED BY <1>1, <1>2, PTL DEF MCSpec

LEMMA NewestIsBlank ==
    ASSUME IInv, NEW sender \in Accounts, Minted(sender)
    PROVE  lastId \in AgentIds /\ ~Exists(lastId) /\ agentWallets[lastId] = NoAddress
<1>1. lastId \in AgentIds /\ lastId \in lastId .. (MaxAgents - 1)
  BY IdentityAssumption DEF IInv, TypeOK, Minted, AgentIds
<1> QED BY <1>1 DEF IInv, FreshIdsAreBlank, Exists

(* A mint or a transfer, which change the owner, leave no wallet.          *)
LEMMA NewOwnerNoWallet ==
    ASSUME IInv, [Next]_vars, NEW id \in AgentIds
    PROVE  agentWallets'[id] = NoAddress \/ owners'[id] = owners[id]
<1>1. ASSUME NEW to \in Accounts, NEW i \in AgentIds, Update(to, i),
             Exists(i) \/ agentWallets[i] = NoAddress
      PROVE  agentWallets'[id] = NoAddress \/ owners'[id] = owners[id]
  <2>1. CASE id = i
    <3>1. CASE Exists(i)
      BY <1>1, <2>1, <3>1 DEF Update, Forgets, IInv, TypeOK
    <3>2. CASE ~Exists(i)
      BY <1>1, <2>1, <3>2 DEF Update, Forgets
    <3> QED BY <3>1, <3>2
  <2>2. CASE id # i
    BY <1>1, <2>2 DEF Update, IInv, TypeOK
  <2> QED BY <2>1, <2>2
<1>2. ASSUME NEW sender \in Accounts, Minted(sender)
      PROVE  agentWallets'[id] = NoAddress \/ owners'[id] = owners[id]
  <2>1. lastId \in AgentIds /\ agentWallets[lastId] = NoAddress /\ Update(sender, lastId)
    BY <1>2, NewestIsBlank DEF Minted
  <2> QED BY <1>1, <2>1
<1>3. ASSUME NEW sender \in Accounts, NEW i \in AgentIds, OnAgent(sender, i)
      PROVE  agentWallets'[id] = NoAddress \/ owners'[id] = owners[id]
  <2>1. ASSUME NEW to \in Accounts, TransferFrom(sender, to, i)
        PROVE  agentWallets'[id] = NoAddress \/ owners'[id] = owners[id]
    BY <1>1, <2>1 DEF TransferFrom, IsAuthorized
  <2> QED BY <1>3, <2>1 DEF OnAgent, Approve, SetMetadata, SetAgentUri, SetAgentWallet,
                            UnsetAgentWallet, erc721Vars
<1>4. RegisterEnds \/ UNCHANGED vars => owners' = owners
  BY DEF RegisterEnds, vars, erc721Vars
<1>5. ASSUME NEW sender \in Accounts, NEW operator \in Accounts, NEW allowed \in BOOLEAN,
             SetApprovalForAll(sender, operator, allowed)
      PROVE  owners' = owners
  BY <1>5 DEF SetApprovalForAll
<1> QED BY <1>2, <1>3, <1>4, <1>5 DEF Next, SentBy, RegisterCall, Register, RegisterStarts

(* The wallet of an agent was set under its present holder, through every  *)
(* transfer, mint and callback.                                            *)
THEOREM WalletCorrect == MCSpec => []WalletSetUnderHolder
<1>1. MCInit => WalletSetUnderHolder
  BY DEF MCInit, Init, WalletSetUnderHolder
<1>2. IInv /\ WalletSetUnderHolder /\ [MCNext]_mcVars => WalletSetUnderHolder'
  <2> SUFFICES ASSUME IInv, WalletSetUnderHolder, [MCNext]_mcVars,
                      NEW id \in AgentIds, agentWallets'[id] # NoAddress
               PROVE  walletHolder'[id] = owners'[id]
    BY DEF WalletSetUnderHolder
  <2>1. owners'[id] = owners[id]
    BY NewOwnerNoWallet, MCStepIsStep
  <2>2. CASE UNCHANGED mcVars
    BY <2>2 DEF mcVars, vars, profileVars, erc721Vars, WalletSetUnderHolder
  <2>3. CASE MCNext
    BY <2>1, <2>3 DEF MCNext, WalletSetUnderHolder
  <2> QED BY <2>2, <2>3
<1> QED BY <1>1, <1>2, MCInvCorrect, PTL DEF MCSpec

(* A call on an agent changes the profile of no other agent, and of this   *)
(* one only for who is authorized.                                         *)
LEMMA OnAgentIsAuthorized ==
    ASSUME TypeOK, NEW sender \in Accounts, NEW i \in AgentIds, OnAgent(sender, i),
           NEW id \in AgentIds, Profile(id)' # Profile(id)
    PROVE  id = i /\ IsAuthorized(sender, id)
<1>1. ASSUME NEW to \in OptionalAccount, Approve(sender, to, i) PROVE FALSE
  BY <1>1 DEF Approve, Profile, profileVars
<1>2. ASSUME NEW to \in Accounts, TransferFrom(sender, to, i)
      PROVE  id = i /\ IsAuthorized(sender, id)
  BY <1>2 DEF TransferFrom, Update, Forgets, Profile, TypeOK
<1>3. ASSUME NEW key \in Keys, NEW value \in Values, SetMetadata(sender, i, key, value)
      PROVE  id = i /\ IsAuthorized(sender, id)
  BY <1>3 DEF SetMetadata, Profile, TypeOK
<1>4. ASSUME NEW uri \in Uris, SetAgentUri(sender, i, uri)
      PROVE  id = i /\ IsAuthorized(sender, id)
  BY <1>4 DEF SetAgentUri, Profile, TypeOK
<1>5. ASSUME NEW wallet \in Accounts, SetAgentWallet(sender, i, wallet)
      PROVE  id = i /\ IsAuthorized(sender, id)
  BY <1>5 DEF SetAgentWallet, Profile, TypeOK
<1>6. ASSUME UnsetAgentWallet(sender, i) PROVE id = i /\ IsAuthorized(sender, id)
  BY <1>6 DEF UnsetAgentWallet, Profile, TypeOK
<1> QED BY <1>1, <1>2, <1>3, <1>4, <1>5, <1>6 DEF OnAgent

(* A mint writes to an id that does not exist yet.                         *)
LEMMA RegisterChangesNoProfile ==
    ASSUME IInv, NEW sender \in Accounts, NEW uri \in Uris \cup {KeepUri},
           NEW entries \in InitialMetadata, RegisterCall(sender, uri, entries),
           NEW id \in AgentIds, Exists(id)
    PROVE  Profile(id)' = Profile(id)
<1>1. Minted(sender) /\ lastId \in AgentIds /\ id # lastId /\ ~Exists(lastId)
  BY NewestIsBlank DEF RegisterCall, Register, RegisterStarts
<1>2. agentWallets'[id] = agentWallets[id]
  BY <1>1 DEF Minted, Update, Forgets
<1>3. tokenURIs'[id] = tokenURIs[id] /\ metadata'[id] = metadata[id]
  <2>1. CASE Register(sender, uri, entries)
    BY <1>1, <2>1, RegisterWrites DEF Register, IInv
  <2>2. CASE RegisterStarts(sender, uri, entries)
    BY <2>2 DEF RegisterStarts
  <2> QED BY <2>1, <2>2 DEF RegisterCall
<1> QED BY <1>2, <1>3 DEF Profile

LEMMA RegisterEndsWritesItsOwn ==
    ASSUME IInv, RegisterEnds, NEW id \in AgentIds, Profile(id)' # Profile(id)
    PROVE  suspended.id = id
<1>1. suspended \in Registration
  BY DEF IInv, TypeOK, RegisterEnds
<1>2. /\ suspended.id \in AgentIds /\ suspended.uri \in Uris \cup {KeepUri}
      /\ suspended.entries \in InitialMetadata
  BY <1>1 DEF Registration
<1>3. \A other \in AgentIds \ {suspended.id} :
          tokenURIs'[other] = tokenURIs[other] /\ metadata'[other] = metadata[other]
  BY <1>2, RegisterWrites DEF IInv, RegisterEnds
<1> QED BY <1>3 DEF RegisterEnds, Profile

(* The profile of an agent is changed by who is authorized for it, or by   *)
(* the register call that minted it, when its callback returns.            *)
THEOREM ProfilesCorrect == MCSpec => ProfileChangesAreAuthorized
<1> DEFINE Change(id) ==
        Exists(id) /\ <<tokenURIs, metadata, agentWallets>>' # <<tokenURIs, metadata, agentWallets>>
                   /\ Profile(id)' # Profile(id)
           Authorized(id) ==
        \/ IsAuthorized(actor', id)
        \/ suspended # NoCall /\ suspended' = NoCall
              /\ suspended.id = id /\ actor' = suspended.sender
<1>1. IInv /\ [MCNext]_mcVars => [\A id \in AgentIds : Change(id) => Authorized(id)]_mcVars
  <2> SUFFICES ASSUME IInv, MCNext, NEW id \in AgentIds, Change(id) PROVE Authorized(id)
    OBVIOUS
  <2>1. CASE RegisterEnds /\ actor' = suspended.sender
    BY <2>1, RegisterEndsWritesItsOwn DEF RegisterEnds
  <2>2. ASSUME NEW sender \in Accounts, SentBy(sender), actor' = sender PROVE Authorized(id)
    <3>1. ASSUME NEW i \in AgentIds, OnAgent(sender, i) PROVE IsAuthorized(sender, id)
      BY <3>1, OnAgentIsAuthorized DEF IInv
    <3>2. ASSUME NEW operator \in Accounts, NEW allowed \in BOOLEAN,
                 SetApprovalForAll(sender, operator, allowed)
          PROVE  FALSE
      BY <3>2 DEF SetApprovalForAll, profileVars
    <3>3. ASSUME NEW uri \in Uris \cup {KeepUri}, NEW entries \in InitialMetadata,
                 RegisterCall(sender, uri, entries)
          PROVE  FALSE
      BY <3>3, RegisterChangesNoProfile
    <3> QED BY <2>2, <3>1, <3>2, <3>3 DEF SentBy
  <2> QED BY <2>1, <2>2 DEF MCNext
<1> QED BY <1>1, MCInvCorrect, PTL DEF MCSpec, ProfileChangesAreAuthorized

=============================================================================
