--------------------------- MODULE ContractProofs ---------------------------
(***************************************************************************)
(* Theorems of AgentOwnership and of the contracts composed with it,       *)
(* AgentPaymentPool, TEERegistry and ReputationRegistry, for every set of  *)
(* accounts, keys and verifiers, every number of agents, every rate, cap   *)
(* and multiplier table, and whatever feedback is given.  The history of   *)
(* MCAgentPaymentPool tells what was paid by when, the reader of           *)
(* MCRegistries pages through keys and counts that change meanwhile, and   *)
(* the loops of a summary are unrolled one turn at a time.                 *)
(***************************************************************************)
EXTENDS MCAgentPaymentPool, MCRegistries, FiniteSetTheorems, WellFoundedInduction, TLAPS

USE AccountsAssumption, MaxAgentsAssumption

-----------------------------------------------------------------------------
(* Agents and their owners.  The two step lemmas are stated without        *)
(* OwnershipSpec, so that the contracts can cite them for their own        *)
(* next-state relations.                                                   *)

LEMMA OwnershipInitTypes == OwnershipInit => OwnershipTypeOK
BY DEF OwnershipInit, OwnershipTypeOK, AgentIds, OptionalAccount

LEMMA OwnershipStepTypes == OwnershipTypeOK /\ [OwnershipNext]_ownershipVars => OwnershipTypeOK'
<1> SUFFICES ASSUME OwnershipTypeOK, [OwnershipNext]_ownershipVars PROVE OwnershipTypeOK'
  OBVIOUS
<1>1. ASSUME NEW sender \in Accounts, Mint(sender) PROVE OwnershipTypeOK'
  <2>1. owner' \in [AgentIds -> OptionalAccount]
    BY <1>1 DEF Mint, OwnershipTypeOK, OptionalAccount
  <2>2. lastId' \in 0 .. MaxAgents
    BY <1>1 DEF Mint, OwnershipTypeOK
  <2> QED BY <1>1, <2>1, <2>2 DEF Mint, OwnershipTypeOK
<1>2. ASSUME NEW sender \in Accounts, NEW id \in AgentIds, NEW to \in OptionalAccount,
             Approve(sender, to, id)
      PROVE OwnershipTypeOK'
  BY <1>2 DEF Approve, OwnershipTypeOK
<1>3. ASSUME NEW sender \in Accounts, NEW id \in AgentIds, NEW to \in Accounts,
             TransferAgent(sender, to, id)
      PROVE OwnershipTypeOK'
  BY <1>3 DEF TransferAgent, OwnershipTypeOK, OptionalAccount
<1>4. ASSUME NEW sender \in Accounts, NEW operator \in Accounts, NEW allowed \in BOOLEAN,
             SetApprovalForAll(sender, operator, allowed)
      PROVE OwnershipTypeOK'
  BY <1>4 DEF SetApprovalForAll, OwnershipTypeOK
<1>5. CASE UNCHANGED ownershipVars
  BY <1>5 DEF OwnershipTypeOK, ownershipVars
<1> QED BY <1>1, <1>2, <1>3, <1>4, <1>5 DEF OwnershipNext

LEMMA MintedInductive ==
    /\ OwnershipInit => MintedExactlyBelowLastId
    /\ OwnershipTypeOK /\ MintedExactlyBelowLastId /\ [OwnershipNext]_ownershipVars
          => MintedExactlyBelowLastId'
<1>1. OwnershipInit => MintedExactlyBelowLastId
  BY DEF OwnershipInit, MintedExactlyBelowLastId, Exists, AgentIds
<1>2. ASSUME OwnershipTypeOK, MintedExactlyBelowLastId, [OwnershipNext]_ownershipVars
      PROVE  MintedExactlyBelowLastId'
  <2>1. ASSUME NEW sender \in Accounts, Mint(sender) PROVE MintedExactlyBelowLastId'
    <3>1. sender # NoAddress /\ lastId \in AgentIds
      BY <1>2, <2>1 DEF Mint, OwnershipTypeOK, AgentIds
    <3> SUFFICES ASSUME NEW id \in AgentIds PROVE Exists(id)' <=> id < lastId'
      BY DEF MintedExactlyBelowLastId
    <3>2. CASE id = lastId
      BY <1>2, <2>1, <3>1, <3>2 DEF Mint, Exists, OwnershipTypeOK, AgentIds
    <3>3. CASE id # lastId
      <4>1. owner'[id] = owner[id] /\ lastId' = lastId + 1
        BY <1>2, <2>1, <3>3 DEF Mint, OwnershipTypeOK
      <4>2. id < lastId <=> id < lastId + 1
        BY <1>2, <3>3 DEF AgentIds, OwnershipTypeOK
      <4> QED BY <1>2, <4>1, <4>2 DEF MintedExactlyBelowLastId, Exists
    <3> QED BY <3>2, <3>3
  <2>2. ASSUME NEW sender \in Accounts, NEW id \in AgentIds, NEW to \in Accounts,
               TransferAgent(sender, to, id)
        PROVE MintedExactlyBelowLastId'
    BY <1>2, <2>2 DEF TransferAgent, IsAuthorized, MintedExactlyBelowLastId, Exists,
                      OwnershipTypeOK
  <2>3. CASE UNCHANGED <<owner, lastId>>
    BY <1>2, <2>3 DEF MintedExactlyBelowLastId, Exists
  <2> QED BY <1>2, <2>1, <2>2, <2>3 DEF OwnershipNext, Approve, SetApprovalForAll, ownershipVars
<1> QED BY <1>1, <1>2

-----------------------------------------------------------------------------

(* Exactly the ids below _lastId have an owner: no id is skipped, minted   *)
(* twice or orphaned by a transfer.                                        *)
THEOREM MintedCorrect == OwnershipSpec => []MintedExactlyBelowLastId
<1>1. OwnershipInit => OwnershipTypeOK /\ MintedExactlyBelowLastId
  BY OwnershipInitTypes, MintedInductive
<1>2. (OwnershipTypeOK /\ MintedExactlyBelowLastId) /\ [OwnershipNext]_ownershipVars
        => (OwnershipTypeOK /\ MintedExactlyBelowLastId)'
  BY OwnershipStepTypes, MintedInductive
<1> QED BY <1>1, <1>2, PTL DEF OwnershipSpec

-----------------------------------------------------------------------------
(* Attested keys *)

(* Swap-and-pop on an array without duplicates: it removes k and nothing   *)
(* else, and brings no duplicate in.                                       *)
LEMMA SwapAndPopRemoves ==
    ASSUME NEW s \in Seq(Pubkeys), NEW p \in DOMAIN s,
           \A i, j \in DOMAIN s : s[i] = s[j] => i = j
    PROVE  LET r == SwapAndPop(s, s[p]) IN
           /\ r \in Seq(Pubkeys)
           /\ \A i, j \in DOMAIN r : r[i] = r[j] => i = j
           /\ \A i \in DOMAIN r : r[i] # s[p] /\ \E j \in DOMAIN s : s[j] = r[i]
           /\ \A j \in DOMAIN s : s[j] # s[p] => \E i \in DOMAIN r : r[i] = s[j]
<1> DEFINE n == Len(s)
           r == SwapAndPop(s, s[p])
<1>1. n \in Nat \ {0} /\ DOMAIN s = 1 .. n /\ p \in 1 .. n /\ \A i \in 1 .. n : s[i] \in Pubkeys
  OBVIOUS
<1>2. /\ r = [i \in 1 .. (n - 1) |-> IF s[i] = s[p] THEN s[n] ELSE s[i]]
      /\ DOMAIN r = 1 .. (n - 1)
  BY <1>1 DEF SwapAndPop
<1>3. \A i \in 1 .. (n - 1) : r[i] = IF i = p THEN s[n] ELSE s[i]
  BY <1>1, <1>2
<1> HIDE DEF n, r
<1>4. r \in Seq(Pubkeys)
  <2>1. \A i \in 1 .. (n - 1) : r[i] \in Pubkeys
    BY <1>1, <1>3
  <2>2. r \in [1 .. (n - 1) -> Pubkeys]
    BY <1>2, <2>1
  <2> QED BY <1>1, <2>2
<1>5. \A i, j \in DOMAIN r : r[i] = r[j] => i = j
  BY <1>1, <1>2, <1>3
<1>6. \A i \in DOMAIN r : r[i] # s[p] /\ \E j \in DOMAIN s : s[j] = r[i]
  BY <1>1, <1>2, <1>3
<1>7. ASSUME NEW j \in DOMAIN s, s[j] # s[p] PROVE \E i \in DOMAIN r : r[i] = s[j]
  <2>1. CASE j = n
    <3>1. p \in DOMAIN r /\ r[p] = s[n]
      BY <1>1, <1>2, <1>3, <1>7, <2>1
    <3> QED BY <2>1, <3>1
  <2>2. CASE j # n
    <3>1. j \in DOMAIN r /\ r[j] = s[j]
      BY <1>1, <1>2, <1>3, <1>7, <2>2
    <3> QED BY <3>1
  <2> QED BY <2>1, <2>2
<1> QED BY <1>4, <1>5, <1>6, <1>7 DEF r

-----------------------------------------------------------------------------

KeysInv == TEETypeOK /\ KeysAgree

LEMMA KeysInitInv == TEEInit => KeysInv
<1> SUFFICES ASSUME TEEInit PROVE KeysInv OBVIOUS
<1>1. TEETypeOK
  <2>1. OwnershipTypeOK
    BY OwnershipInitTypes DEF TEEInit
  <2>2. registryOwner \in OptionalAccount /\ teeArch \in [Verifiers -> Architectures]
    BY TEEAssumption DEF TEEInit, OptionalAccount
  <2>3. agentKeys \in [AgentIds -> Seq(Pubkeys)]
    BY DEF TEEInit
  <2>4. keyVerifier \in [Pubkeys -> Verifiers \cup {NoVerifier}]
    BY DEF TEEInit
  <2> QED BY <2>1, <2>2, <2>3, <2>4 DEF TEETypeOK
<1>2. \A a \in AgentIds : DOMAIN agentKeys[a] = {}
  BY DEF TEEInit
<1>3. KeysAgree
  BY <1>2 DEF TEEInit, KeysAgree, ListedKeysRecorded, RecordedKeysListed, ListedOnce, HasKey
<1> QED BY <1>1, <1>3 DEF KeysInv

(* Whatever happens to their owners, minted agents stay minted.            *)
LEMMA AgentsStay ==
    ASSUME OwnershipTypeOK, OwnershipNext, NEW a \in AgentIds, Exists(a)
    PROVE  Exists(a)'
BY AccountsAssumption DEF OwnershipNext, OwnershipTypeOK, Exists, Mint, Approve,
     SetApprovalForAll, TransferAgent

LEMMA OwnershipKeepsKeys ==
    ASSUME KeysInv, OwnershipNext, UNCHANGED registryVars
    PROVE  KeysInv'
<1>1. TEETypeOK'
  <2>1. OwnershipTypeOK'
    BY OwnershipStepTypes DEF KeysInv, TEETypeOK
  <2> QED BY <2>1 DEF KeysInv, TEETypeOK, registryVars
<1>2. \A a \in AgentIds : Exists(a) => Exists(a)'
  BY AgentsStay DEF KeysInv, TEETypeOK
<1>3. KeysAgree'
  BY <1>2 DEF KeysInv, KeysAgree, ListedKeysRecorded, RecordedKeysListed, ListedOnce, HasKey,
     registryVars
<1> QED BY <1>1, <1>3 DEF KeysInv

LEMMA AddKeyKeepsKeys ==
    ASSUME KeysInv, NEW sender \in Accounts, NEW a \in AgentIds, NEW k \in Pubkeys,
           NEW v \in Verifiers, AddKey(sender, a, k, v)
    PROVE  KeysInv'
<1> DEFINE s == agentKeys[a]
           n == Len(s)
<1>1. /\ Exists(a) /\ Exists(a)' /\ keyVerifier[k] = NoVerifier
      /\ UNCHANGED <<ownershipVars, registryOwner, teeArch>>
      /\ \A b \in AgentIds : Exists(b)' = Exists(b)
  BY DEF AddKey, IsAuthorized, ownershipVars, Exists
<1>2. \A b \in AgentIds : ~HasKey(b, k)
  BY <1>1 DEF KeysInv, KeysAgree, ListedKeysRecorded
<1>3. agentKeys' = [agentKeys EXCEPT ![a] = Append(s, k)]
  BY <1>2 DEF AddKey
<1>4. /\ s \in Seq(Pubkeys) /\ n \in Nat /\ DOMAIN s = 1 .. n
      /\ Append(s, k) \in Seq(Pubkeys) /\ DOMAIN Append(s, k) = 1 .. (n + 1)
      /\ \A i \in 1 .. (n + 1) : Append(s, k)[i] = IF i = n + 1 THEN k ELSE s[i]
  BY DEF KeysInv, TEETypeOK
<1>5. /\ agentKeys' \in [AgentIds -> Seq(Pubkeys)]
      /\ DOMAIN agentKeys'[a] = 1 .. (n + 1)
      /\ \A i \in 1 .. (n + 1) : agentKeys'[a][i] = IF i = n + 1 THEN k ELSE s[i]
      /\ \A b \in AgentIds \ {a} : agentKeys'[b] = agentKeys[b]
  BY <1>3, <1>4 DEF KeysInv, TEETypeOK
<1>6. /\ keyVerifier' \in [Pubkeys -> Verifiers \cup {NoVerifier}]
      /\ keyVerifier'[k] # NoVerifier
      /\ \A l \in Pubkeys \ {k} : keyVerifier'[l] = keyVerifier[l]
  BY TEEAssumption DEF KeysInv, TEETypeOK, AddKey
<1> HIDE DEF s, n
<1>7. TEETypeOK'
  BY <1>1, <1>5, <1>6 DEF KeysInv, TEETypeOK, OwnershipTypeOK, ownershipVars
<1>8. HasKey(a, k)'
  BY <1>4, <1>5 DEF HasKey
<1>9. \A b \in AgentIds, l \in Pubkeys \ {k} : HasKey(b, l)' <=> HasKey(b, l)
  <2> SUFFICES ASSUME NEW b \in AgentIds, NEW l \in Pubkeys \ {k}
               PROVE  HasKey(b, l)' <=> HasKey(b, l)
    OBVIOUS
  <2>1. CASE b = a
    <3>1. HasKey(a, l)' <=> \E i \in 1 .. (n + 1) : agentKeys'[a][i] = l
      BY <1>5 DEF HasKey
    <3>2. HasKey(a, l) <=> \E i \in 1 .. n : s[i] = l
      BY <1>4 DEF HasKey, s
    <3> QED BY <1>4, <1>5, <2>1, <3>1, <3>2
  <2>2. CASE b # a
    BY <1>5, <2>2 DEF HasKey
  <2> QED BY <2>1, <2>2
<1>10. ListedKeysRecorded' /\ RecordedKeysListed'
  <2>1. ASSUME NEW b \in AgentIds, NEW l \in Pubkeys, HasKey(b, l)'
        PROVE  Exists(b)' /\ keyVerifier'[l] # NoVerifier
    <3>1. CASE l = k
      <4>1. b = a
        BY <1>2, <1>5, <2>1, <3>1 DEF HasKey
      <4> QED BY <1>1, <1>6, <3>1, <4>1
    <3>2. CASE l # k
      <4>1. HasKey(b, l)
        BY <1>9, <2>1, <3>2
      <4> QED BY <1>1, <1>6, <3>2, <4>1 DEF KeysInv, KeysAgree, ListedKeysRecorded
    <3> QED BY <3>1, <3>2
  <2>2. ASSUME NEW l \in Pubkeys, keyVerifier'[l] # NoVerifier
        PROVE  \E b \in AgentIds : HasKey(b, l)'
    <3>1. CASE l = k
      BY <1>8, <3>1
    <3>2. CASE l # k
      <4>1. PICK b \in AgentIds : HasKey(b, l)
        BY <1>6, <2>2, <3>2 DEF KeysInv, KeysAgree, RecordedKeysListed
      <4> QED BY <1>9, <3>2, <4>1
    <3> QED BY <3>1, <3>2
  <2> QED BY <2>1, <2>2 DEF ListedKeysRecorded, RecordedKeysListed
<1>11. ListedOnce'
  <2> SUFFICES ASSUME NEW b \in AgentIds, NEW c \in AgentIds,
                      NEW i \in DOMAIN agentKeys'[b], NEW j \in DOMAIN agentKeys'[c],
                      agentKeys'[b][i] = agentKeys'[c][j]
               PROVE  b = c /\ i = j
    BY DEF ListedOnce
  <2>1. CASE agentKeys'[b][i] = k
    <3>1. ASSUME NEW d \in AgentIds, NEW m \in DOMAIN agentKeys'[d], agentKeys'[d][m] = k
          PROVE  d = a /\ m = n + 1
      BY <1>2, <1>4, <1>5, <3>1 DEF HasKey, s
    <3> QED BY <2>1, <3>1
  <2>2. CASE agentKeys'[b][i] # k
    <3>1. ASSUME NEW d \in AgentIds, NEW m \in DOMAIN agentKeys'[d], agentKeys'[d][m] # k
          PROVE  m \in DOMAIN agentKeys[d] /\ agentKeys'[d][m] = agentKeys[d][m]
      <4>1. CASE d = a
        BY <1>4, <1>5, <3>1, <4>1 DEF s
      <4>2. CASE d # a
        BY <1>5, <4>2
      <4> QED BY <4>1, <4>2
    <3> QED BY <2>2, <3>1 DEF KeysInv, KeysAgree, ListedOnce
  <2> QED BY <2>1, <2>2
<1> QED BY <1>7, <1>10, <1>11 DEF KeysInv, KeysAgree

LEMMA RemoveKeyKeepsKeys ==
    ASSUME KeysInv, NEW sender \in Accounts, NEW a \in AgentIds, NEW k \in Pubkeys,
           RemoveKey(sender, a, k)
    PROVE  KeysInv'
<1> DEFINE s == agentKeys[a]
           r == SwapAndPop(s, k)
<1>1. /\ agentKeys' = [agentKeys EXCEPT ![a] = r]
      /\ UNCHANGED <<ownershipVars, registryOwner, teeArch>>
      /\ \A b \in AgentIds : Exists(b)' = Exists(b)
  BY DEF RemoveKey, ownershipVars, Exists
<1>2. s \in Seq(Pubkeys) /\ \A i, j \in DOMAIN s : s[i] = s[j] => i = j
  BY DEF KeysInv, TEETypeOK, KeysAgree, ListedOnce
<1>3. PICK p \in DOMAIN s : s[p] = k
  BY DEF RemoveKey, HasKey
<1>4. /\ r \in Seq(Pubkeys)
      /\ \A i, j \in DOMAIN r : r[i] = r[j] => i = j
      /\ \A i \in DOMAIN r : r[i] # k /\ \E j \in DOMAIN s : s[j] = r[i]
      /\ \A j \in DOMAIN s : s[j] # k => \E i \in DOMAIN r : r[i] = s[j]
  BY <1>2, <1>3, SwapAndPopRemoves
<1> HIDE DEF r
<1>5. /\ agentKeys' \in [AgentIds -> Seq(Pubkeys)] /\ agentKeys'[a] = r
      /\ \A b \in AgentIds \ {a} : agentKeys'[b] = agentKeys[b]
  BY <1>1, <1>4 DEF KeysInv, TEETypeOK
<1>6. /\ keyVerifier' \in [Pubkeys -> Verifiers \cup {NoVerifier}]
      /\ keyVerifier'[k] = NoVerifier
      /\ \A l \in Pubkeys \ {k} : keyVerifier'[l] = keyVerifier[l]
  BY DEF KeysInv, TEETypeOK, RemoveKey
<1>7. TEETypeOK'
  BY <1>1, <1>5, <1>6 DEF KeysInv, TEETypeOK, OwnershipTypeOK, ownershipVars
<1>8. \A b \in AgentIds : ~HasKey(b, k)'
  <2> SUFFICES ASSUME NEW b \in AgentIds, NEW i \in DOMAIN agentKeys'[b],
                      agentKeys'[b][i] = k
               PROVE  FALSE
    BY DEF HasKey
  <2>1. CASE b = a
    BY <1>4, <1>5, <2>1
  <2>2. CASE b # a
    BY <1>3, <1>5, <2>2 DEF KeysInv, KeysAgree, ListedOnce
  <2> QED BY <2>1, <2>2
<1>9. \A b \in AgentIds, l \in Pubkeys \ {k} : HasKey(b, l)' <=> HasKey(b, l)
  <2> SUFFICES ASSUME NEW b \in AgentIds, NEW l \in Pubkeys \ {k}
               PROVE  HasKey(b, l)' <=> HasKey(b, l)
    OBVIOUS
  <2>1. CASE b = a
    BY <1>4, <1>5, <2>1 DEF HasKey
  <2>2. CASE b # a
    BY <1>5, <2>2 DEF HasKey
  <2> QED BY <2>1, <2>2
<1>10. ListedKeysRecorded' /\ RecordedKeysListed'
  <2>1. ASSUME NEW b \in AgentIds, NEW l \in Pubkeys, HasKey(b, l)'
        PROVE  Exists(b)' /\ keyVerifier'[l] # NoVerifier
    <3>1. l # k
      BY <1>8, <2>1
    <3>2. HasKey(b, l)
      BY <1>9, <2>1, <3>1
    <3> QED BY <1>1, <1>6, <3>1, <3>2 DEF KeysInv, KeysAgree, ListedKeysRecorded
  <2>2. ASSUME NEW l \in Pubkeys, keyVerifier'[l] # NoVerifier
        PROVE  \E b \in AgentIds : HasKey(b, l)'
    <3>1. l # k
      BY <1>6, <2>2
    <3>2. PICK b \in AgentIds : HasKey(b, l)
      BY <1>6, <2>2, <3>1 DEF KeysInv, KeysAgree, RecordedKeysListed
    <3> QED BY <1>9, <3>1, <3>2
  <2> QED BY <2>1, <2>2 DEF ListedKeysRecorded, RecordedKeysListed
<1>11. ListedOnce'
  <2> SUFFICES ASSUME NEW b \in AgentIds, NEW c \in AgentIds,
                      NEW i \in DOMAIN agentKeys'[b], NEW j \in DOMAIN agentKeys'[c],
                      agentKeys'[b][i] = agentKeys'[c][j]
               PROVE  b = c /\ i = j
    BY DEF ListedOnce
  (* Every key listed now was listed, at the same agent, before.           *)
  <2>1. ASSUME NEW d \in AgentIds, NEW m \in DOMAIN agentKeys'[d]
        PROVE  \E q \in DOMAIN agentKeys[d] : agentKeys[d][q] = agentKeys'[d][m]
    <3>1. CASE d = a
      BY <1>4, <1>5, <3>1
    <3>2. CASE d # a
      BY <1>5, <3>2
    <3> QED BY <3>1, <3>2
  <2>2. b = c
    <3>1. PICK q1 \in DOMAIN agentKeys[b] : agentKeys[b][q1] = agentKeys'[b][i]
      BY <2>1
    <3>2. PICK q2 \in DOMAIN agentKeys[c] : agentKeys[c][q2] = agentKeys'[c][j]
      BY <2>1
    <3> QED BY <3>1, <3>2 DEF KeysInv, KeysAgree, ListedOnce
  <2>3. CASE b = a
    BY <1>4, <1>5, <2>2, <2>3
  <2>4. CASE b # a
    BY <1>5, <2>2, <2>4 DEF KeysInv, KeysAgree, ListedOnce
  <2> QED BY <2>2, <2>3, <2>4
<1> QED BY <1>7, <1>10, <1>11 DEF KeysInv, KeysAgree

(* The owner's calls leave the keys alone, whoever vouched for them.       *)
LEMMA OwnerKeepsKeys ==
    ASSUME KeysInv, NEW sender \in Accounts, VerifiersNext(sender)
    PROVE  KeysInv'
<1>1. /\ UNCHANGED <<ownershipVars, agentKeys, keyVerifier>>
      /\ registryOwner' \in OptionalAccount /\ teeArch' \in [Verifiers -> Architectures]
  <2>1. ASSUME NEW v \in Verifiers, NEW arch \in Architectures, AddVerifier(sender, v, arch)
        PROVE  /\ UNCHANGED <<ownershipVars, agentKeys, keyVerifier>>
               /\ registryOwner' \in OptionalAccount
               /\ teeArch' \in [Verifiers -> Architectures]
    BY <2>1 DEF AddVerifier, KeysInv, TEETypeOK
  <2>2. ASSUME NEW v \in Verifiers, RemoveVerifier(sender, v)
        PROVE  /\ UNCHANGED <<ownershipVars, agentKeys, keyVerifier>>
               /\ registryOwner' \in OptionalAccount
               /\ teeArch' \in [Verifiers -> Architectures]
    BY <2>2, TEEAssumption DEF RemoveVerifier, KeysInv, TEETypeOK
  <2>3. ASSUME NEW newOwner \in OptionalAccount, ChangeRegistryOwner(sender, newOwner)
        PROVE  /\ UNCHANGED <<ownershipVars, agentKeys, keyVerifier>>
               /\ registryOwner' \in OptionalAccount
               /\ teeArch' \in [Verifiers -> Architectures]
    BY <2>3 DEF ChangeRegistryOwner, KeysInv, TEETypeOK
  <2> QED BY <2>1, <2>2, <2>3 DEF VerifiersNext
<1>2. TEETypeOK'
  BY <1>1 DEF KeysInv, TEETypeOK, OwnershipTypeOK, ownershipVars
<1>3. KeysAgree'
  BY <1>1 DEF KeysInv, KeysAgree, ListedKeysRecorded, RecordedKeysListed, ListedOnce, HasKey,
     Exists, ownershipVars
<1> QED BY <1>2, <1>3 DEF KeysInv

LEMMA NextKeepsKeys == KeysInv /\ [TEENext]_teeVars => KeysInv'
<1> SUFFICES ASSUME KeysInv, [TEENext]_teeVars PROVE KeysInv' OBVIOUS
<1>1. ASSUME NEW sender \in Accounts, VerifiersNext(sender) PROVE KeysInv'
  BY <1>1, OwnerKeepsKeys
<1>2. ASSUME NEW sender \in Accounts, KeysNext(sender) PROVE KeysInv'
  BY <1>2, AddKeyKeepsKeys, RemoveKeyKeepsKeys DEF KeysNext
<1>3. CASE OwnershipNext /\ UNCHANGED registryVars
  BY <1>3, OwnershipKeepsKeys
<1>4. CASE UNCHANGED teeVars
  BY <1>4 DEF KeysInv, TEETypeOK, OwnershipTypeOK, KeysAgree, ListedKeysRecorded,
     RecordedKeysListed, ListedOnce, HasKey, Exists, teeVars, ownershipVars, registryVars
<1> QED BY <1>1, <1>2, <1>3, <1>4 DEF TEENext

(* A key with a record is listed by exactly one agent, exactly once, and   *)
(* that agent exists; a key without one is listed nowhere.                 *)
THEOREM KeysCorrect == TEESpec => []KeysAgree
<1>1. KeysInv => KeysAgree BY DEF KeysInv
<1> QED BY <1>1, KeysInitInv, NextKeepsKeys, PTL DEF TEESpec

-----------------------------------------------------------------------------
(* The payment pool *)

USE PoolAssumption


(* Solidity's truncating division of unsigned integers.                    *)
LEMMA DivisionIsNat ==
    ASSUME NEW m \in Nat, NEW n \in Nat \ {0}
    PROVE  m \div n \in Nat
OBVIOUS

LEMMA ProductIsNat ==
    ASSUME NEW m \in Nat, NEW n \in Nat
    PROVE  m * n \in Nat
OBVIOUS

(* What withdrawPayment computes: a payout that is positive whenever its   *)
(* guards hold and never above what the cap leaves.                        *)
LEMMA PayoutBounds ==
    ASSUME TypeOK, NEW a \in AgentIds, NEW amount \in Nat
    PROVE  /\ Reward(a, amount) \in Nat
           /\ EarnedInWindow(a) \in Nat
           /\ Remaining(a) \in Nat
           /\ Payout(a, amount) \in Nat
           /\ Payout(a, amount) <= Remaining(a)
           /\ Reward(a, amount) # 0 /\ Remaining(a) # 0 => Payout(a, amount) > 0
           /\ Remaining(a) # 0 => EarnedInWindow(a) + Remaining(a) = dailyCapPerAgent
<1>1. paymentRate[a] \in Nat /\ dailyEarned[a] \in Nat /\ dailyCapPerAgent \in Nat
  BY DEF TypeOK
<1>2. AmountFactor(amount) \in Nat
  BY DEF AmountFactor
<1>3. Reward(a, amount) \in Nat
  BY <1>1, <1>2, ProductIsNat, DivisionIsNat DEF Reward
<1>4. EarnedInWindow(a) \in Nat
  BY <1>1 DEF EarnedInWindow
<1>5. /\ Remaining(a) \in Nat
      /\ Remaining(a) # 0 => EarnedInWindow(a) + Remaining(a) = dailyCapPerAgent
  BY <1>1, <1>4 DEF Remaining
<1> QED
  BY <1>3, <1>4, <1>5 DEF Payout

LEMMA MovedType ==
    ASSUME token \in [Wallets -> Nat],
           NEW from \in Wallets, NEW to \in Wallets, NEW amount \in Nat,
           amount <= token[from]
    PROVE  Moved(from, to, amount) \in [Wallets -> Nat]
BY DEF Moved

-----------------------------------------------------------------------------

(* Every variable keeps its type: balances and earnings never go negative. *)
THEOREM TypeCorrect == Spec => []TypeOK
<1>1. Init => TypeOK
  <2> SUFFICES ASSUME Init PROVE TypeOK
    OBVIOUS
  <2>1. OwnershipTypeOK
    BY OwnershipInitTypes DEF Init
  <2>2. token \in [Wallets -> Nat]
    BY DEF Init
  <2> QED BY <2>1, <2>2 DEF Init, TypeOK, OptionalAccount
<1>2. TypeOK /\ [Next]_vars => TypeOK'
  <2> SUFFICES ASSUME TypeOK, [Next]_vars PROVE TypeOK'
    OBVIOUS
  <2>1. CASE UNCHANGED vars
    BY <2>1 DEF TypeOK, OwnershipTypeOK, vars, poolVars, ownershipVars, configVars,
                earningVars, rateVars
  <2>2. CASE OwnershipNext /\ UNCHANGED poolVars
    <3>1. OwnershipTypeOK'
      BY <2>2, OwnershipStepTypes DEF TypeOK
    <3> QED BY <2>2, <3>1 DEF TypeOK, poolVars, configVars, earningVars, rateVars
  <2>3. CASE Tick
    BY <2>3 DEF Tick, TypeOK, OwnershipTypeOK, ownershipVars, configVars, earningVars, rateVars
  <2>4. CASE PoolNext
    <3>1. PICK sender \in Accounts : PublicNext(sender) \/ OwnerNext(sender)
      BY <2>4 DEF PoolNext
    <3>2. ASSUME NEW amount \in Amounts, Deposit(sender, amount) PROVE TypeOK'
      <4>1. token' \in [Wallets -> Nat]
        BY <3>2, MovedType DEF Deposit, TypeOK, Wallets
      <4> QED BY <3>2, <4>1 DEF Deposit, TypeOK, OwnershipTypeOK, ownershipVars, configVars,
                                earningVars, rateVars
    <3>3. ASSUME NEW amount \in Amounts, NEW to \in Wallets, TokenTransfer(sender, to, amount)
          PROVE TypeOK'
      <4>1. token' \in [Wallets -> Nat]
        BY <3>3, MovedType DEF TokenTransfer, TypeOK, Wallets
      <4> QED BY <3>3, <4>1 DEF TokenTransfer, TypeOK, OwnershipTypeOK, ownershipVars,
                                configVars, earningVars, rateVars
    <3>4. ASSUME NEW amount \in Amounts, NEW to \in Wallets,
                 EmergencyWithdraw(sender, to, amount)
          PROVE TypeOK'
      <4>1. token' \in [Wallets -> Nat]
        BY <3>4, MovedType DEF EmergencyWithdraw, TypeOK, Wallets
      <4> QED BY <3>4, <4>1 DEF EmergencyWithdraw, TypeOK, OwnershipTypeOK, ownershipVars,
                                configVars, earningVars, rateVars
    <3>5. ASSUME NEW amount \in Amounts, NEW a \in AgentIds, WithdrawPayment(sender, a, amount)
          PROVE TypeOK'
      <4>1. Payout(a, amount) \in Nat /\ EarnedInWindow(a) \in Nat
        BY PayoutBounds
      <4>2. paymentWallet[a] \in Wallets /\ Pool \in Wallets
        BY <3>5 DEF WithdrawPayment, Withdrawable, WithdrawableWhilePaused, TypeOK, Wallets
      <4>3. token' \in [Wallets -> Nat]
        BY <3>5, <4>1, <4>2, MovedType
             DEF WithdrawPayment, Withdrawable, WithdrawableWhilePaused, TypeOK
      <4> QED BY <3>5, <4>1, <4>3
           DEF WithdrawPayment, Withdrawable, WithdrawableWhilePaused, TypeOK,
             OwnershipTypeOK,
                 ownershipVars, configVars, rateVars
    <3>6. ASSUME NEW a \in AgentIds, NEW wallet \in Wallets,
                 RegisterPaymentWallet(sender, a, wallet)
          PROVE TypeOK'
      BY <3>6 DEF RegisterPaymentWallet, TypeOK, OwnershipTypeOK, ownershipVars, configVars,
                  earningVars, rateVars
    <3>7. ASSUME NEW a \in AgentIds, NEW tier \in Tiers, SetPaymentRate(sender, a, tier)
          PROVE TypeOK'
      <4>1. (basePaymentRate * tierMultipliers[tier]) \div BasisPoints \in Nat
        BY ProductIsNat, DivisionIsNat DEF TypeOK
      <4> QED BY <3>7, <4>1 DEF SetPaymentRate, TypeOK, OwnershipTypeOK, ownershipVars,
                                configVars, earningVars
    <3>8. ASSUME NEW rate \in Rates, UpdateBaseRate(sender, rate) PROVE TypeOK'
      BY <3>8 DEF UpdateBaseRate, TypeOK, OwnershipTypeOK, ownershipVars, earningVars, rateVars
    <3>9. ASSUME NEW cap \in Caps, UpdateDailyCap(sender, cap) PROVE TypeOK'
      BY <3>9 DEF UpdateDailyCap, TypeOK, OwnershipTypeOK, ownershipVars, earningVars, rateVars
    <3>10. ASSUME NEW table \in MultiplierTables, UpdateTierMultipliers(sender, table)
           PROVE TypeOK'
      BY <3>10 DEF UpdateTierMultipliers, TypeOK, OwnershipTypeOK, ownershipVars, earningVars,
                   rateVars
    <3>11. ASSUME NEW flag \in BOOLEAN, SetPaused(sender, flag) PROVE TypeOK'
      BY <3>11 DEF SetPaused, TypeOK, OwnershipTypeOK, ownershipVars, earningVars, rateVars
    <3>12. ASSUME NEW newOwner \in OptionalAccount, ChangePoolOwner(sender, newOwner)
           PROVE TypeOK'
      BY <3>12
           DEF ChangePoolOwner, TypeOK, OwnershipTypeOK, ownershipVars, earningVars, rateVars
    <3> QED BY <3>1, <3>2, <3>3, <3>4, <3>5, <3>6, <3>7, <3>8, <3>9, <3>10, <3>11, <3>12
            DEF PublicNext, OwnerNext
  <2> QED BY <2>1, <2>2, <2>3, <2>4 DEF Next
<1> QED BY <1>1, <1>2, PTL DEF Spec

-----------------------------------------------------------------------------

(* The three facts that the action theorems share: only withdrawPayment    *)
(* touches earnings, and what it does to the agent paid and to the others. *)
LEMMA OnlyWithdrawPays ==
    ASSUME TypeOK, [Next]_vars,
           ~ \E sender \in Accounts, a \in AgentIds, amount \in Amounts :
                 WithdrawPayment(sender, a, amount)
    PROVE  UNCHANGED earningVars
BY DEF Next, PoolNext, PublicNext, OwnerNext, OwnershipNext, Tick, Deposit, TokenTransfer,
       EmergencyWithdraw,
       RegisterPaymentWallet, SetPaymentRate, UpdateBaseRate, UpdateDailyCap,
       UpdateTierMultipliers, SetPaused, ChangePoolOwner, vars, poolVars, earningVars

LEMMA WithdrawEffect ==
    ASSUME TypeOK, NEW sender \in Accounts, NEW a \in AgentIds, NEW amount \in Amounts,
           WithdrawPayment(sender, a, amount)
    PROVE  /\ Payout(a, amount) \in Nat /\ Payout(a, amount) > 0
           /\ totalEarned'[a] = totalEarned[a] + Payout(a, amount)
           /\ dailyEarned'[a] = EarnedInWindow(a) + Payout(a, amount)
           /\ dailyEarned'[a] <= dailyCapPerAgent
           /\ lastPaymentTimestamp'[a] = now
           /\ dailyResetTimestamp'[a] = IF WindowExpired(a) THEN now ELSE dailyResetTimestamp[a]
           /\ \A b \in AgentIds \ {a} :
                 /\ totalEarned'[b] = totalEarned[b]
                 /\ dailyEarned'[b] = dailyEarned[b]
                 /\ lastPaymentTimestamp'[b] = lastPaymentTimestamp[b]
                 /\ dailyResetTimestamp'[b] = dailyResetTimestamp[b]
           /\ now' = now
<1>1. /\ Payout(a, amount) \in Nat /\ Payout(a, amount) > 0
      /\ Payout(a, amount) <= Remaining(a)
      /\ EarnedInWindow(a) \in Nat /\ Remaining(a) \in Nat
      /\ EarnedInWindow(a) + Remaining(a) = dailyCapPerAgent
  BY PayoutBounds DEF WithdrawPayment, Withdrawable, WithdrawableWhilePaused
<1>2. EarnedInWindow(a) + Payout(a, amount) <= dailyCapPerAgent
  BY <1>1 DEF TypeOK
<1> QED BY <1>1, <1>2 DEF WithdrawPayment, Withdrawable, WithdrawableWhilePaused, TypeOK

(* Why a window, once open, never has the start 0 of an agent never paid.  *)
WindowInv == now >= Day /\ WindowHoldsItsPayments

(* A window that withdrawPayment opened holds a payment made in it, and    *)
(* the books of an agent agree with one another: a reset is never kept     *)
(* without the payout of the same call.                                    *)
THEOREM WindowCorrect == Spec => []WindowHoldsItsPayments
<1>1. Init => WindowInv
  BY DEF Init, WindowInv, WindowHoldsItsPayments
<1>2. TypeOK /\ WindowInv /\ [Next]_vars => WindowInv'
  <2> SUFFICES ASSUME TypeOK, now >= Day, WindowHoldsItsPayments, [Next]_vars
               PROVE  now' >= Day /\ WindowHoldsItsPayments'
    BY DEF WindowInv
  <2>1. ASSUME NEW sender \in Accounts, NEW a \in AgentIds, NEW amount \in Amounts,
               WithdrawPayment(sender, a, amount)
        PROVE  now' >= Day /\ WindowHoldsItsPayments'
    <3> SUFFICES ASSUME NEW b \in AgentIds
                 PROVE  /\ dailyEarned'[b] <= totalEarned'[b]
                        /\ dailyResetTimestamp'[b] <= lastPaymentTimestamp'[b]
                        /\ lastPaymentTimestamp'[b] < dailyResetTimestamp'[b] + Day
                        /\ lastPaymentTimestamp'[b] <= now'
                        /\ totalEarned'[b] = 0 <=> dailyEarned'[b] = 0
                        /\ totalEarned'[b] = 0 <=> dailyResetTimestamp'[b] = 0
      BY <2>1, WithdrawEffect DEF WindowHoldsItsPayments
    <3>1. CASE b # a
      BY <2>1, <3>1, WithdrawEffect DEF WindowHoldsItsPayments
    <3>2. CASE b = a
      <4> DEFINE p == Payout(a, amount)
      <4>1. /\ p \in Nat /\ p > 0 /\ now' = now
            /\ totalEarned'[a] = totalEarned[a] + p
            /\ dailyEarned'[a] = EarnedInWindow(a) + p
            /\ lastPaymentTimestamp'[a] = now
            /\ dailyResetTimestamp'[a] = IF WindowExpired(a) THEN now ELSE dailyResetTimestamp[a]
        BY <2>1, WithdrawEffect
      <4>2. /\ totalEarned[a] \in Nat /\ dailyEarned[a] \in Nat
            /\ lastPaymentTimestamp[a] \in Nat /\ dailyResetTimestamp[a] \in Nat /\ now \in Nat
        BY DEF TypeOK
      <4> HIDE DEF p
      <4>3. CASE WindowExpired(a)
        BY <3>2, <4>1, <4>2, <4>3 DEF EarnedInWindow
      <4>4. CASE ~WindowExpired(a)
        <5>1. now < dailyResetTimestamp[a] + Day
          BY <4>2, <4>4 DEF WindowExpired
        <5>2. dailyResetTimestamp[a] # 0
          BY <4>2, <5>1
        <5> QED BY <3>2, <4>1, <4>2, <4>4, <5>1, <5>2 DEF EarnedInWindow, WindowHoldsItsPayments
      <4> QED BY <4>3, <4>4
    <3> QED BY <3>1, <3>2
  <2>2. CASE ~ \E sender \in Accounts, a \in AgentIds, amount \in Amounts :
                   WithdrawPayment(sender, a, amount)
    <3>1. UNCHANGED earningVars
      BY <2>2, OnlyWithdrawPays
    <3>2. now' \in Nat /\ now' >= now
      BY <2>2
           DEF Next, PoolNext, PublicNext, OwnerNext, OwnershipNext, Tick, Deposit,
             TokenTransfer,
           EmergencyWithdraw, RegisterPaymentWallet, SetPaymentRate, UpdateBaseRate,
           UpdateDailyCap, UpdateTierMultipliers, SetPaused, ChangePoolOwner, vars, poolVars,
           TypeOK
    <3> QED BY <3>1, <3>2 DEF WindowHoldsItsPayments, earningVars, TypeOK
  <2> QED BY <2>1, <2>2
<1>3. WindowInv => WindowHoldsItsPayments
  BY DEF WindowInv
<1> QED BY <1>1, <1>2, <1>3, TypeCorrect, PTL DEF Spec

(* No payout leaves an agent above the cap in force at the payout.         *)
THEOREM CapCorrect == Spec => PayoutWithinCap
<1>1. TypeOK /\ [Next]_vars
        => [\A a \in AgentIds :
              totalEarned'[a] > totalEarned[a]
                 => /\ dailyEarned'[a] <= dailyCapPerAgent
                    /\ dailyEarned'[a] >= totalEarned'[a] - totalEarned[a]]_vars
  <2> SUFFICES ASSUME TypeOK, [Next]_vars, NEW a \in AgentIds,
                      totalEarned'[a] > totalEarned[a]
               PROVE  /\ dailyEarned'[a] <= dailyCapPerAgent
                      /\ dailyEarned'[a] >= totalEarned'[a] - totalEarned[a]
    OBVIOUS
  <2>1. PICK sender \in Accounts, b \in AgentIds, amount \in Amounts :
            WithdrawPayment(sender, b, amount)
    BY OnlyWithdrawPays DEF earningVars, TypeOK
  <2>2. a = b
    BY <2>1, WithdrawEffect DEF TypeOK
  <2>3. EarnedInWindow(a) \in Nat
    BY PayoutBounds
  <2> QED BY <2>1, <2>2, <2>3, WithdrawEffect DEF TypeOK
<1> QED BY <1>1, TypeCorrect, PTL DEF Spec, PayoutWithinCap

(* A renounced pool never pays, never is rescued and is never owned again. *)
THEOREM RenounceIsFinal == Spec => RenouncedPoolIsFrozen
<1>1. TypeOK /\ [Next]_vars
        => [poolOwner = NoAddress
              => /\ token'[Pool] >= token[Pool]
                 /\ UNCHANGED <<configVars, earningVars, rateVars>>]_vars
  <2> SUFFICES ASSUME TypeOK, [Next]_vars, poolOwner = NoAddress
               PROVE  /\ token'[Pool] >= token[Pool]
                      /\ UNCHANGED <<configVars, earningVars, rateVars>>
    OBVIOUS
  <2>1. ASSUME NEW from \in Accounts, NEW to \in Wallets, NEW amount \in Nat,
               token' = Moved(from, to, amount)
        PROVE  token'[Pool] >= token[Pool]
    BY <2>1 DEF Moved, Wallets, TypeOK
  <2>2. token[Pool] \in Nat /\ Pool \in Wallets
    BY DEF TypeOK, Wallets
  <2>3. ASSUME UNCHANGED <<token, configVars, earningVars, rateVars>>
        PROVE  /\ token'[Pool] >= token[Pool]
               /\ UNCHANGED <<configVars, earningVars, rateVars>>
    BY <2>2, <2>3
  <2>4. ASSUME NEW sender \in Accounts, OwnerNext(sender) PROVE FALSE
    BY <2>4
         DEF OwnerNext, WithdrawPayment, Withdrawable, WithdrawableWhilePaused,
           SetPaymentRate, EmergencyWithdraw, UpdateBaseRate,
                UpdateDailyCap, UpdateTierMultipliers, SetPaused, ChangePoolOwner
  <2>5. ASSUME NEW sender \in Accounts, PublicNext(sender)
        PROVE  /\ token'[Pool] >= token[Pool]
               /\ UNCHANGED <<configVars, earningVars, rateVars>>
    <3>1. ASSUME NEW amount \in Amounts, Deposit(sender, amount)
          PROVE  token'[Pool] >= token[Pool]
      BY <2>1, <2>2, <3>1 DEF Deposit
    <3>2. ASSUME NEW amount \in Amounts, NEW to \in Wallets, TokenTransfer(sender, to, amount)
          PROVE  token'[Pool] >= token[Pool]
      BY <2>1, <3>2 DEF TokenTransfer
    <3>3. UNCHANGED <<configVars, earningVars, rateVars>>
      BY <2>5 DEF PublicNext, Deposit, TokenTransfer, RegisterPaymentWallet
    <3>4. CASE UNCHANGED token
      BY <2>3, <3>3, <3>4
    <3> QED BY <2>5, <3>1, <3>2, <3>3, <3>4 DEF PublicNext, RegisterPaymentWallet
  <2>6. CASE PoolNext
    BY <2>4, <2>5, <2>6 DEF PoolNext
  <2>7. CASE Tick \/ (OwnershipNext /\ UNCHANGED poolVars) \/ UNCHANGED vars
    BY <2>3, <2>7 DEF Tick, vars, poolVars
  <2> QED BY <2>6, <2>7 DEF Next
<1> QED BY <1>1, TypeCorrect, PTL DEF Spec, RenouncedPoolIsFrozen

(* Tokens that leave the pool are one agent's recorded reward, or the      *)
(* owner's emergency exit, which records nobody's earnings.                *)
THEOREM OutflowCorrect == Spec => OutflowIsAccountedFor
<1> DEFINE Accounted ==
        \/ \E a \in AgentIds :
              /\ ~paused
              /\ paymentWallet[a] \in Accounts
              /\ totalEarned'[a] - totalEarned[a] = token[Pool] - token'[Pool]
              /\ token'[paymentWallet[a]] - token[paymentWallet[a]] = token[Pool] - token'[Pool]
              /\ \A b \in AgentIds \ {a} : totalEarned'[b] = totalEarned[b]
        \/ poolOwner # NoAddress /\ UNCHANGED totalEarned
<1>1. TypeOK /\ [Next]_vars => [token'[Pool] < token[Pool] => Accounted]_vars
  <2> SUFFICES ASSUME TypeOK, [Next]_vars, token'[Pool] < token[Pool] PROVE Accounted
    OBVIOUS
  <2>1. token[Pool] \in Nat /\ Pool \in Wallets /\ Pool \notin Accounts
    BY DEF TypeOK, Wallets
  <2>2. ASSUME NEW sender \in Accounts, NEW a \in AgentIds, NEW amount \in Amounts,
               WithdrawPayment(sender, a, amount)
        PROVE  Accounted
    <3> DEFINE paid == Payout(a, amount)
               wallet == paymentWallet[a]
    <3>1. /\ ~paused /\ wallet # NoAddress
          /\ token' = Moved(Pool, wallet, paid)
      BY <2>2 DEF WithdrawPayment, Withdrawable, WithdrawableWhilePaused
    <3>2. /\ paid \in Nat /\ totalEarned'[a] = totalEarned[a] + paid
          /\ \A b \in AgentIds \ {a} : totalEarned'[b] = totalEarned[b]
      BY <2>2, WithdrawEffect
    <3>3. wallet \in Wallets /\ totalEarned[a] \in Nat
      BY <3>1 DEF TypeOK
    <3> HIDE DEF paid, wallet
    <3>4. wallet # Pool
      BY <2>1, <3>1 DEF Moved
    <3>5. wallet \in Accounts
      BY <3>3, <3>4 DEF Wallets
    <3>6. token[wallet] \in Nat
      BY <3>3 DEF TypeOK
    <3>7. token'[Pool] = token[Pool] - paid /\ token'[wallet] = token[wallet] + paid
      BY <2>1, <3>1, <3>3, <3>4 DEF Moved, TypeOK
    <3> QED BY <2>1, <3>1, <3>2, <3>3, <3>5, <3>6, <3>7 DEF wallet
  <2>3. ASSUME NEW from \in Accounts, NEW to \in Wallets, NEW amount \in Nat,
               token' = Moved(from, to, amount)
        PROVE  FALSE
    BY <2>1, <2>3 DEF Moved, Wallets, TypeOK
  <2>4. ASSUME NEW sender \in Accounts, PublicNext(sender) PROVE FALSE
    <3>1. ASSUME NEW amount \in Amounts, Deposit(sender, amount) PROVE FALSE
      BY <2>1, <2>3, <3>1 DEF Deposit
    <3>2. ASSUME NEW amount \in Amounts, NEW to \in Wallets, TokenTransfer(sender, to, amount)
          PROVE FALSE
      BY <2>3, <3>2 DEF TokenTransfer
    <3> QED BY <2>1, <2>4, <3>1, <3>2 DEF PublicNext, RegisterPaymentWallet
  <2>5. ASSUME NEW sender \in Accounts, NEW to \in Wallets, NEW amount \in Amounts,
               EmergencyWithdraw(sender, to, amount)
        PROVE  Accounted
    BY <2>5 DEF EmergencyWithdraw, earningVars
  <2>6. ASSUME NEW sender \in Accounts, OwnerNext(sender) PROVE Accounted
    <3>1. CASE UNCHANGED token
      BY <2>1, <3>1
    <3> QED BY <2>2, <2>5, <2>6, <3>1 DEF OwnerNext, SetPaymentRate, UpdateBaseRate, UpdateDailyCap,
                 UpdateTierMultipliers, SetPaused, ChangePoolOwner
  <2>7. CASE PoolNext
    BY <2>4, <2>6, <2>7 DEF PoolNext
  <2>8. CASE Tick \/ (OwnershipNext /\ UNCHANGED poolVars) \/ UNCHANGED vars
    BY <2>1, <2>8 DEF Tick, vars, poolVars
  <2> QED BY <2>7, <2>8 DEF Next
<1> QED BY <1>1, TypeCorrect, PTL DEF Spec, OutflowIsAccountedFor

-----------------------------------------------------------------------------
(* Payments in any day.  E is what an agent had been paid by each instant, *)
(* T its total, D what its window holds, W the start of the window, last   *)
(* the time of its last payment, and c no less than any cap.               *)

Before(E, t) == IF t = 0 THEN 0 ELSE E[t - 1]

(* The window holds D, and something of it came at its start.  A span that *)
(* reaches back over the start has less than a cap before it; the spans    *)
(* that end before it carry less than two.                                 *)
Spans(E, T, D, W, last, c) ==
    /\ \A t, u \in Instants : t <= u => E[t] <= E[u]
    /\ \A t \in Instants : t >= last => E[t] = T
    /\ D <= c
    /\ W # 0 => /\ W \in Instants /\ W >= Day
                /\ E[W - 1] = T - D /\ E[W] > T - D
                /\ \A t \in Instants : W - Day < t /\ t <= W => E[W - 1] - Before(E, t) < c
                /\ \A t \in Instants : t <= W - Day => E[t + Day - 1] - Before(E, t) < 2 * c

LEMMA TimeTypes == /\ Day \in Nat /\ Day >= 1 /\ MaxTime \in Nat /\ Day <= MaxTime
                   /\ \A t \in Instants : t \in Nat /\ t <= MaxTime
                   /\ \A t \in Nat : t <= MaxTime => t \in Instants
BY PoolAssumption DEF PoolAssumption, Instants

LEMMA SpansBound ==
    ASSUME NEW E \in [Instants -> Nat], NEW T \in Nat, NEW D \in Nat, NEW W \in Nat,
           NEW last \in Instants, NEW c \in Nat \ {0}, Spans(E, T, D, W, last, c), D <= T,
           T = 0 <=> W = 0,
           NEW t \in Nat, t + Day - 1 <= MaxTime
    PROVE  E[t + Day - 1] - Before(E, t) < 2 * c
<1> DEFINE u == t + Day - 1
<1>1. /\ t \in Instants /\ u \in Instants /\ u \in Nat /\ t <= u
      /\ t # 0 => t - 1 \in Instants
  BY TimeTypes
<1>2. E[u] \in Nat /\ E[u] <= T
  <2>1. E[last] = T
    BY TimeTypes DEF Spans
  <2>2. CASE u <= last
    BY <1>1, <2>1, <2>2 DEF Spans
  <2>3. CASE u > last
    BY <1>1, <2>3, TimeTypes DEF Spans
  <2> QED BY <1>1, <2>2, <2>3, TimeTypes
<1>3. Before(E, t) \in Nat
  BY <1>1 DEF Before
<1>4. CASE W = 0
  <2>1. E[u] = 0
    BY <1>2, <1>4
  <2> QED BY <1>3, <2>1
<1>5. CASE W # 0
  <2>1. /\ W \in Instants /\ W >= Day /\ W - 1 \in Instants
        /\ E[W - 1] = T - D /\ E[W] > T - D
    BY <1>5, TimeTypes DEF Spans
  <2>2. CASE t <= W - Day
    BY <1>1, <1>5, <2>2 DEF Spans
  <2>3. CASE W - Day < t /\ t <= W
    <3>1. E[W - 1] - Before(E, t) < c
      BY <1>1, <1>5, <2>3 DEF Spans
    <3>2. D <= c
      BY DEF Spans
    <3>3. E[W - 1] \in Nat
      BY <2>1
    <3> QED BY <1>2, <1>3, <2>1, <3>1, <3>2, <3>3
  <2>4. CASE W < t
    <3>1. t - 1 \in Instants /\ W <= t - 1
      BY <1>1, <2>4, TimeTypes
    <3>2. E[W] <= E[t - 1] /\ E[W] \in Nat /\ E[t - 1] \in Nat
      BY <2>1, <3>1 DEF Spans
    <3>3. Before(E, t) = E[t - 1]
      BY <2>4 DEF Before
    <3>4. D <= c
      BY DEF Spans
    <3> QED BY <1>2, <2>1, <3>2, <3>3, <3>4
  <2> QED BY <2>2, <2>3, <2>4, TimeTypes
<1> QED BY <1>4, <1>5

(* A payment of x at n: in the window, or in a window of its own once the  *)
(* old one is over.                                                        *)
PaidBy(E, n, sum) == [t \in Instants |-> IF t < n THEN E[t] ELSE sum]

LEMMA PaidByType ==
    ASSUME NEW E \in [Instants -> Nat], NEW n \in Instants, NEW T \in Nat,
           NEW sum \in Nat, T <= sum, NEW last \in Instants, last <= n,
           \A t, u \in Instants : t <= u => E[t] <= E[u],
           \A t \in Instants : t >= last => E[t] = T
    PROVE  /\ PaidBy(E, n, sum) \in [Instants -> Nat]
           /\ \A t \in Instants : t < n => PaidBy(E, n, sum)[t] = E[t]
           /\ \A t \in Instants : t >= n => PaidBy(E, n, sum)[t] = sum
           /\ \A t, u \in Instants : t <= u => PaidBy(E, n, sum)[t] <= PaidBy(E, n, sum)[u]
<1> DEFINE F == PaidBy(E, n, sum)
<1>1. F \in [Instants -> Nat] /\ \A t \in Instants : F[t] = IF t < n THEN E[t] ELSE sum
  BY DEF PaidBy
<1> HIDE DEF F
<1>2. \A t \in Instants : t < n => F[t] = E[t]
  BY <1>1
<1>3. \A t \in Instants : t >= n => F[t] = sum
  BY <1>1, TimeTypes
<1>4. ASSUME NEW t \in Instants, NEW u \in Instants, t <= u PROVE F[t] <= F[u]
  <2>1. CASE u < n
    BY <1>2, <1>4, <2>1, TimeTypes
  <2>2. CASE u >= n /\ t < n
    <3>1. E[t] <= E[n] /\ E[n] = T
      BY <2>2, TimeTypes
    <3>2. F[t] = E[t] /\ F[u] = sum /\ E[t] \in Nat
      BY <1>2, <1>3, <2>2
    <3> QED BY <3>1, <3>2
  <2>3. CASE t >= n
    BY <1>3, <1>4, <2>3, TimeTypes
  <2> QED BY <2>1, <2>2, <2>3, TimeTypes
<1> QED BY <1>1, <1>2, <1>3, <1>4 DEF F

LEMMA SpansPay ==
    ASSUME NEW E \in [Instants -> Nat], NEW T \in Nat, NEW D \in Nat, NEW W \in Nat,
           NEW last \in Instants, NEW c \in Nat \ {0}, Spans(E, T, D, W, last, c), D <= T,
           T = 0 <=> W = 0,
           NEW n \in Instants, last <= n, W <= n, n < W + Day,
           NEW x \in Nat \ {0}, D + x <= c, W # 0,
           NEW sum, sum = T + x, NEW held, held = D + x
    PROVE  Spans(PaidBy(E, n, sum), sum, held, W, n, c)
<1> DEFINE F == PaidBy(E, n, sum)
<1>1. /\ F \in [Instants -> Nat]
      /\ \A t \in Instants : t < n => F[t] = E[t]
      /\ \A t \in Instants : t >= n => F[t] = sum
      /\ \A t, u \in Instants : t <= u => F[t] <= F[u]
  <2>1. /\ \A t, u \in Instants : t <= u => E[t] <= E[u]
        /\ \A t \in Instants : t >= last => E[t] = T
    BY DEF Spans
  <2>2. last <= n /\ sum \in Nat /\ T <= sum
    BY TimeTypes
  <2> QED BY <2>1, <2>2, PaidByType
<1> HIDE DEF F
<1>2. /\ W \in Instants /\ W >= Day /\ E[W - 1] = T - D /\ E[W] > T - D
      /\ W - 1 \in Instants /\ W - 1 < n
  BY TimeTypes DEF Spans
<1>3. F[W - 1] = E[W - 1] /\ F[W - 1] = sum - held
  BY <1>1, <1>2
<1>4. F[W] > sum - held
  <2>1. CASE W < n
    BY <1>1, <1>2, <2>1
  <2>2. CASE W >= n
    BY <1>1, <1>2, <2>2
  <2> QED BY <2>1, <2>2, TimeTypes
<1>5. ASSUME NEW t \in Instants, t <= W PROVE Before(F, t) = Before(E, t)
  <2>1. t # 0 => t - 1 \in Instants /\ t - 1 < n
    BY <1>5, TimeTypes
  <2> QED BY <1>1, <2>1 DEF Before
<1>6. \A t \in Instants : W - Day < t /\ t <= W => F[W - 1] - Before(F, t) < c
  BY <1>3, <1>5 DEF Spans
<1>7. ASSUME NEW t \in Instants, t <= W - Day PROVE F[t + Day - 1] - Before(F, t) < 2 * c
  <2>1. t + Day - 1 \in Instants /\ t + Day - 1 < n /\ t <= W
    BY <1>2, <1>7, TimeTypes
  <2>2. F[t + Day - 1] = E[t + Day - 1] /\ Before(F, t) = Before(E, t)
    BY <1>1, <1>5, <2>1
  <2> QED BY <1>7, <2>2 DEF Spans
<1>8. Spans(F, sum, held, W, n, c)
  BY <1>1, <1>2, <1>3, <1>4, <1>6, <1>7 DEF Spans
<1> QED BY <1>8 DEF F

LEMMA SpansOpen ==
    ASSUME NEW E \in [Instants -> Nat], NEW T \in Nat, NEW D \in Nat, NEW W \in Nat,
           NEW last \in Instants, NEW c \in Nat \ {0}, Spans(E, T, D, W, last, c), D <= T,
           T = 0 <=> W = 0,
           NEW n \in Instants, n >= Day, last < n, n >= W + Day,
           NEW x \in Nat \ {0}, x <= c, NEW sum, sum = T + x
    PROVE  Spans(PaidBy(E, n, sum), sum, x, n, n, c)
<1> DEFINE F == PaidBy(E, n, sum)
<1>1. /\ F \in [Instants -> Nat]
      /\ \A t \in Instants : t < n => F[t] = E[t]
      /\ \A t \in Instants : t >= n => F[t] = sum
      /\ \A t, u \in Instants : t <= u => F[t] <= F[u]
  <2>1. /\ \A t, u \in Instants : t <= u => E[t] <= E[u]
        /\ \A t \in Instants : t >= last => E[t] = T
    BY DEF Spans
  <2>2. last <= n /\ sum \in Nat /\ T <= sum
    BY TimeTypes
  <2> QED BY <2>1, <2>2, PaidByType
<1> HIDE DEF F
<1>2. n - 1 \in Instants /\ n - 1 < n /\ n - 1 >= last
  BY TimeTypes
<1>3. F[n - 1] = T /\ E[n - 1] = T
  BY <1>1, <1>2 DEF Spans
<1>4. F[n - 1] = sum - x /\ F[n] > sum - x
  BY <1>1, <1>3, TimeTypes
<1>5. ASSUME NEW t \in Instants, t <= n
      PROVE  Before(F, t) = Before(E, t) /\ Before(E, t) \in Nat
  <2>1. t # 0 => t - 1 \in Instants /\ t - 1 < n
    BY <1>5, TimeTypes
  <2> QED BY <1>1, <2>1 DEF Before
<1>6. ASSUME NEW t \in Instants, n - Day < t, t <= n PROVE F[n - 1] - Before(F, t) < c
  <2>1. CASE W = 0
    BY <1>3, <1>5, <1>6, <2>1
  <2>2. CASE W # 0
    <3>1. /\ W \in Instants /\ E[W] > T - D /\ D <= c
          /\ t - 1 \in Instants /\ W <= t - 1 /\ t # 0
      BY <1>6, <2>2, TimeTypes DEF Spans
    <3>2. E[t - 1] >= E[W] /\ E[t - 1] \in Nat /\ E[W] \in Nat
      BY <3>1 DEF Spans
    <3>3. Before(F, t) = E[t - 1]
      BY <1>5, <1>6, <3>1 DEF Before
    <3> QED BY <1>3, <3>1, <3>2, <3>3
  <2> QED BY <2>1, <2>2
<1>7. ASSUME NEW t \in Instants, t <= n - Day PROVE F[t + Day - 1] - Before(F, t) < 2 * c
  <2>1. t + Day - 1 \in Instants /\ t + Day - 1 < n /\ t <= n /\ t \in Nat
    BY <1>7, TimeTypes
  <2>2. F[t + Day - 1] = E[t + Day - 1] /\ Before(F, t) = Before(E, t)
    BY <1>1, <1>5, <2>1
  <2>3. E[t + Day - 1] - Before(E, t) < 2 * c
    BY <2>1, SpansBound, TimeTypes
  <2> QED BY <2>2, <2>3
<1>8. Spans(F, sum, x, n, n, c)
  BY <1>1, <1>4, <1>6, <1>7 DEF Spans
<1> QED BY <1>8 DEF F

CapInv(c) ==
    /\ now >= Day
    /\ dailyCapPerAgent <= c
    /\ earnedBy \in [AgentIds -> [Instants -> Nat]]
    /\ now \in Instants
    /\ \A a \in AgentIds :
          /\ lastPaymentTimestamp[a] \in Instants
          /\ Spans(earnedBy[a], totalEarned[a], dailyEarned[a], dailyResetTimestamp[a],
                   lastPaymentTimestamp[a], c)

LEMMA CapInvInit ==
    ASSUME NEW c \in Nat \ {0}, InitialCap <= c
    PROVE  MCInit => CapInv(c)
<1> SUFFICES ASSUME MCInit PROVE CapInv(c)
  OBVIOUS
<1>1. /\ now = Day /\ dailyCapPerAgent = InitialCap /\ 0 \in Instants /\ now \in Instants
      /\ earnedBy = [a \in AgentIds |-> [t \in Instants |-> 0]]
  BY TimeTypes DEF MCInit, Init
<1>2. ASSUME NEW a \in AgentIds
      PROVE  Spans(earnedBy[a], totalEarned[a], dailyEarned[a], dailyResetTimestamp[a],
                   lastPaymentTimestamp[a], c)
  BY <1>1 DEF MCInit, Init, Spans
<1> QED BY <1>1, <1>2, TimeTypes DEF MCInit, Init, CapInv

LEMMA HistoryStep ==
    ASSUME earnedBy' = [a \in AgentIds |->
              [t \in Instants |-> IF t < now THEN earnedBy[a][t] ELSE totalEarned'[a]]]
    PROVE  \A a \in AgentIds : earnedBy'[a] = PaidBy(earnedBy[a], now, totalEarned'[a])
BY DEF PaidBy

(* An agent that is not paid keeps its history.                            *)
LEMMA HistoryKept ==
    ASSUME NEW c \in Nat, CapInv(c), TypeOK, NEW a \in AgentIds,
           lastPaymentTimestamp[a] <= now
    PROVE  PaidBy(earnedBy[a], now, totalEarned[a]) = earnedBy[a]
<1>1. /\ earnedBy[a] \in [Instants -> Nat]
      /\ \A t \in Instants : t >= lastPaymentTimestamp[a] => earnedBy[a][t] = totalEarned[a]
      /\ lastPaymentTimestamp[a] \in Instants /\ now \in Instants
  BY DEF CapInv, Spans
<1>2. \A t \in Instants : (IF t < now THEN earnedBy[a][t] ELSE totalEarned[a]) = earnedBy[a][t]
  BY <1>1, TimeTypes
<1>3. PaidBy(earnedBy[a], now, totalEarned[a]) = [t \in Instants |-> earnedBy[a][t]]
  BY <1>2 DEF PaidBy
<1> QED BY <1>1, <1>3

LEMMA CapInvStep ==
    ASSUME NEW c \in Nat \ {0}, \A cap \in Caps : cap <= c, CapInv(c), TypeOK,
           WindowHoldsItsPayments, [MCNext]_mcVars
    PROVE  CapInv(c)'
<1>1. CASE UNCHANGED mcVars
  BY <1>1 DEF mcVars, vars, poolVars, configVars, earningVars, CapInv
<1>2. CASE MCNext
  <2>0. [Next]_vars /\ Next
    BY <1>2 DEF MCNext
  <2>1. \A a \in AgentIds : earnedBy'[a] = PaidBy(earnedBy[a], now, totalEarned'[a])
    BY <1>2, HistoryStep DEF MCNext
  <2>2. earnedBy' = [a \in AgentIds |-> earnedBy'[a]]
    BY <1>2 DEF MCNext
  <2>3. now' >= Day /\ now' \in Instants /\ dailyCapPerAgent' <= c
    <3>1. now' = now \/ (now < MaxTime /\ now' = now + 1)
      BY <2>0 DEF Next, PoolNext, PublicNext, OwnerNext, OwnershipNext, Tick, Deposit,
           TokenTransfer, EmergencyWithdraw, RegisterPaymentWallet, SetPaymentRate,
           UpdateBaseRate, UpdateDailyCap, UpdateTierMultipliers, SetPaused, ChangePoolOwner,
           WithdrawPayment, vars, poolVars
    <3>2. dailyCapPerAgent' = dailyCapPerAgent \/ dailyCapPerAgent' \in Caps
      BY <2>0 DEF Next, PoolNext, PublicNext, OwnerNext, OwnershipNext, Tick, Deposit,
           TokenTransfer, EmergencyWithdraw, RegisterPaymentWallet, SetPaymentRate,
           UpdateBaseRate, UpdateDailyCap, UpdateTierMultipliers, SetPaused, ChangePoolOwner,
           WithdrawPayment, vars, poolVars, configVars
    <3>3. now' >= Day /\ now' \in Instants
      BY <3>1, TimeTypes DEF CapInv
    <3> QED BY <3>2, <3>3 DEF CapInv
  <2>4. ASSUME NEW a \in AgentIds
        PROVE  /\ lastPaymentTimestamp[a] <= now /\ lastPaymentTimestamp[a] \in Instants
               /\ earnedBy[a] \in [Instants -> Nat]
               /\ totalEarned[a] \in Nat /\ dailyEarned[a] \in Nat
               /\ dailyResetTimestamp[a] \in Nat
               /\ dailyEarned[a] <= totalEarned[a]
               /\ totalEarned[a] = 0 <=> dailyResetTimestamp[a] = 0
               /\ dailyResetTimestamp[a] <= lastPaymentTimestamp[a]
               /\ lastPaymentTimestamp[a] < dailyResetTimestamp[a] + Day
               /\ Spans(earnedBy[a], totalEarned[a], dailyEarned[a], dailyResetTimestamp[a],
                        lastPaymentTimestamp[a], c)
    BY DEF TypeOK, WindowHoldsItsPayments, CapInv
  <2>5. ASSUME NEW a \in AgentIds,
               totalEarned'[a] = totalEarned[a], dailyEarned'[a] = dailyEarned[a],
               dailyResetTimestamp'[a] = dailyResetTimestamp[a],
               lastPaymentTimestamp'[a] = lastPaymentTimestamp[a]
        PROVE  /\ lastPaymentTimestamp'[a] \in Instants /\ earnedBy'[a] \in [Instants -> Nat]
               /\ Spans(earnedBy'[a], totalEarned'[a], dailyEarned'[a], dailyResetTimestamp'[a],
                        lastPaymentTimestamp'[a], c)
    <3>1. earnedBy'[a] = earnedBy[a]
      BY <2>1, <2>4, <2>5, HistoryKept
    <3> QED BY <2>4, <2>5, <3>1
  <2>6. CASE UNCHANGED earningVars
    <3>1. \A a \in AgentIds :
             /\ lastPaymentTimestamp'[a] \in Instants /\ earnedBy'[a] \in [Instants -> Nat]
             /\ Spans(earnedBy'[a], totalEarned'[a], dailyEarned'[a], dailyResetTimestamp'[a],
                      lastPaymentTimestamp'[a], c)
      BY <2>5, <2>6 DEF earningVars
    <3>2. earnedBy' \in [AgentIds -> [Instants -> Nat]]
      BY <2>2, <3>1
    <3> QED BY <2>3, <3>1, <3>2 DEF CapInv
  <2>7. ASSUME NEW sender \in Accounts, NEW a \in AgentIds, NEW amount \in Amounts,
               WithdrawPayment(sender, a, amount)
        PROVE  CapInv(c)'
    <3> DEFINE x == Payout(a, amount)
               sum == totalEarned'[a]
               E == earnedBy[a]
               T == totalEarned[a]
               D == dailyEarned[a]
               W == dailyResetTimestamp[a]
               last == lastPaymentTimestamp[a]
    <3>1. /\ x \in Nat \ {0} /\ sum = T + x
          /\ dailyEarned'[a] = EarnedInWindow(a) + x /\ dailyEarned'[a] <= dailyCapPerAgent
          /\ lastPaymentTimestamp'[a] = now
          /\ dailyResetTimestamp'[a] = IF WindowExpired(a) THEN now ELSE W
      BY <2>7, WithdrawEffect
    <3>2. now \in Instants /\ now >= Day /\ dailyCapPerAgent <= c /\ dailyCapPerAgent \in Nat
      BY DEF CapInv, TypeOK
    <3>3. earnedBy'[a] = PaidBy(E, now, sum)
      BY <2>1
    <3>4. /\ last <= now /\ last \in Instants /\ E \in [Instants -> Nat]
          /\ T \in Nat /\ D \in Nat /\ W \in Nat /\ D <= T /\ (T = 0 <=> W = 0)
          /\ W <= last /\ last < W + Day /\ Spans(E, T, D, W, last, c)
      BY <2>4
    <3> HIDE DEF x, sum, E, T, D, W, last
    <3>5. /\ Spans(earnedBy'[a], totalEarned'[a], dailyEarned'[a], dailyResetTimestamp'[a],
                   lastPaymentTimestamp'[a], c)
      <4>1. CASE WindowExpired(a)
        <5>1. dailyEarned'[a] = x /\ dailyResetTimestamp'[a] = now /\ x <= c
          BY <3>1, <3>2, <4>1 DEF EarnedInWindow
        <5>2. now >= W + Day /\ last < now
          BY <3>2, <3>4, <4>1, TimeTypes DEF WindowExpired, W
        <5>3. Spans(PaidBy(E, now, sum), sum, x, now, now, c)
          BY <3>1, <3>2, <3>4, <5>1, <5>2, SpansOpen
        <5> QED BY <3>1, <3>3, <5>1, <5>3 DEF sum
      <4>2. CASE ~WindowExpired(a)
        <5>1. dailyEarned'[a] = D + x /\ dailyResetTimestamp'[a] = W /\ D + x <= c
          BY <3>1, <3>2, <3>4, <4>2 DEF EarnedInWindow, D
        <5>2. now < W + Day /\ W # 0 /\ W <= now
          BY <3>2, <3>4, <4>2, TimeTypes DEF WindowExpired, W
        <5>3. Spans(PaidBy(E, now, sum), sum, dailyEarned'[a], W, now, c)
          BY <3>1, <3>2, <3>4, <5>1, <5>2, SpansPay
        <5> QED BY <3>1, <3>3, <5>1, <5>3 DEF sum
      <4> QED BY <4>1, <4>2
    <3>6. PaidBy(E, now, sum) \in [Instants -> Nat]
      BY <3>1, <3>4 DEF PaidBy
    <3>7. \A b \in AgentIds :
             /\ lastPaymentTimestamp'[b] \in Instants /\ earnedBy'[b] \in [Instants -> Nat]
             /\ Spans(earnedBy'[b], totalEarned'[b], dailyEarned'[b], dailyResetTimestamp'[b],
                      lastPaymentTimestamp'[b], c)
      <4> SUFFICES ASSUME NEW b \in AgentIds
                   PROVE  /\ lastPaymentTimestamp'[b] \in Instants
                          /\ earnedBy'[b] \in [Instants -> Nat]
                          /\ Spans(earnedBy'[b], totalEarned'[b], dailyEarned'[b],
                                   dailyResetTimestamp'[b], lastPaymentTimestamp'[b], c)
        OBVIOUS
      <4>1. CASE b = a
        BY <3>1, <3>2, <3>3, <3>5, <3>6, <4>1
      <4>2. CASE b # a
        BY <2>5, <2>7, <4>2, WithdrawEffect
      <4> QED BY <4>1, <4>2
    <3>8. earnedBy' \in [AgentIds -> [Instants -> Nat]]
      BY <2>2, <3>7
    <3> QED BY <2>3, <3>7, <3>8 DEF CapInv
  <2> QED BY <2>0, <2>6, <2>7, OnlyWithdrawPays
<1> QED BY <1>1, <1>2

(* However payments fall around the start of windows, and however the cap  *)
(* moves: no span of one day carries two of the largest cap, for any cap   *)
(* that is not zero.                                                       *)
THEOREM DayCorrect ==
    ASSUME NEW most \in Caps \cup {InitialCap}, most > 0,
           \A cap \in Caps \cup {InitialCap} : cap <= most
    PROVE  MCSpec => []LessThanTwoCapsInAnyDay
<1>1. most \in Nat \ {0} /\ LargestCap = most
  <2>1. Caps \cup {InitialCap} \subseteq Nat
    BY PoolAssumption DEF PoolAssumption
  <2>2. \A d \in Caps \cup {InitialCap} :
           (\A cap \in Caps \cup {InitialCap} : cap <= d) => d = most
    BY <2>1
  <2>3. /\ LargestCap \in Caps \cup {InitialCap}
        /\ \A cap \in Caps \cup {InitialCap} : cap <= LargestCap
    BY DEF LargestCap
  <2> QED BY <2>1, <2>2, <2>3
<1>2. MCInit => Init /\ CapInv(most)
  BY <1>1, CapInvInit DEF MCInit
<1>3. [MCNext]_mcVars => [Next]_vars
  BY DEF MCNext, mcVars
<1>4. CapInv(most) /\ TypeOK /\ WindowHoldsItsPayments /\ [MCNext]_mcVars => CapInv(most)'
  BY <1>1, CapInvStep
<1>5. CapInv(most) /\ TypeOK /\ WindowHoldsItsPayments => LessThanTwoCapsInAnyDay
  <2> SUFFICES ASSUME CapInv(most), TypeOK, WindowHoldsItsPayments, NEW a \in AgentIds,
                      NEW t \in 0 .. (MaxTime - Day + 1)
               PROVE  PaidWithin(a, t, t + Day - 1) < 2 * most
    BY <1>1 DEF LessThanTwoCapsInAnyDay
  <2>1. t \in Nat /\ t + Day - 1 <= MaxTime
    BY TimeTypes
  <2>2. /\ lastPaymentTimestamp[a] \in Instants /\ earnedBy[a] \in [Instants -> Nat]
        /\ totalEarned[a] \in Nat /\ dailyEarned[a] \in Nat /\ dailyResetTimestamp[a] \in Nat
        /\ dailyEarned[a] <= totalEarned[a]
        /\ totalEarned[a] = 0 <=> dailyResetTimestamp[a] = 0
        /\ Spans(earnedBy[a], totalEarned[a], dailyEarned[a], dailyResetTimestamp[a],
                 lastPaymentTimestamp[a], most)
    BY DEF CapInv, TypeOK, WindowHoldsItsPayments
  <2>3. earnedBy[a][t + Day - 1] - Before(earnedBy[a], t) < 2 * most
    BY <1>1, <2>1, <2>2, SpansBound
  <2> QED BY <2>3 DEF PaidWithin, Before
<1>6. Init /\ [][Next]_vars => [](TypeOK /\ WindowHoldsItsPayments)
  BY TypeCorrect, WindowCorrect, PTL DEF Spec
<1> QED BY <1>2, <1>3, <1>4, <1>5, <1>6, PTL DEF MCSpec

HIDE PoolAssumption

-----------------------------------------------------------------------------
(* Reading keys page by page.  L is the list read, S the keys it has had   *)
(* all along, g what was received, o the offset and r the removals.        *)

Elements(s) == {s[i] : i \in DOMAIN s}

(* Keys the reader has passed without receiving them.                      *)
PassedBy(L, S, g, o) == {k \in S \ Elements(g) : \E i \in DOMAIN L : i <= o /\ L[i] = k}

(* What lies ahead has not been received, what was received came once, and *)
(* there is a removal for each key passed by.                              *)
Reads(L, S, g, o, r) ==
    /\ S \subseteq Elements(L)
    /\ \A i, j \in DOMAIN g : g[i] = g[j] /\ g[i] \in S => i = j
    /\ \A i \in DOMAIN L : i > o /\ L[i] \in S => L[i] \notin Elements(g)
    /\ IsFiniteSet(PassedBy(L, S, g, o)) /\ Cardinality(PassedBy(L, S, g, o)) <= r

LEMMA FewerPassed ==
    ASSUME NEW A, NEW B, IsFiniteSet(A), B \subseteq A, NEW r \in Nat, Cardinality(A) <= r
    PROVE  IsFiniteSet(B) /\ Cardinality(B) <= r
<1>1. IsFiniteSet(B) /\ Cardinality(B) <= Cardinality(A)
  BY FS_Subset
<1>2. Cardinality(A) \in Nat /\ Cardinality(B) \in Nat
  BY <1>1, FS_CardinalityType
<1> QED BY <1>1, <1>2

(* A page: the keys of L from o up to e.                                   *)
LEMMA PageRead ==
    ASSUME NEW L \in Seq(Pubkeys), NEW S, NEW g \in Seq(Pubkeys), NEW o \in Nat, NEW r \in Nat,
           Reads(L, S, g, o, r), \A i, j \in DOMAIN L : L[i] = L[j] => i = j,
           o < Len(L), NEW e \in Nat, o < e, e <= Len(L)
    PROVE  /\ g \o SubSeq(L, o + 1, e) \in Seq(Pubkeys)
           /\ Reads(L, S, g \o SubSeq(L, o + 1, e), e, r)
<1> DEFINE p == SubSeq(L, o + 1, e)
           h == g \o p
<1>1. /\ p \in Seq(Pubkeys) /\ DOMAIN p = 1 .. (e - o)
      /\ \A i \in 1 .. (e - o) : p[i] = L[o + i]
      /\ Len(g) \in Nat /\ DOMAIN g = 1 .. Len(g) /\ DOMAIN L = 1 .. Len(L) /\ Len(L) \in Nat
  <2>1. Len(g) \in Nat /\ DOMAIN g = 1 .. Len(g) /\ DOMAIN L = 1 .. Len(L) /\ Len(L) \in Nat
    OBVIOUS
  <2>2. Len(p) = e - o /\ DOMAIN p = 1 .. (e - o)
    OBVIOUS
  <2>3. \A i \in 1 .. (e - o) : p[i] = L[o + i]
    OBVIOUS
  <2>4. p \in Seq(Pubkeys)
    <3>1. \A i \in o + 1 .. e : L[i] \in Pubkeys
      OBVIOUS
    <3> QED BY <3>1
  <2> HIDE DEF p
  <2> QED BY <2>1, <2>2, <2>3, <2>4
<1>2. /\ h \in Seq(Pubkeys) /\ DOMAIN h = 1 .. (Len(g) + (e - o))
      /\ \A i \in 1 .. Len(g) : h[i] = g[i]
      /\ \A i \in 1 .. (e - o) : h[Len(g) + i] = L[o + i]
  <2>1. Len(p) = e - o /\ Len(p) \in Nat
    OBVIOUS
  <2> HIDE DEF p
  <2>2. h \in Seq(Pubkeys) /\ Len(h) = Len(g) + Len(p) /\ DOMAIN h = 1 .. Len(h)
    BY <1>1
  <2>3. \A i \in 1 .. Len(g) : h[i] = g[i]
    BY <1>1
  <2>4. \A i \in 1 .. Len(p) : h[Len(g) + i] = p[i]
    BY <1>1, <2>1
  <2> HIDE DEF h
  <2> QED BY <1>1, <2>1, <2>2, <2>3, <2>4
<1> HIDE DEF h, p
<1>3. ASSUME NEW i \in DOMAIN h
      PROVE  \/ i \in DOMAIN g /\ h[i] = g[i]
             \/ \E q \in DOMAIN L : q = o + (i - Len(g)) /\ o < q /\ q <= e /\ h[i] = L[q]
  <2>1. CASE i <= Len(g)
    BY <1>1, <1>2, <2>1
  <2>2. CASE i > Len(g)
    <3>1. i - Len(g) \in 1 .. (e - o) /\ i = Len(g) + (i - Len(g))
      BY <1>1, <1>2, <2>2
    <3>2. h[i] = L[o + (i - Len(g))]
      BY <1>2, <3>1
    <3>3. o + (i - Len(g)) \in DOMAIN L /\ o < o + (i - Len(g)) /\ o + (i - Len(g)) <= e
      BY <1>1, <3>1
    <3> QED BY <3>2, <3>3
  <2> QED BY <1>1, <1>2, <2>1, <2>2
<1>4. ASSUME NEW i \in DOMAIN h, NEW j \in DOMAIN h, h[i] = h[j], h[i] \in S PROVE i = j
  <2>1. CASE i \in DOMAIN g /\ h[i] = g[i] /\ j \in DOMAIN g /\ h[j] = g[j]
    BY <1>4, <2>1 DEF Reads
  <2>2. ASSUME NEW m \in DOMAIN g, NEW q \in DOMAIN L, o < q, g[m] = L[q], L[q] \in S PROVE FALSE
    BY <2>2 DEF Reads, Elements
  <2>3. ASSUME NEW q1 \in DOMAIN L, NEW q2 \in DOMAIN L, h[i] = L[q1], h[j] = L[q2],
               q1 = o + (i - Len(g)), q2 = o + (j - Len(g))
        PROVE  i = j
    <3>1. q1 = q2
      BY <1>4, <2>3
    <3>2. i \in Int /\ j \in Int
      BY <1>2
    <3> QED BY <1>1, <2>3, <3>1, <3>2
  <2> QED BY <1>3, <1>4, <2>1, <2>2, <2>3
<1>5. Elements(g) \subseteq Elements(h)
  <2>1. \A i \in DOMAIN g : i \in DOMAIN h /\ h[i] = g[i]
    BY <1>1, <1>2
  <2> QED BY <2>1 DEF Elements
<1>6. \A i \in DOMAIN L : o < i /\ i <= e => L[i] \in Elements(h)
  <2> SUFFICES ASSUME NEW i \in DOMAIN L, o < i, i <= e PROVE L[i] \in Elements(h)
    OBVIOUS
  <2>1. i - o \in 1 .. (e - o) /\ o + (i - o) = i /\ Len(g) + (i - o) \in DOMAIN h
    <3>1. i \in Nat /\ Len(g) \in Nat
      BY <1>1
    <3>2. i - o \in 1 .. (e - o) /\ o + (i - o) = i
      BY <3>1
    <3>3. Len(g) + (i - o) \in 1 .. (Len(g) + (e - o))
      BY <3>1
    <3> QED BY <1>2, <3>2, <3>3
  <2>2. h[Len(g) + (i - o)] = L[i]
    BY <1>2, <2>1
  <2> QED BY <2>1, <2>2 DEF Elements
<1>7. ASSUME NEW i \in DOMAIN L, i > e, L[i] \in S PROVE L[i] \notin Elements(h)
  <2> SUFFICES ASSUME NEW j \in DOMAIN h, h[j] = L[i] PROVE FALSE
    BY DEF Elements
  <2>1. i > o
    BY <1>1, <1>7
  <2>2. CASE j \in DOMAIN g /\ h[j] = g[j]
    <3>1. L[i] \notin Elements(g)
      BY <1>7, <2>1 DEF Reads
    <3>2. g[j] = L[i]
      BY <2>2
    <3> QED BY <2>2, <3>1, <3>2 DEF Elements
  <2>3. ASSUME NEW q \in DOMAIN L, q <= e, h[j] = L[q] PROVE FALSE
    <3>1. q = i
      BY <1>7, <2>3
    <3>2. i \in Nat
      BY <1>1
    <3> HIDE DEF h
    <3>3. q \in Nat /\ q <= e /\ q > e
      BY <1>7, <2>3, <3>1, <3>2
    <3> QED BY <3>3
  <2> QED BY <1>3, <2>2, <2>3
<1>8. PassedBy(L, S, h, e) \subseteq PassedBy(L, S, g, o)
  <2> SUFFICES ASSUME NEW k \in S \ Elements(h), NEW i \in DOMAIN L, i <= e, L[i] = k
               PROVE  k \in PassedBy(L, S, g, o)
    BY DEF PassedBy
  <2>1. i <= o
    BY <1>1, <1>6
  <2> QED BY <1>5, <2>1 DEF PassedBy
<1>9. IsFiniteSet(PassedBy(L, S, h, e)) /\ Cardinality(PassedBy(L, S, h, e)) <= r
  BY <1>8, FewerPassed DEF Reads
<1>10. Reads(L, S, h, e, r)
  BY <1>4, <1>7, <1>9 DEF Reads
<1> QED BY <1>2, <1>10 DEF h, p

(* The list grows: what is new is no key that was there all along.         *)
LEMMA ListGrows ==
    ASSUME NEW L \in Seq(Pubkeys), NEW S, NEW g, NEW o \in Nat, NEW r \in Nat,
           Reads(L, S, g, o, r), NEW k \in Pubkeys, k \notin Elements(L)
    PROVE  Reads(Append(L, k), S, g, o, r)
<1> DEFINE M == Append(L, k)
<1>1. /\ DOMAIN M = DOMAIN L \cup {Len(L) + 1} /\ M[Len(L) + 1] = k
      /\ \A i \in DOMAIN L : M[i] = L[i]
  OBVIOUS
<1> HIDE DEF M
<1>2. k \notin S
  BY DEF Reads
<1>3. S \subseteq Elements(M)
  BY <1>1 DEF Reads, Elements
<1>4. \A i \in DOMAIN M : i > o /\ M[i] \in S => M[i] \notin Elements(g)
  BY <1>1, <1>2 DEF Reads
<1>5. PassedBy(M, S, g, o) \subseteq PassedBy(L, S, g, o)
  BY <1>1, <1>2 DEF PassedBy
<1>6. IsFiniteSet(PassedBy(M, S, g, o)) /\ Cardinality(PassedBy(M, S, g, o)) <= r
  BY <1>5, FewerPassed DEF Reads
<1>7. Reads(M, S, g, o, r)
  BY <1>3, <1>4, <1>6 DEF Reads
<1> QED BY <1>7 DEF M

(* The list shrinks: its last key may move to where the reader has passed, *)
(* and no other key moves.                                                 *)
LEMMA ListShrinks ==
    ASSUME NEW L \in Seq(Pubkeys), NEW S, NEW g, NEW o \in Nat, NEW r \in Nat,
           Reads(L, S, g, o, r), NEW k, Len(L) > 0
    PROVE  /\ SwapAndPop(L, k) \in Seq(Pubkeys)
           /\ Reads(SwapAndPop(L, k), S \cap Elements(SwapAndPop(L, k)), g, o, r + 1)
<1> DEFINE M == SwapAndPop(L, k)
           n == Len(L)
           T == S \cap Elements(M)
           A == PassedBy(L, S, g, o)
<1>1. n \in Nat /\ n >= 1 /\ DOMAIN L = 1 .. n /\ \A i \in 1 .. n : L[i] \in Pubkeys
  OBVIOUS
<1>2. /\ M \in Seq(Pubkeys) /\ DOMAIN M = 1 .. (n - 1)
      /\ \A i \in DOMAIN M : M[i] = IF L[i] = k THEN L[n] ELSE L[i]
  <2> HIDE DEF n
  <2>1. n - 1 \in Nat /\ \A i \in 1 .. (n - 1) : i \in 1 .. n
    BY <1>1
  <2>2. M = [i \in 1 .. (n - 1) |-> IF L[i] = k THEN L[n] ELSE L[i]]
    BY DEF SwapAndPop, n
  <2>3. \A i \in 1 .. (n - 1) : (IF L[i] = k THEN L[n] ELSE L[i]) \in Pubkeys
    BY <1>1, <2>1
  <2> QED BY <2>1, <2>2, <2>3
<1> HIDE DEF M, n
<1>3. \A i \in DOMAIN M : i \in DOMAIN L /\ n \in DOMAIN L /\ i < n
  BY <1>1, <1>2
<1>4. ASSUME NEW i \in DOMAIN M, i > o, M[i] \in T PROVE M[i] \notin Elements(g)
  <2>1. i \in DOMAIN L /\ n \in DOMAIN L /\ n > o /\ M[i] \in S
    BY <1>1, <1>2, <1>3, <1>4
  <2> QED BY <1>2, <1>4, <2>1 DEF Reads
<1>5. PassedBy(M, T, g, o) \subseteq A \cup {L[n]}
  BY <1>2, <1>3 DEF PassedBy
<1>6. IsFiniteSet(A) /\ Cardinality(A) <= r /\ Cardinality(A) \in Nat
  BY FS_CardinalityType DEF Reads
<1> HIDE DEF A
<1>7. IsFiniteSet(A \cup {L[n]}) /\ Cardinality(A \cup {L[n]}) <= r + 1
  <2>1. /\ IsFiniteSet(A \cup {L[n]})
        /\ Cardinality(A \cup {L[n]}) = IF L[n] \in A THEN Cardinality(A) ELSE Cardinality(A) + 1
    BY <1>6, FS_AddElement
  <2> QED BY <1>6, <2>1
<1>8. IsFiniteSet(PassedBy(M, T, g, o)) /\ Cardinality(PassedBy(M, T, g, o)) <= r + 1
  <2> DEFINE B == PassedBy(M, T, g, o)
             D == A \cup {L[n]}
             q == r + 1
  <2>1. q \in Nat
    OBVIOUS
  <2>2. B \subseteq D
    BY <1>5
  <2>3. IsFiniteSet(D) /\ Cardinality(D) <= q
    BY <1>7
  <2> HIDE DEF B, D, q
  <2>4. IsFiniteSet(B) /\ Cardinality(B) <= q
    BY <2>1, <2>2, <2>3, FewerPassed
  <2> QED BY <2>4 DEF B, q
<1>9. Reads(M, T, g, o, r + 1)
  <2>1. \A i, j \in DOMAIN g : g[i] = g[j] /\ g[i] \in T => i = j
    BY DEF Reads
  <2> QED BY <1>4, <1>8, <2>1 DEF Reads
<1> QED BY <1>2, <1>9 DEF M

(* The last page: what the reader has passed is the whole list.            *)
LEMMA ReadToTheEnd ==
    ASSUME NEW L \in Seq(Pubkeys), NEW S, NEW g, NEW o \in Nat, NEW r \in Nat,
           Reads(L, S, g, o, r), Len(L) <= o
    PROVE  IsFiniteSet(S \ Elements(g)) /\ Cardinality(S \ Elements(g)) <= r
<1>1. S \ Elements(g) \subseteq PassedBy(L, S, g, o)
  <2>1. \A i \in DOMAIN L : i <= o
    <3>1. DOMAIN L = 1 .. Len(L) /\ Len(L) \in Nat
      OBVIOUS
    <3> QED BY <3>1
  <2> QED BY <2>1 DEF Reads, PassedBy, Elements
<1> QED BY <1>1, FewerPassed DEF Reads

(* The keys of the agent read, and the reader: in the middle of a read the *)
(* two are related as above; after one, what is missing is counted.        *)
ReaderInv ==
    /\ offset \in Nat /\ pages \in Nat /\ removals \in Nat
    /\ got \in Seq(Pubkeys)
    /\ pages = 0 \/ focus # "keys" => got = <<>> /\ stable = {} /\ removals = 0
    /\ pages = 0 => offset = 0
    /\ \A i, j \in DOMAIN got : got[i] = got[j] /\ got[i] \in stable => i = j
    /\ focus = "keys" /\ MidRead => Reads(agentKeys[Reading], stable, got, offset, removals)
    /\ focus = "keys" /\ Done => /\ IsFiniteSet(stable \ Elements(got))
                                /\ Cardinality(stable \ Elements(got)) <= removals

(* What a transaction can do to the list of one agent.                     *)
LEMMA ListSteps ==
    ASSUME KeysInv, TEENext, NEW a \in AgentIds
    PROVE  \/ agentKeys'[a] = agentKeys[a]
           \/ \E k \in Pubkeys : /\ k \notin Elements(agentKeys[a])
                                /\ agentKeys'[a] = Append(agentKeys[a], k)
           \/ \E k \in Pubkeys : /\ Len(agentKeys[a]) > 0
                                /\ agentKeys'[a] = SwapAndPop(agentKeys[a], k)
<1>1. agentKeys \in [AgentIds -> Seq(Pubkeys)]
  BY DEF KeysInv, TEETypeOK
<1>2. CASE agentKeys' = agentKeys
  BY <1>2
<1>3. ASSUME NEW sender \in Accounts, NEW b \in AgentIds, NEW k \in Pubkeys, NEW v \in Verifiers,
             AddKey(sender, b, k, v)
      PROVE  \/ agentKeys'[a] = agentKeys[a]
             \/ k \notin Elements(agentKeys[a]) /\ agentKeys'[a] = Append(agentKeys[a], k)
  BY <1>1, <1>3 DEF AddKey, HasKey, Elements
<1>4. ASSUME NEW sender \in Accounts, NEW b \in AgentIds, NEW k \in Pubkeys, RemoveKey(sender, b, k)
      PROVE  \/ agentKeys'[a] = agentKeys[a]
             \/ Len(agentKeys[a]) > 0 /\ agentKeys'[a] = SwapAndPop(agentKeys[a], k)
  <2>1. CASE a = b
    <3>1. agentKeys'[a] = SwapAndPop(agentKeys[a], k)
      BY <1>1, <1>4, <2>1 DEF RemoveKey
    <3>2. DOMAIN agentKeys[a] # {} /\ agentKeys[a] \in Seq(Pubkeys)
      BY <1>1, <1>4, <2>1 DEF RemoveKey, HasKey
    <3>3. Len(agentKeys[a]) > 0
      BY <3>2
    <3> QED BY <3>1, <3>3
  <2>2. CASE a # b
    BY <1>1, <1>4, <2>2 DEF RemoveKey
  <2> QED BY <2>1, <2>2
<1>5. CASE \E sender \in Accounts : VerifiersNext(sender)
  <2>1. agentKeys' = agentKeys
    BY <1>5 DEF VerifiersNext, AddVerifier, RemoveVerifier, ChangeRegistryOwner
  <2> QED BY <2>1
<1>6. CASE \E sender \in Accounts : KeysNext(sender)
  BY <1>3, <1>4, <1>6 DEF KeysNext
<1>7. CASE OwnershipNext /\ UNCHANGED registryVars
  BY <1>7 DEF registryVars
<1> QED BY <1>5, <1>6, <1>7 DEF TEENext

LEMMA ReadInitInv == ReadInit => KeysInv /\ ReaderInv
<1> SUFFICES ASSUME ReadInit PROVE KeysInv /\ ReaderInv OBVIOUS
<1>1. ASSUME TEEInit PROVE KeysInv
  BY <1>1, KeysInitInv
<1>2. ASSUME Abandoned PROVE KeysInv
  <2>1. OwnershipTypeOK
    BY OwnershipInitTypes DEF ReadInit, FeedbackInit
  <2>2. registryOwner \in OptionalAccount /\ teeArch \in [Verifiers -> Architectures]
    BY <1>2, TEEAssumption DEF Abandoned, OptionalAccount
  <2>3. agentKeys \in [AgentIds -> Seq(Pubkeys)] /\ keyVerifier \in [Pubkeys -> Verifiers \cup {NoVerifier}]
    BY <1>2 DEF Abandoned
  <2>4. \A a \in AgentIds : DOMAIN agentKeys[a] = {}
    BY <1>2 DEF Abandoned
  <2>5. KeysAgree
    BY <1>2, <2>4 DEF Abandoned, KeysAgree, ListedKeysRecorded, RecordedKeysListed, ListedOnce, HasKey
  <2> QED BY <2>1, <2>2, <2>3, <2>5 DEF KeysInv, TEETypeOK
<1>3. ReaderInv
  <2>1. got = <<>> /\ got \in Seq(Pubkeys) /\ DOMAIN got = {}
    BY DEF ReadInit
  <2> QED BY <2>1 DEF ReadInit, ReaderInv, MidRead, Done
<1> QED BY <1>1, <1>2, <1>3 DEF ReadInit

(* A page, the first of a read or a later one.                             *)
LEMMA ReadKeysStep ==
    ASSUME KeysInv, ReaderInv, ReadKeys
    PROVE  ReaderInv'
<1> DEFINE L == agentKeys[Reading]
           S == IF pages = 0 THEN Elements(L) ELSE stable
           e == PageEnd(Reading, offset, KeyLimit)
<1>1. /\ L \in Seq(Pubkeys) /\ Len(L) \in Nat /\ DOMAIN L = 1 .. Len(L)
      /\ \A i, j \in DOMAIN L : L[i] = L[j] => i = j
  <2>1. L \in Seq(Pubkeys)
    BY ReadingAssumption DEF KeysInv, TEETypeOK
  <2>2. \A i, j \in DOMAIN L : L[i] = L[j] => i = j
    BY ReadingAssumption DEF KeysInv, KeysAgree, ListedOnce
  <2> QED BY <2>1, <2>2
<1>2. /\ offset \in Nat /\ pages \in Nat /\ removals \in Nat /\ got \in Seq(Pubkeys)
      /\ KeyLimit \in Nat /\ KeyLimit > 0
  BY ReadingAssumption DEF ReaderInv
<1>3. /\ pages' = pages + 1 /\ offset' = NextOffset(Reading, offset, KeyLimit)
      /\ got' = got \o Page(Reading, offset, KeyLimit)
      /\ stable' = S /\ removals' = removals /\ focus' = focus /\ focus = "keys"
      /\ agentKeys' = agentKeys /\ ~Done
  BY DEF ReadKeys, KeySet, Elements, keyReader, countReader, registryVars
<1>4. Reads(L, S, got, offset, removals)
  <2>1. CASE pages = 0
    <3>1. /\ got = <<>> /\ offset = 0 /\ removals = 0 /\ S = Elements(L)
          /\ DOMAIN got = {} /\ Elements(got) = {}
      BY <2>1 DEF ReaderInv, Elements
    <3>2. PassedBy(L, S, got, offset) = {}
      BY <1>1, <3>1 DEF PassedBy
    <3> HIDE DEF L, S
    <3>3. IsFiniteSet(PassedBy(L, S, got, offset)) /\ Cardinality(PassedBy(L, S, got, offset)) <= removals
      <4>1. IsFiniteSet({}) /\ Cardinality({}) = 0
        BY FS_EmptySet
      <4> QED BY <1>2, <3>2, <4>1
    <3> QED BY <3>1, <3>3 DEF Reads
  <2>2. CASE pages # 0
    BY <1>2, <1>3, <2>2 DEF ReaderInv, MidRead, Done
  <2> QED BY <2>1, <2>2
<1> HIDE DEF L, S
<1>5. CASE Len(L) <= offset
  <2>1. Page(Reading, offset, KeyLimit) = <<>> /\ offset' = 0
    BY <1>1, <1>2, <1>3, <1>5 DEF Page, NextOffset, L
  <2>2. got' = got
    BY <1>2, <1>3, <2>1
  <2>3. IsFiniteSet(S \ Elements(got)) /\ Cardinality(S \ Elements(got)) <= removals
    BY <1>1, <1>2, <1>4, <1>5, ReadToTheEnd
  <2>4. \A i, j \in DOMAIN got : got[i] = got[j] /\ got[i] \in S => i = j
    BY <1>4 DEF Reads
  <2> QED BY <1>2, <1>3, <2>1, <2>2, <2>3, <2>4 DEF ReaderInv, MidRead, Done
<1>6. CASE offset < Len(L)
  <2>1. e \in Nat /\ offset < e /\ e <= Len(L)
    BY <1>1, <1>2, <1>6 DEF PageEnd, L
  <2>2. Page(Reading, offset, KeyLimit) = SubSeq(L, offset + 1, e)
    <3>1. ~(offset >= Len(agentKeys[Reading]))
      BY <1>1, <1>2, <1>6 DEF L
    <3>2. Page(Reading, offset, KeyLimit) = SubSeq(agentKeys[Reading], offset + 1, e)
      BY <3>1 DEF Page
    <3> QED BY <3>2 DEF L
  <2>3. offset' = IF e < Len(L) THEN e ELSE 0
    BY <1>3, <1>6 DEF NextOffset, L
  <2> HIDE DEF e
  <2>4. got' \in Seq(Pubkeys) /\ Reads(L, S, got', e, removals)
    BY <1>1, <1>2, <1>3, <1>4, <1>6, <2>1, <2>2, PageRead
  <2>5. \A i, j \in DOMAIN got' : got'[i] = got'[j] /\ got'[i] \in S => i = j
    BY <2>4 DEF Reads
  <2>6. CASE e < Len(L)
    <3>1. offset' = e /\ offset' > 0
      BY <1>2, <2>1, <2>3, <2>6
    <3>2. /\ pages' \in Nat /\ pages' # 0 /\ offset' \in Nat /\ ~Done'
          /\ Reads(agentKeys'[Reading], stable', got', offset', removals')
      BY <1>2, <1>3, <2>1, <2>4, <3>1 DEF Done, L
    <3>3. \A i, j \in DOMAIN got' : got'[i] = got'[j] /\ got'[i] \in stable' => i = j
      BY <1>3, <2>5
    <3>4. removals' \in Nat /\ got' \in Seq(Pubkeys) /\ focus' = "keys"
      BY <1>2, <1>3, <2>4
    <3>5. ~(focus' = "keys" /\ Done')
      BY <3>2
    <3>6. ~(pages' = 0 \/ focus' # "keys")
      BY <3>2, <3>4
    <3> QED BY <3>2, <3>3, <3>4, <3>5, <3>6 DEF ReaderInv
  <2>7. CASE e = Len(L)
    <3>1. IsFiniteSet(S \ Elements(got')) /\ Cardinality(S \ Elements(got')) <= removals
      BY <1>1, <1>2, <2>1, <2>4, <2>7, ReadToTheEnd
    <3>2. offset' = 0
      BY <2>3, <2>7, <1>1
    <3> QED BY <1>2, <1>3, <2>4, <2>5, <3>1, <3>2 DEF ReaderInv, MidRead, Done
  <2>8. e < Len(L) \/ e = Len(L)
    <3>1. \A x, y \in Nat : x <= y => x < y \/ x = y
      OBVIOUS
    <3> QED BY <1>1, <2>1, <3>1, Zenon
  <2> QED BY <2>6, <2>7, <2>8
<1> QED BY <1>1, <1>2, <1>5, <1>6

(* A transaction on the registry, between two pages or outside a read.     *)
LEMMA KeysChangeStep ==
    ASSUME KeysInv, ReaderInv, KeysChange
    PROVE  ReaderInv'
<1> DEFINE L == agentKeys[Reading]
           M == agentKeys'[Reading]
<1>1. /\ TEENext /\ focus = "keys" /\ focus' = focus
      /\ offset' = offset /\ pages' = pages /\ got' = got
  BY DEF KeysChange
<1>2. /\ offset \in Nat /\ pages \in Nat /\ removals \in Nat /\ got \in Seq(Pubkeys)
      /\ L \in Seq(Pubkeys) /\ Len(L) \in Nat
  BY ReadingAssumption DEF ReaderInv, KeysInv, TEETypeOK
<1>3. CASE ~MidRead
  <2>1. stable' = stable /\ removals' = removals
    BY <1>3 DEF KeysChange
  <2> QED BY <1>1, <1>2, <1>3, <2>1 DEF ReaderInv, MidRead, Done
<1>4. CASE MidRead
  <2>1. /\ stable' = stable \cap Elements(M)
        /\ removals' = IF Len(M) < Len(L) THEN removals + 1 ELSE removals
    BY <1>4 DEF KeysChange, KeySet, Elements
  <2>2. Reads(L, stable, got, offset, removals)
    BY <1>1, <1>4 DEF ReaderInv
  <2>3. stable \subseteq Elements(L)
    BY <2>2 DEF Reads
  <2>4. Reads(M, stable', got, offset, removals') /\ removals' \in Nat
    <3>1. CASE M = L
      <4>1. stable' = stable /\ removals' = removals
        BY <1>2, <2>1, <2>3, <3>1
      <4> QED BY <1>2, <2>2, <3>1, <4>1
    <3>2. ASSUME NEW k \in Pubkeys, k \notin Elements(L), M = Append(L, k)
          PROVE  Reads(M, stable', got, offset, removals') /\ removals' \in Nat
      <4> HIDE DEF L, M
      <4>1. Reads(M, stable, got, offset, removals)
        BY <1>2, <2>2, <3>2, ListGrows
      <4>2. stable' = stable
        BY <2>1, <4>1 DEF Reads
      <4>3. removals' = removals
        BY <1>2, <2>1, <3>2
      <4> QED BY <1>2, <4>1, <4>2, <4>3
    <3>3. ASSUME NEW k \in Pubkeys, Len(L) > 0, M = SwapAndPop(L, k)
          PROVE  Reads(M, stable', got, offset, removals') /\ removals' \in Nat
      <4> HIDE DEF L, M
      <4>1. Reads(M, stable \cap Elements(M), got, offset, removals + 1)
        BY <1>2, <2>2, <3>3, ListShrinks
      <4>2. Len(M) = Len(L) - 1
        BY <1>2, <3>3 DEF SwapAndPop
      <4>3. removals' = removals + 1
        BY <1>2, <2>1, <4>2
      <4> QED BY <1>2, <2>1, <4>1, <4>3
    <3> QED BY <1>1, <3>1, <3>2, <3>3, ListSteps, ReadingAssumption
  <2>5. \A i, j \in DOMAIN got : got[i] = got[j] /\ got[i] \in stable' => i = j
    BY <2>4 DEF Reads
  <2> QED BY <1>1, <1>2, <1>4, <2>4, <2>5 DEF ReaderInv, MidRead, Done
<1> QED BY <1>3, <1>4

LEMMA ReadStep == KeysInv /\ ReaderInv /\ [ReadNext]_readVars => (KeysInv /\ ReaderInv)'
<1> SUFFICES ASSUME KeysInv, ReaderInv, [ReadNext]_readVars PROVE KeysInv' /\ ReaderInv'
  OBVIOUS
<1>1. CASE KeysChange
  <2>1. TEENext
    BY <1>1 DEF KeysChange
  <2> QED BY <1>1, <2>1, NextKeepsKeys, KeysChangeStep
<1>2. CASE FeedbackChange
  <2>1. \/ OwnershipNext /\ UNCHANGED registryVars
        \/ UNCHANGED teeVars
    BY <1>2 DEF FeedbackChange, FeedbackNext, FeedbackBy, GiveFeedback, RevokeFeedback, AppendResponse,
         teeVars
  <2>2. [TEENext]_teeVars
    BY <2>1 DEF TEENext
  <2>3. ReaderInv'
    BY <1>2 DEF FeedbackChange, ReaderInv, MidRead, Done, keyReader
  <2> QED BY <2>2, <2>3, NextKeepsKeys
<1>3. CASE ReadKeys
  <2>1. UNCHANGED teeVars
    BY <1>3 DEF ReadKeys, teeVars, feedbackVars
  <2> QED BY <1>3, <2>1, NextKeepsKeys, ReadKeysStep
<1>4. CASE ReadCounts
  <2>1. UNCHANGED teeVars
    BY <1>4 DEF ReadCounts, teeVars, feedbackVars
  <2>2. /\ focus = "feedback" /\ focus' = focus /\ pages' = pages + 1 /\ pages \in Nat
        /\ got' = got /\ stable' = stable /\ removals' = removals
    BY <1>4 DEF ReadCounts, keyReader, ReaderInv
  <2>3. offset' \in Nat
    BY <1>4, ReadingAssumption DEF ReadCounts, NextPage, ReaderInv
  <2>4. got = <<>> /\ stable = {} /\ removals = 0 /\ got \in Seq(Pubkeys)
    BY <2>2 DEF ReaderInv
  <2>5. ReaderInv'
    BY <2>2, <2>3, <2>4 DEF ReaderInv
  <2> QED BY <2>1, <2>5, NextKeepsKeys
<1>5. CASE ReadAgain
  <2>1. UNCHANGED teeVars
    BY <1>5 DEF ReadAgain, teeVars, feedbackVars
  <2>2. /\ pages' = 0 /\ got' = <<>> /\ stable' = {} /\ removals' = 0 /\ offset' = 0
        /\ got' \in Seq(Pubkeys)
    BY <1>5 DEF ReadAgain, Done
  <2>3. ReaderInv'
    BY <2>2 DEF ReaderInv, MidRead, Done
  <2> QED BY <2>1, <2>3, NextKeepsKeys
<1>6. CASE UNCHANGED readVars
  <2>1. UNCHANGED teeVars
    BY <1>6 DEF readVars, teeVars, feedbackVars
  <2>2. ReaderInv'
    BY <1>6 DEF readVars, ReaderInv, MidRead, Done, keyReader, registryVars
  <2> QED BY <2>1, <2>2, NextKeepsKeys
<1> QED BY <1>1, <1>2, <1>3, <1>4, <1>5, <1>6 DEF ReadNext

LEMMA ReaderCounts == KeysInv /\ ReaderInv => PagedReadAlmostComplete
<1> SUFFICES ASSUME ReaderInv PROVE PagedReadAlmostComplete OBVIOUS
<1> DEFINE At(k) == {i \in DOMAIN got : got[i] = k}
<1>1. ASSUME NEW k \in stable
      PROVE  /\ Times(k) <= 1
             /\ Times(k) = 0 <=> k \notin Elements(got)
  <2>1. CASE At(k) = {}
    <3>1. Times(k) = 0
      BY <2>1, FS_EmptySet DEF Times
    <3> QED BY <2>1, <3>1 DEF Elements
  <2>2. ASSUME NEW i \in At(k) PROVE Times(k) = 1 /\ k \in Elements(got)
    <3>1. \A j \in DOMAIN got : got[j] = k => j = i
      BY <1>1, <2>2 DEF ReaderInv
    <3>2. At(k) = {i}
      BY <2>2, <3>1
    <3>3. Times(k) = 1
      BY <3>2, FS_Singleton DEF Times
    <3> QED BY <2>2, <3>3 DEF Elements
  <2> QED BY <2>1, <2>2
<1>2. ASSUME Done PROVE Cardinality({k \in stable : Times(k) = 0}) <= removals
  <2>1. {k \in stable : Times(k) = 0} = stable \ Elements(got)
    BY <1>1
  <2>2. CASE focus = "keys"
    BY <1>2, <2>1, <2>2 DEF ReaderInv
  <2>3. CASE focus # "keys"
    <3>1. stable \ Elements(got) = {} /\ removals = 0
      BY <2>3 DEF ReaderInv
    <3> QED BY <2>1, <3>1, FS_EmptySet
  <2> QED BY <2>2, <2>3
<1> QED BY <1>1, <1>2 DEF PagedReadAlmostComplete

(* A finished page-by-page read of an agent's keys misses no more of the   *)
(* keys it had all along than there were removals meanwhile, and has none  *)
(* of them twice: for every page size and any number of keys and removals. *)
THEOREM PagedReadCorrect == ReadSpec => []PagedReadAlmostComplete
<1>1. ReadSpec => [](KeysInv /\ ReaderInv)
  BY ReadInitInv, ReadStep, PTL DEF ReadSpec
<1> QED BY <1>1, ReaderCounts, PTL

-----------------------------------------------------------------------------
(* Loops.  Induction over a prefix of the numbers, with a set for the      *)
(* predicate.                                                              *)
LEMMA UpTo ==
    ASSUME NEW N \in Nat, NEW G, 0 \in G, \A k \in 1 .. N : k - 1 \in G => k \in G
    PROVE  0 .. N \subseteq G
<1> DEFINE T == (0 .. N) \ G
<1>1. SUFFICES ASSUME T # {} PROVE FALSE
  OBVIOUS
<1>2. PICK n \in T : \A m \in T : ~(<<m, n>> \in OpToRel(<, Nat))
  <2>1. T \in SUBSET Nat
    OBVIOUS
  <2> HIDE DEF T
  <2> QED BY <1>1, <2>1, WFMin, NatLessThanWellFounded
<1>3. ASSUME NEW m \in T, m < n PROVE FALSE
  <2>1. m \in Nat /\ n \in Nat
    OBVIOUS
  <2> HIDE DEF T
  <2> QED BY <1>2, <1>3, <2>1 DEF OpToRel
<1>4. n \in 1 .. N /\ n - 1 \in 0 .. N /\ n - 1 < n
  OBVIOUS
<1> QED BY <1>3, <1>4

(* A loop whose turns go from S to S has a run.                            *)
HasRun(N, S, start, step) ==
    \E f \in [0 .. N -> S] : f[0] = start /\ \A n \in 1 .. N : f[n] = step[n][f[n - 1]]

LEMMA LoopRuns ==
    ASSUME NEW N \in Nat, NEW S, NEW start \in S, NEW step,
           \A n \in 1 .. N : \A x \in S : step[n][x] \in S
    PROVE  HasRun(N, S, start, step)
<1> DEFINE Turn(f, n) == f[n] = IF n = 0 THEN start ELSE step[n][f[n - 1]]
           Runs(k) == \E f \in [0 .. k -> S] : \A n \in 0 .. k : Turn(f, n)
           G == {k \in 0 .. N : Runs(k)}
<1>1. 0 \in G
  <2> DEFINE f == [n \in 0 .. 0 |-> start]
  <2>1. f \in [0 .. 0 -> S] /\ \A n \in 0 .. 0 : Turn(f, n)
    OBVIOUS
  <2>2. Runs(0)
    BY <2>1
  <2> HIDE DEF Runs
  <2> QED BY <2>2
<1>2. ASSUME NEW k \in 1 .. N, k - 1 \in G PROVE k \in G
  <2>1. PICK f \in [0 .. k - 1 -> S] : \A n \in 0 .. k - 1 : Turn(f, n)
    BY <1>2
  <2> DEFINE g == [n \in 0 .. k |-> IF n < k THEN f[n] ELSE step[k][f[k - 1]]]
  <2>2. g \in [0 .. k -> S]
    BY <2>1
  <2>3. ASSUME NEW n \in 0 .. k PROVE Turn(g, n)
    <3>1. CASE n = k
      <4>1. k \in 0 .. k /\ k - 1 \in 0 .. k /\ k - 1 < k /\ k # 0
        OBVIOUS
      <4>2. g[k] = step[k][f[k - 1]] /\ g[k - 1] = f[k - 1]
        BY <4>1
      <4> HIDE DEF g
      <4> QED BY <3>1, <4>1, <4>2
    <3>2. CASE n # k
      <4>1. n \in 0 .. k - 1 /\ (n # 0 => n - 1 \in 0 .. k - 1)
        BY <3>2
      <4>2. g[n] = f[n] /\ (n # 0 => g[n - 1] = f[n - 1])
        BY <4>1
      <4> HIDE DEF g
      <4> QED BY <4>1, <4>2, <2>1
    <3> QED BY <3>1, <3>2
  <2>4. Runs(k)
    <3> HIDE DEF g
    <3> QED BY <2>2, <2>3
  <2> HIDE DEF Runs
  <2> QED BY <2>4
<1>3. N \in G
  <2>1. 0 .. N \subseteq G
    <3> HIDE DEF G
    <3> QED BY <1>1, <1>2, UpTo
  <2> QED BY <2>1
<1>4. PICK f \in [0 .. N -> S] : \A n \in 0 .. N : Turn(f, n)
  BY <1>3
<1>5. f[0] = start
  BY <1>4
<1>6. ASSUME NEW n \in 1 .. N PROVE f[n] = step[n][f[n - 1]]
  <2>1. n \in 0 .. N /\ n # 0
    OBVIOUS
  <2> QED BY <1>4, <2>1
<1> QED BY <1>4, <1>5, <1>6 DEF HasRun

(* What holds at the start of a loop and is kept by its turns holds at its *)
(* end.                                                                    *)
LEMMA LoopKeeps ==
    ASSUME NEW N \in Nat, NEW f, NEW I, f[0] \in I[0],
           \A n \in 1 .. N : f[n - 1] \in I[n - 1] => f[n] \in I[n]
    PROVE  f[N] \in I[N]
<1> DEFINE G == {k \in 0 .. N : f[k] \in I[k]}
<1>1. 0 \in G /\ \A k \in 1 .. N : k - 1 \in G => k \in G
  OBVIOUS
<1>2. 0 .. N \subseteq G
  <2> HIDE DEF G
  <2> QED BY <1>1, UpTo
<1> QED BY <1>2

-----------------------------------------------------------------------------
(* Powers of ten.                                                          *)

LEMMA TenToDefined ==
    /\ TenTo \in [0 .. MaxDecimals -> Int]
    /\ \A n \in 0 .. MaxDecimals : TenTo[n] = IF n = 0 THEN 1 ELSE 10 * TenTo[n - 1]
<1>0. MaxDecimals \in Nat
  BY ReputationAssumption
<1> DEFINE times == [n \in 1 .. MaxDecimals |-> [x \in Int |-> 10 * x]]
<1>1. \A n \in 1 .. MaxDecimals : \A x \in Int : times[n][x] \in Int
  OBVIOUS
<1>2. PICK f \in [0 .. MaxDecimals -> Int] :
          f[0] = 1 /\ \A n \in 1 .. MaxDecimals : f[n] = times[n][f[n - 1]]
  <2> HIDE DEF times
  <2>1. HasRun(MaxDecimals, Int, 1, times)
    BY <1>0, <1>1, LoopRuns
  <2> QED BY <2>1 DEF HasRun
<1>3. f = [n \in 0 .. MaxDecimals |-> IF n = 0 THEN 1 ELSE 10 * f[n - 1]]
  <2>1. ASSUME NEW n \in 0 .. MaxDecimals, n # 0 PROVE f[n] = 10 * f[n - 1]
    <3>1. n \in 1 .. MaxDecimals /\ f[n - 1] \in Int
      BY <1>0, <2>1
    <3> QED BY <1>2, <2>1, <3>1
  <2> QED BY <1>2, <2>1
<1>4. TenTo = [n \in 0 .. MaxDecimals |-> IF n = 0 THEN 1 ELSE 10 * TenTo[n - 1]]
  BY <1>3 DEF TenTo
<1>5. \A n \in 0 .. MaxDecimals : TenTo[n] \in Int
  <2> DEFINE G == {n \in 0 .. MaxDecimals : TenTo[n] \in Int}
  <2>1. 0 \in G
    BY <1>0, <1>4
  <2>2. ASSUME NEW k \in 1 .. MaxDecimals, k - 1 \in G PROVE k \in G
    <3>1. k \in 0 .. MaxDecimals /\ k # 0 /\ TenTo[k - 1] \in Int
      BY <1>0, <2>2
    <3>2. TenTo[k] = 10 * TenTo[k - 1]
      BY <1>4, <3>1
    <3> QED BY <3>1, <3>2
  <2> HIDE DEF G
  <2>3. 0 .. MaxDecimals \subseteq G
    BY <1>0, <2>1, <2>2, UpTo
  <2> QED BY <2>3 DEF G
<1> QED BY <1>4, <1>5

LEMMA TenToSum ==
    ASSUME NEW m \in 0 .. MaxDecimals, NEW n \in 0 .. MaxDecimals, m + n <= MaxDecimals
    PROVE  TenTo[m + n] = TenTo[m] * TenTo[n]
<1>0. MaxDecimals \in Nat
  BY ReputationAssumption
<1> DEFINE G == {k \in 0 .. n : TenTo[m + k] = TenTo[m] * TenTo[k]}
<1>1. 0 \in G
  <2>1. TenTo[0] = 1 /\ m + 0 = m /\ TenTo[m] \in Int
    BY <1>0, TenToDefined
  <2> QED BY <1>0, <2>1
<1>2. ASSUME NEW k \in 1 .. n, k - 1 \in G PROVE k \in G
  <2>1. /\ m + k \in 0 .. MaxDecimals /\ m + k # 0 /\ (m + k) - 1 = m + (k - 1)
        /\ k \in 0 .. MaxDecimals /\ k # 0 /\ k - 1 \in 0 .. MaxDecimals
        /\ k - 1 \in 0 .. n /\ k \in 0 .. n
    BY <1>0
  <2>2. TenTo[m + k] = 10 * TenTo[m + (k - 1)] /\ TenTo[k] = 10 * TenTo[k - 1]
    BY <2>1, TenToDefined
  <2>3. TenTo[m + (k - 1)] = TenTo[m] * TenTo[k - 1]
    BY <1>2
  <2>4. TenTo[m] \in Int /\ TenTo[k - 1] \in Int
    BY <2>1, TenToDefined
  <2>5. \A x \in Int, y \in Int : 10 * (x * y) = x * (10 * y)
    OBVIOUS
  <2>6. TenTo[m + k] = TenTo[m] * TenTo[k]
    BY <2>2, <2>3, <2>4, <2>5
  <2> QED BY <2>1, <2>6
<1>3. 0 .. n \subseteq G
  <2> HIDE DEF G
  <2> QED BY <1>1, <1>2, UpTo
<1>4. n \in G
  <2> HIDE DEF G
  <2> QED BY <1>0, <1>3
<1> QED BY <1>4

-----------------------------------------------------------------------------
(* Sums over a finite set, whatever the order they are made in.            *)

LEMMA Subsets ==
    ASSUME NEW D, IsFiniteSet(D), NEW s \in SUBSET D
    PROVE  /\ IsFiniteSet(s) /\ Cardinality(s) \in Nat
           /\ Cardinality(s) <= Cardinality(D) /\ Cardinality(D) \in Nat
           /\ Cardinality(s) = 0 <=> s = {}
           /\ \A x \in s : Cardinality(s \ {x}) = Cardinality(s) - 1
<1>1. IsFiniteSet(s) /\ Cardinality(s) <= Cardinality(D)
  BY FS_Subset
<1>2. Cardinality(s) \in Nat /\ Cardinality(D) \in Nat
  BY <1>1, FS_CardinalityType
<1>3. Cardinality(s) = 0 <=> s = {}
  BY <1>1, FS_EmptySet
<1>4. \A x \in s : Cardinality(s \ {x}) = Cardinality(s) - 1
  BY <1>1, FS_RemoveElement
<1> QED BY <1>1, <1>2, <1>3, <1>4

Some(s) == CHOOSE x \in s : TRUE
Small(D, k) == {s \in SUBSET D : Cardinality(s) <= k}

(* What FoldFunctionOnSet computes for a subset.                           *)
SumOf(f, it, s) == IF s = {} THEN 0 ELSE f[Some(s)] + it[s \ {Some(s)}]

LEMMA SumRuns ==
    ASSUME NEW D, IsFiniteSet(D), NEW f \in [D -> Int]
    PROVE  \E it \in [SUBSET D -> Int] : \A s \in SUBSET D : it[s] = SumOf(f, it, s)
<1> DEFINE Runs(k) == \E it \in [Small(D, k) -> Int] :
                          \A s \in Small(D, k) : it[s] = SumOf(f, it, s)
           G == {k \in 0 .. Cardinality(D) : Runs(k)}
<1>0. Cardinality(D) \in Nat
  BY FS_CardinalityType
<1>1. 0 \in G
  <2> DEFINE it == [s \in Small(D, 0) |-> 0]
  <2>1. \A s \in Small(D, 0) : s = {}
    BY Subsets DEF Small
  <2>2. it \in [Small(D, 0) -> Int] /\ \A s \in Small(D, 0) : it[s] = SumOf(f, it, s)
    BY <2>1 DEF SumOf
  <2>3. Runs(0)
    BY <2>2
  <2> HIDE DEF Runs
  <2> QED BY <1>0, <2>3
<1>2. ASSUME NEW k \in 1 .. Cardinality(D), k - 1 \in G PROVE k \in G
  <2>1. PICK it \in [Small(D, k - 1) -> Int] : \A s \in Small(D, k - 1) : it[s] = SumOf(f, it, s)
    BY <1>2
  <2> DEFINE next == [s \in Small(D, k) |-> SumOf(f, it, s)]
  <2>2. ASSUME NEW s \in Small(D, k), s # {}
        PROVE  Some(s) \in s /\ Some(s) \in D /\ s \ {Some(s)} \in Small(D, k - 1)
    <3>1. Some(s) \in s /\ s \in SUBSET D /\ Cardinality(s) <= k
      BY <2>2 DEF Some, Small
    <3>2. Cardinality(s) \in Nat /\ Cardinality(s \ {Some(s)}) = Cardinality(s) - 1
      BY <3>1, Subsets
    <3> QED BY <3>1, <3>2 DEF Small
  <2>3. Small(D, k - 1) \subseteq Small(D, k)
    <3> SUFFICES ASSUME NEW s \in Small(D, k - 1) PROVE s \in Small(D, k)
      OBVIOUS
    <3>1. s \in SUBSET D /\ Cardinality(s) \in Nat
      BY Subsets DEF Small
    <3> QED BY <3>1 DEF Small
  <2>4. \A s \in Small(D, k - 1) : next[s] = it[s]
    BY <2>1, <2>3
  <2>5. ASSUME NEW s \in Small(D, k) PROVE next[s] \in Int /\ next[s] = SumOf(f, next, s)
    <3>1. CASE s = {}
      BY <3>1 DEF SumOf
    <3>2. CASE s # {}
      <4>1. next[s] = f[Some(s)] + it[s \ {Some(s)}]
        BY <3>2 DEF SumOf
      <4>2. it[s \ {Some(s)}] = next[s \ {Some(s)}] /\ it[s \ {Some(s)}] \in Int /\ f[Some(s)] \in Int
        BY <2>1, <2>2, <2>4, <3>2
      <4> HIDE DEF next
      <4> QED BY <3>2, <4>1, <4>2 DEF SumOf
    <3> QED BY <3>1, <3>2
  <2>6. Runs(k)
    <3>1. next \in [Small(D, k) -> Int]
      BY <2>5
    <3> HIDE DEF next
    <3> QED BY <2>5, <3>1
  <2> HIDE DEF Runs
  <2> QED BY <2>6
<1>3. Runs(Cardinality(D))
  <2>1. 0 .. Cardinality(D) \subseteq G
    <3> HIDE DEF G
    <3> QED BY <1>0, <1>1, <1>2, UpTo
  <2>2. Cardinality(D) \in G
    <3> HIDE DEF G
    <3> QED BY <1>0, <2>1
  <2> QED BY <2>2
<1>4. Small(D, Cardinality(D)) = SUBSET D
  BY Subsets DEF Small
<1> QED BY <1>3, <1>4

(* Any element may be the last one added.                                  *)
Adds(f, it, D) ==
    \A s \in SUBSET D : /\ it[s] \in Int
                        /\ s = {} => it[s] = 0
                        /\ \A x \in s : it[s] = it[s \ {x}] + f[x]

LEMMA SumAdds ==
    ASSUME NEW D, IsFiniteSet(D), NEW f \in [D -> Int], NEW it,
           \A s \in SUBSET D : it[s] = SumOf(f, it, s)
    PROVE  Adds(f, it, D)
<1> DEFINE Good(s) == /\ it[s] \in Int
                      /\ s = {} => it[s] = 0
                      /\ \A x \in s : it[s] = it[s \ {x}] + f[x]
           G == {k \in 0 .. Cardinality(D) : \A s \in Small(D, k) : Good(s)}
<1>0. Cardinality(D) \in Nat
  BY FS_CardinalityType
<1>1. it[{}] = 0
  BY DEF SumOf
<1>2. 0 \in G
  <2>1. \A s \in Small(D, 0) : s = {}
    BY Subsets DEF Small
  <2>2. Good({})
    BY <1>1
  <2> HIDE DEF Good
  <2> QED BY <1>0, <2>1, <2>2
<1>3. ASSUME NEW k \in 1 .. Cardinality(D), k - 1 \in G PROVE k \in G
  <2>1. \A s \in Small(D, k - 1) : Good(s)
    BY <1>3
  <2>2. ASSUME NEW s \in Small(D, k), s # {} PROVE Good(s)
    <3> DEFINE x == Some(s)
    <3>1. x \in s /\ s \in SUBSET D /\ Cardinality(s) <= k
      BY <2>2 DEF Some, Small
    <3>2. it[s] = f[x] + it[s \ {x}]
      BY <2>2, <3>1 DEF SumOf
    <3> HIDE DEF x
    <3>3. \A y \in s : s \ {y} \in Small(D, k - 1) /\ f[y] \in Int
      <4> SUFFICES ASSUME NEW y \in s PROVE s \ {y} \in Small(D, k - 1) /\ f[y] \in Int
        OBVIOUS
      <4>1. Cardinality(s) \in Nat /\ Cardinality(s \ {y}) = Cardinality(s) - 1
        BY <3>1, Subsets
      <4> QED BY <3>1, <4>1 DEF Small
    <3>4. \A y \in s : it[s \ {y}] \in Int
      BY <2>1, <3>3
    <3>5. ASSUME NEW y \in s, y # x PROVE it[s] = it[s \ {y}] + f[y]
      <4>1. it[s \ {x}] = it[(s \ {x}) \ {y}] + f[y]
        BY <2>1, <3>3, <3>5, <3>1
      <4>2. it[s \ {y}] = it[(s \ {y}) \ {x}] + f[x]
        BY <2>1, <3>3, <3>5, <3>1
      <4>3. (s \ {x}) \ {y} = (s \ {y}) \ {x}
        OBVIOUS
      <4>4. it[(s \ {y}) \ {x}] \in Int
        <5>1. (s \ {y}) \ {x} \in Small(D, k - 1)
          <6>1. s \ {y} \in SUBSET D /\ Cardinality(s \ {y}) <= k - 1 /\ x \in s \ {y}
            BY <3>1, <3>3, <3>5 DEF Small
          <6>2. /\ Cardinality(s \ {y}) \in Nat
                /\ Cardinality((s \ {y}) \ {x}) = Cardinality(s \ {y}) - 1
            BY <6>1, Subsets
          <6> QED BY <6>1, <6>2 DEF Small
        <5> QED BY <2>1, <5>1
      <4>5. it[s] = f[x] + (it[(s \ {y}) \ {x}] + f[y])
        BY <3>2, <4>1, <4>3
      <4>6. \A a \in Int, b \in Int, c \in Int : a + (b + c) = (b + a) + c
        OBVIOUS
      <4>7. f[x] \in Int /\ f[y] \in Int
        BY <3>1, <3>3
      <4> QED BY <4>2, <4>4, <4>5, <4>6, <4>7
    <3>6. it[s] = it[s \ {x}] + f[x] /\ it[s] \in Int
      <4>1. f[x] \in Int /\ it[s \ {x}] \in Int
        BY <3>1, <3>3, <3>4
      <4>2. \A a \in Int, b \in Int : a + b = b + a /\ a + b \in Int
        OBVIOUS
      <4> QED BY <3>2, <4>1, <4>2
    <3> QED BY <2>2, <3>5, <3>6
  <2>3. Good({})
    BY <1>1
  <2> HIDE DEF Good
  <2>4. \A s \in Small(D, k) : Good(s)
    BY <2>2, <2>3
  <2> QED BY <2>4
<1>4. 0 .. Cardinality(D) \subseteq G
  <2> HIDE DEF G
  <2> QED BY <1>0, <1>2, <1>3, UpTo
<1>5. Cardinality(D) \in G
  <2> HIDE DEF G
  <2> QED BY <1>0, <1>4
<1>6. Small(D, Cardinality(D)) = SUBSET D
  BY Subsets DEF Small
<1> QED BY <1>5, <1>6 DEF Adds

LEMMA SumIsSum ==
    ASSUME NEW D, IsFiniteSet(D), NEW f \in [D -> Int]
    PROVE  \E it : Adds(f, it, D) /\ SumFunction(f) = it[D]
<1> DEFINE run == CHOOSE it : it = [s \in SUBSET D |->
                      IF s = {} THEN 0
                      ELSE f[CHOOSE x \in s : TRUE] + it[s \ {CHOOSE x \in s : TRUE}]]
<1>1. SumFunction(f) = run[D]
  BY DEF SumFunction, SumFunctionOnSet, FoldFunctionOnSet, MapThenFoldSet
<1>2. \E it : it = [s \in SUBSET D |->
                      IF s = {} THEN 0
                      ELSE f[CHOOSE x \in s : TRUE] + it[s \ {CHOOSE x \in s : TRUE}]]
  <2>1. PICK it \in [SUBSET D -> Int] : \A s \in SUBSET D : it[s] = SumOf(f, it, s)
    BY SumRuns
  <2>2. it = [s \in SUBSET D |-> SumOf(f, it, s)]
    BY <2>1
  <2> QED BY <2>2 DEF SumOf, Some
<1>3. run = [s \in SUBSET D |->
                      IF s = {} THEN 0
                      ELSE f[CHOOSE x \in s : TRUE] + run[s \ {CHOOSE x \in s : TRUE}]]
  BY <1>2
<1> HIDE DEF run
<1>4. \A s \in SUBSET D : run[s] = SumOf(f, run, s)
  BY <1>3 DEF SumOf, Some
<1>5. Adds(f, run, D)
  BY <1>4, SumAdds
<1> QED BY <1>1, <1>5

(* A sum that is scaled, and a sum with one more.                          *)
Scaled(f, g, D, k) == \A p \in D : f[p] \in Int /\ g[p] = f[p] * k
IsScaled(it, jt, D, k) == jt[D] = it[D] * k

LEMMA SumsScale ==
    ASSUME NEW E, IsFiniteSet(E), NEW D \in SUBSET E, NEW f, NEW g, NEW k \in Int,
           Scaled(f, g, D, k), NEW it, Adds(f, it, D), NEW jt, Adds(g, jt, E)
    PROVE  IsScaled(it, jt, D, k)
<1> DEFINE Good(s) == jt[s] = it[s] * k
           G == {n \in 0 .. Cardinality(D) : \A s \in Small(D, n) : Good(s)}
<1>0. IsFiniteSet(D) /\ Cardinality(D) \in Nat
  BY FS_Subset, FS_CardinalityType
<1>1. Good({})
  BY DEF Adds
<1>2. 0 \in G
  <2>1. \A s \in Small(D, 0) : s = {}
    BY <1>0, Subsets DEF Small
  <2> HIDE DEF Good
  <2>2. \A s \in Small(D, 0) : Good(s)
    BY <1>1, <2>1
  <2> QED BY <1>0, <2>2
<1>3. ASSUME NEW n \in 1 .. Cardinality(D), n - 1 \in G PROVE n \in G
  <2>1. ASSUME NEW s \in Small(D, n), s # {} PROVE Good(s)
    <3>1. PICK x : x \in s
      BY <2>1
    <3>2. s \in SUBSET D /\ s \in SUBSET E /\ x \in D /\ Cardinality(s) <= n
      BY <3>1 DEF Small
    <3>3. s \ {x} \in Small(D, n - 1)
      <4>1. Cardinality(s) \in Nat /\ Cardinality(s \ {x}) = Cardinality(s) - 1
        BY <1>0, <3>1, <3>2, Subsets
      <4> QED BY <3>2, <4>1 DEF Small
    <3>4. jt[s \ {x}] = it[s \ {x}] * k
      BY <1>3, <3>3
    <3>5. it[s] = it[s \ {x}] + f[x] /\ it[s \ {x}] \in Int
      BY <3>1, <3>2 DEF Adds
    <3>6. jt[s] = jt[s \ {x}] + g[x]
      BY <3>1, <3>2 DEF Adds
    <3>7. \A a \in Int, b \in Int : a * k + b * k = (a + b) * k
      OBVIOUS
    <3>8. f[x] \in Int /\ g[x] = f[x] * k
      BY <3>2 DEF Scaled
    <3> QED BY <3>4, <3>5, <3>6, <3>7, <3>8
  <2> HIDE DEF Good
  <2>2. \A s \in Small(D, n) : Good(s)
    BY <1>1, <2>1
  <2> QED BY <2>2
<1>4. Cardinality(D) \in G
  <2> HIDE DEF G
  <2>1. 0 .. Cardinality(D) \subseteq G
    BY <1>0, <1>2, <1>3, UpTo
  <2> QED BY <1>0, <2>1
<1>5. D \in Small(D, Cardinality(D))
  BY <1>0 DEF Small
<1> QED BY <1>4, <1>5 DEF IsScaled

Grows(f, g, e, k) == SumFunction(g) = SumFunction(f) * k + g[e]

LEMMA SumGrows ==
    ASSUME NEW D, IsFiniteSet(D), NEW e, e \notin D, NEW k \in Int,
           NEW f \in [D -> Int], NEW g \in [D \cup {e} -> Int],
           Scaled(f, g, D, k)
    PROVE  Grows(f, g, e, k)
<1>1. IsFiniteSet(D \cup {e})
  BY FS_AddElement
<1>2. PICK it : Adds(f, it, D) /\ SumFunction(f) = it[D]
  BY SumIsSum
<1>3. PICK jt : Adds(g, jt, D \cup {e}) /\ SumFunction(g) = jt[D \cup {e}]
  BY <1>1, SumIsSum
<1>4. jt[D] = it[D] * k
  <2>1. D \in SUBSET (D \cup {e}) /\ Scaled(f, g, D, k)
    OBVIOUS
  <2>2. IsScaled(it, jt, D, k)
    BY <1>1, <1>2, <1>3, <2>1, SumsScale
  <2> QED BY <2>2 DEF IsScaled
<1>5. jt[D \cup {e}] = jt[D] + g[e]
  <2>1. (D \cup {e}) \ {e} = D
    OBVIOUS
  <2> QED BY <1>3, <2>1 DEF Adds
<1> QED BY <1>2, <1>3, <1>4, <1>5 DEF Grows

LEMMA SumOfNone == ASSUME NEW f, f \in [{} -> Int] PROVE SumFunction(f) = 0
<1>1. PICK it : Adds(f, it, {}) /\ SumFunction(f) = it[{}]
  BY FS_EmptySet, SumIsSum
<1> QED BY <1>1 DEF Adds

LEMMA SumType == ASSUME NEW D, IsFiniteSet(D), NEW f \in [D -> Int] PROVE SumFunction(f) \in Int
<1>1. PICK it : Adds(f, it, D) /\ SumFunction(f) = it[D]
  BY SumIsSum
<1> QED BY <1>1 DEF Adds

-----------------------------------------------------------------------------
(* Feedback and its summary.                                               *)

FeedbackRecord == [value : Int, valueDecimals : 0 .. MaxDecimals, tag : Tags,
                   isRevoked : BOOLEAN, linkOf : {"client", "owner"}]

Distinct(s) == \A i, j \in DOMAIN s : s[i] = s[j] => i = j

(* The clients are listed once each, all those there is feedback of.       *)
FeedbackInv ==
    /\ feedback \in [AgentIds -> [Accounts -> Seq(FeedbackRecord)]]
    /\ clients \in [AgentIds -> Seq(Accounts)]
    /\ isClient \in [AgentIds -> SUBSET Accounts]
    /\ \A a \in AgentIds :
          /\ isClient[a] = Elements(clients[a])
          /\ Distinct(clients[a])
          /\ \A c \in Accounts : feedback[a][c] # <<>> => c \in isClient[a]

Acc == [count : Nat, decimals : 0 .. MaxDecimals, sum : Int]
Fb(a, p) == feedback[a][p[1]][p[2]]
Places(a) == {p \in Accounts \X Nat : p[2] \in DOMAIN feedback[a][p[1]]}
Value(a, p, d) == Fb(a, p).value * TenTo[d - Fb(a, p).valueDecimals]

(* What the loops have when the feedback at P is added: its number, the    *)
(* finest precision among it and the sum at that precision.                *)
Sums(a, P) ==
    {acc \in Acc : /\ acc.count = Cardinality(P)
                   /\ \A p \in P : Fb(a, p).valueDecimals <= acc.decimals
                   /\ acc.decimals = 0 \/ \E p \in P : Fb(a, p).valueDecimals = acc.decimals
                   /\ acc.sum = SumFunction([p \in P |-> Value(a, p, acc.decimals)])}

LEMMA PlacesHold ==
    ASSUME FeedbackInv, NEW a \in AgentIds, NEW p \in Places(a)
    PROVE  /\ Fb(a, p) \in FeedbackRecord
           /\ Fb(a, p).value \in Int /\ Fb(a, p).valueDecimals \in 0 .. MaxDecimals
<1>1. /\ p[1] \in Accounts /\ feedback[a][p[1]] \in Seq(FeedbackRecord)
      /\ p[2] \in DOMAIN feedback[a][p[1]]
  BY DEF FeedbackInv, Places
<1>2. Fb(a, p) \in FeedbackRecord
  BY <1>1 DEF Fb
<1> QED BY <1>2 DEF FeedbackRecord

LEMMA AddedType ==
    ASSUME NEW acc \in Acc, NEW fb \in FeedbackRecord
    PROVE  Added(acc, fb) \in Acc
<1>1. MaxDecimals \in Nat
  BY ReputationAssumption
<1>2. /\ acc = [count |-> acc.count, decimals |-> acc.decimals, sum |-> acc.sum]
      /\ acc.count \in Nat /\ acc.decimals \in 0 .. MaxDecimals /\ acc.sum \in Int
      /\ fb.value \in Int /\ fb.valueDecimals \in 0 .. MaxDecimals
  BY DEF Acc, FeedbackRecord
<1>3. \A x \in Int, y \in Int, z \in Int : x * y + z \in Int /\ z + x * y \in Int
  OBVIOUS
<1>4. CASE fb.valueDecimals > acc.decimals
  <2>1. TenTo[fb.valueDecimals - acc.decimals] \in Int
    BY <1>1, <1>2, <1>4, TenToDefined
  <2>2. acc.sum * TenTo[fb.valueDecimals - acc.decimals] + fb.value \in Int
    BY <1>2, <1>3, <2>1
  <2> QED BY <1>2, <1>4, <2>2 DEF Added, Acc
<1>5. CASE ~(fb.valueDecimals > acc.decimals)
  <2>1. TenTo[acc.decimals - fb.valueDecimals] \in Int
    BY <1>1, <1>2, <1>5, TenToDefined
  <2>2. acc.sum + fb.value * TenTo[acc.decimals - fb.valueDecimals] \in Int
    BY <1>2, <1>3, <2>1
  <2>3. Added(acc, fb) = [count |-> acc.count + 1, decimals |-> acc.decimals,
                          sum |-> acc.sum + fb.value * TenTo[acc.decimals - fb.valueDecimals]]
    BY <1>5 DEF Added, Acc
  <2> QED BY <1>2, <2>2, <2>3 DEF Acc
<1> QED BY <1>4, <1>5

LEMMA ValueType ==
    ASSUME FeedbackInv, NEW a \in AgentIds, NEW p \in Places(a), NEW d \in 0 .. MaxDecimals,
           Fb(a, p).valueDecimals <= d
    PROVE  Value(a, p, d) \in Int
<1>1. MaxDecimals \in Nat
  BY ReputationAssumption
<1>2. Fb(a, p).value \in Int /\ Fb(a, p).valueDecimals \in 0 .. MaxDecimals
  BY PlacesHold
<1>3. TenTo[d - Fb(a, p).valueDecimals] \in Int
  <2>1. d - Fb(a, p).valueDecimals \in 0 .. MaxDecimals
    BY <1>1, <1>2
  <2> QED BY <2>1, TenToDefined
<1>4. \A x \in Int, y \in Int : x * y \in Int
  OBVIOUS
<1> QED BY <1>2, <1>3, <1>4 DEF Value

(* A finer precision scales a value.                                       *)
LEMMA ValueScales ==
    ASSUME FeedbackInv, NEW a \in AgentIds, NEW p \in Places(a), NEW d \in 0 .. MaxDecimals,
           NEW e \in 0 .. MaxDecimals, Fb(a, p).valueDecimals <= d, d <= e
    PROVE  Value(a, p, e) = Value(a, p, d) * TenTo[e - d]
<1> DEFINE k == Fb(a, p).valueDecimals
           v == Fb(a, p).value
<1>1. MaxDecimals \in Nat
  BY ReputationAssumption
<1>2. v \in Int /\ k \in 0 .. MaxDecimals
  BY PlacesHold
<1>3. d - k \in 0 .. MaxDecimals /\ e - d \in 0 .. MaxDecimals /\ (d - k) + (e - d) = e - k
  BY <1>1, <1>2
<1>4. TenTo[e - k] = TenTo[d - k] * TenTo[e - d]
  <2>1. (d - k) + (e - d) <= MaxDecimals
    BY <1>1, <1>2, <1>3
  <2> HIDE DEF k
  <2> QED BY <1>3, <2>1, TenToSum
<1>5. TenTo[d - k] \in Int /\ TenTo[e - d] \in Int
  BY <1>3, TenToDefined
<1>6. \A x \in Int, y \in Int, z \in Int : x * (y * z) = (x * y) * z
  OBVIOUS
<1> QED BY <1>2, <1>4, <1>5, <1>6 DEF Value

LEMMA AddedSums ==
    ASSUME FeedbackInv, NEW a \in AgentIds, NEW P \in SUBSET Places(a), IsFiniteSet(P),
           NEW e \in Places(a), e \notin P, NEW acc \in Sums(a, P)
    PROVE  Added(acc, Fb(a, e)) \in Sums(a, P \cup {e})
<1> DEFINE fb == Fb(a, e)
           new == Added(acc, fb)
           d == acc.decimals
           f == [p \in P |-> Value(a, p, d)]
           g == [p \in P \cup {e} |-> Value(a, p, new.decimals)]
<1>0. MaxDecimals \in Nat
  BY ReputationAssumption
<1>1. /\ acc \in Acc /\ acc.count = Cardinality(P)
      /\ acc.count \in Nat /\ d \in 0 .. MaxDecimals /\ acc.sum \in Int
      /\ acc.sum = SumFunction(f)
  BY DEF Sums, Acc
<1>2. fb \in FeedbackRecord /\ fb.value \in Int /\ fb.valueDecimals \in 0 .. MaxDecimals
  BY PlacesHold
<1>3. new \in Acc
  BY <1>1, <1>2, AddedType
<1>4. new.count = acc.count + 1
  BY <1>1 DEF Added, Acc
<1>5. Cardinality(P \cup {e}) = Cardinality(P) + 1
  BY FS_AddElement
<1>6. /\ d <= new.decimals /\ fb.valueDecimals <= new.decimals
      /\ new.decimals \in 0 .. MaxDecimals
      /\ new.decimals = d \/ new.decimals = fb.valueDecimals
  BY <1>0, <1>1, <1>2 DEF Added, Acc
<1>7. \A p \in P \cup {e} : Fb(a, p).valueDecimals <= new.decimals
  <2>1. ASSUME NEW p \in P PROVE Fb(a, p).valueDecimals <= new.decimals
    <3>1. Fb(a, p).valueDecimals \in 0 .. MaxDecimals
      BY PlacesHold
    <3>2. Fb(a, p).valueDecimals <= d
      BY DEF Sums
    <3> HIDE DEF new
    <3> QED BY <1>0, <1>1, <1>6, <3>1, <3>2
  <2> QED BY <1>6, <2>1
<1>8. new.decimals = 0 \/ \E p \in P \cup {e} : Fb(a, p).valueDecimals = new.decimals
  <2>1. d = 0 \/ \E p \in P : Fb(a, p).valueDecimals = d
    BY DEF Sums
  <2> HIDE DEF new
  <2> QED BY <1>6, <2>1
<1>9. new.sum = SumFunction(g)
  <2> DEFINE k == TenTo[new.decimals - d]
  <2>1. k \in Int
    <3>1. new.decimals - d \in 0 .. MaxDecimals
      BY <1>0, <1>1, <1>6
    <3> QED BY <3>1, TenToDefined
  <2>2. f \in [P -> Int]
    <3>1. \A p \in P : Value(a, p, d) \in Int
      BY <1>1, ValueType DEF Sums
    <3> QED BY <3>1
  <2>3. g \in [P \cup {e} -> Int]
    <3>1. \A p \in P \cup {e} : Value(a, p, new.decimals) \in Int
      BY <1>6, <1>7, ValueType
    <3> QED BY <3>1
  <2>4. Scaled(f, g, P, k)
    <3>1. \A p \in P : Value(a, p, new.decimals) = Value(a, p, d) * k
      BY <1>1, <1>6, ValueScales DEF Sums
    <3>2. \A p \in P : f[p] \in Int
      <4> HIDE DEF f
      <4> QED BY <2>2
    <3> HIDE DEF k
    <3> QED BY <3>1, <3>2 DEF Scaled
  <2>5. SumFunction(g) = SumFunction(f) * k + g[e]
    <3>1. IsFiniteSet(P) /\ e \notin P
      OBVIOUS
    <3> HIDE DEF f, g, k
    <3>2. Grows(f, g, e, k)
      BY <2>1, <2>2, <2>3, <2>4, <3>1, SumGrows
    <3> QED BY <3>2 DEF Grows
  <2>6. g[e] = fb.value * TenTo[new.decimals - fb.valueDecimals]
    BY DEF Value
  <2>7. TenTo[0] = 1
    BY <1>0, TenToDefined
  <2>8. CASE fb.valueDecimals > d
    <3>1. new.decimals = fb.valueDecimals /\ new.sum = acc.sum * TenTo[fb.valueDecimals - d] + fb.value
      BY <2>8 DEF Added
    <3>2. g[e] = fb.value /\ acc.sum * TenTo[fb.valueDecimals - d] = acc.sum * k
      <4>1. new.decimals - fb.valueDecimals = 0
        BY <1>2, <3>1
      <4>2. fb.value * 1 = fb.value
        BY <1>2
      <4> HIDE DEF new, g
      <4> QED BY <2>6, <2>7, <3>1, <4>1, <4>2
    <3> HIDE DEF new, g, f, k
    <3> QED BY <1>1, <2>5, <3>1, <3>2
  <2>9. CASE ~(fb.valueDecimals > d)
    <3>1. /\ new.decimals = d
          /\ new.sum = acc.sum + fb.value * TenTo[d - fb.valueDecimals]
      BY <1>1, <2>9 DEF Added, Acc
    <3>2. k = 1
      <4>1. new.decimals - d = 0
        BY <1>1, <3>1
      <4> QED BY <2>7, <4>1
    <3>3. acc.sum * 1 = acc.sum
      BY <1>1
    <3>4. g[e] = fb.value * TenTo[d - fb.valueDecimals]
      BY <2>6, <3>1
    <3> HIDE DEF new, g, f, k
    <3> QED BY <1>1, <2>5, <3>1, <3>2, <3>3, <3>4
  <2> QED BY <2>8, <2>9
<1> QED
  <2>1. new.count = Cardinality(P \cup {e})
    BY <1>1, <1>4, <1>5
  <2>2. new \in Sums(a, P \cup {e})
    <3> HIDE DEF new
    <3> QED BY <1>3, <1>7, <1>8, <1>9, <2>1 DEF Sums
  <2> QED BY <2>2

-----------------------------------------------------------------------------
(* The loops over the lists.                                               *)

Turn(acc, fb, filter) == IF Counts(fb, filter) THEN Added(acc, fb) ELSE acc

(* f has what the inner loop has after each feedback.                      *)
ListRun(f, acc, list, filter) ==
    /\ f[0] = acc
    /\ \A j \in 1 .. Len(list) : f[j] = Turn(f[j - 1], list[j], filter)

LEMMA ListLoop ==
    ASSUME NEW list \in Seq(FeedbackRecord), NEW acc \in Acc, NEW filter
    PROVE  \E f : ListRun(f, acc, list, filter) /\ AddedList(acc, list, filter) = f[Len(list)]
<1> DEFINE N == Len(list)
           step == [j \in 1 .. N |-> [x \in Acc |-> Turn(x, list[j], filter)]]
           Loop(f) == f = [j \in 0 .. N |->
                             IF j = 0 THEN acc
                             ELSE IF Counts(list[j], filter) THEN Added(f[j - 1], list[j])
                                  ELSE f[j - 1]]
<1>0. N \in Nat /\ \A j \in 1 .. N : list[j] \in FeedbackRecord
  OBVIOUS
<1>1. \A j \in 1 .. N : \A x \in Acc : step[j][x] \in Acc
  <2> SUFFICES ASSUME NEW j \in 1 .. N, NEW x \in Acc PROVE Turn(x, list[j], filter) \in Acc
    OBVIOUS
  <2>1. Added(x, list[j]) \in Acc
    BY <1>0, AddedType
  <2> QED BY <2>1 DEF Turn
<1>2. PICK f \in [0 .. N -> Acc] : f[0] = acc /\ \A j \in 1 .. N : f[j] = step[j][f[j - 1]]
  <2> HIDE DEF step, N
  <2>1. HasRun(N, Acc, acc, step)
    BY <1>0, <1>1, LoopRuns
  <2> QED BY <2>1 DEF HasRun
<1>3. ASSUME NEW j \in 1 .. N PROVE f[j] = Turn(f[j - 1], list[j], filter)
  <2>1. f[j - 1] \in Acc
    BY <1>0
  <2> QED BY <1>2, <2>1
<1>4. Loop(f)
  BY <1>2, <1>3 DEF Turn
<1> DEFINE upTo == CHOOSE g : Loop(g)
<1>5. Loop(upTo)
  <2> HIDE DEF Loop
  <2> QED BY <1>4
<1>6. AddedList(acc, list, filter) = upTo[N]
  BY DEF AddedList
<1> HIDE DEF upTo
<1>7. ListRun(upTo, acc, list, filter)
  <2>1. upTo[0] = acc
    BY <1>0, <1>5
  <2>2. ASSUME NEW j \in 1 .. N PROVE upTo[j] = Turn(upTo[j - 1], list[j], filter)
    <3>1. j \in 0 .. N /\ j # 0
      BY <1>0
    <3> HIDE DEF N
    <3> QED BY <1>5, <3>1 DEF Turn
  <2> QED BY <2>1, <2>2 DEF ListRun
<1> QED BY <1>6, <1>7

(* What counts of the first n feedback of a client, and of the clients on  *)
(* the first n places of a page.                                           *)
OfClient(a, c, filter, n) ==
    {p \in Places(a) : p[1] = c /\ p[2] <= n /\ Counts(Fb(a, p), filter)}
OfPage(a, page, filter, n) ==
    {p \in Places(a) : (\E i \in 1 .. n : page[i] = p[1]) /\ Counts(Fb(a, p), filter)}

Summed(a, P) == {acc \in Sums(a, P) : IsFiniteSet(P)}

LEMMA ListSums ==
    ASSUME FeedbackInv, NEW a \in AgentIds, NEW c \in Accounts, NEW filter,
           NEW P \in SUBSET Places(a), \A p \in P : p[1] # c, NEW acc \in Summed(a, P)
    PROVE  AddedList(acc, feedback[a][c], filter)
              \in Summed(a, P \cup OfClient(a, c, filter, Len(feedback[a][c])))
<1> DEFINE list == feedback[a][c]
           N == Len(list)
           Q(n) == P \cup OfClient(a, c, filter, n)
           I == [n \in 0 .. N |-> Summed(a, Q(n))]
<1>0. list \in Seq(FeedbackRecord) /\ N \in Nat /\ DOMAIN list = 1 .. N
  BY DEF FeedbackInv
<1>1. acc \in Acc
  BY DEF Summed, Sums
<1>2. PICK f : ListRun(f, acc, list, filter) /\ AddedList(acc, list, filter) = f[N]
  <2> HIDE DEF list
  <2> QED BY <1>0, <1>1, ListLoop
<1>3. f[0] \in I[0]
  <2>1. OfClient(a, c, filter, 0) = {}
    BY <1>0 DEF OfClient, Places
  <2>2. Q(0) = P
    BY <2>1
  <2> QED BY <1>0, <1>2, <2>2 DEF ListRun
<1>4. ASSUME NEW n \in 1 .. N, f[n - 1] \in I[n - 1] PROVE f[n] \in I[n]
  <2> DEFINE e == <<c, n>>
  <2>1. n \in 0 .. N /\ n - 1 \in 0 .. N /\ n \in DOMAIN list /\ n \in Nat
    BY <1>0
  <2>2. e \in Places(a) /\ Fb(a, e) = list[n] /\ e[1] = c /\ e[2] = n
    BY <2>1 DEF Places, Fb
  <2>3. f[n - 1] \in Summed(a, Q(n - 1))
    BY <1>4, <2>1
  <2>4. f[n] = Turn(f[n - 1], list[n], filter)
    BY <1>2 DEF ListRun
  <2>5. \A p \in OfClient(a, c, filter, n) : p = e \/ p \in OfClient(a, c, filter, n - 1)
    <3> SUFFICES ASSUME NEW p \in OfClient(a, c, filter, n), p # e
                 PROVE  p \in OfClient(a, c, filter, n - 1)
      OBVIOUS
    <3>1. p = <<p[1], p[2]>> /\ p[1] = c /\ p[2] \in Nat /\ p[2] <= n
      BY DEF OfClient, Places
    <3>2. p[2] # n
      BY <3>1
    <3>3. p[2] <= n - 1
      BY <2>1, <3>1, <3>2
    <3> QED BY <3>3 DEF OfClient
  <2>6. OfClient(a, c, filter, n - 1) \subseteq OfClient(a, c, filter, n)
    <3> SUFFICES ASSUME NEW p \in OfClient(a, c, filter, n - 1) PROVE p \in OfClient(a, c, filter, n)
      OBVIOUS
    <3>1. p[2] \in Nat /\ p[2] <= n - 1
      BY DEF OfClient, Places
    <3>2. p[2] <= n
      BY <2>1, <3>1
    <3> QED BY <3>2 DEF OfClient
  <2>7. CASE Counts(list[n], filter)
    <3>1. e \in OfClient(a, c, filter, n)
      BY <2>2, <2>7, <2>1 DEF OfClient
    <3>2. Q(n) = Q(n - 1) \cup {e}
      BY <2>5, <2>6, <3>1
    <3>3. e \notin Q(n - 1)
      <4>1. e \notin OfClient(a, c, filter, n - 1)
        BY <2>1, <2>2 DEF OfClient
      <4> QED BY <2>2, <4>1
    <3>4. Q(n - 1) \in SUBSET Places(a) /\ IsFiniteSet(Q(n - 1)) /\ f[n - 1] \in Sums(a, Q(n - 1))
      BY <2>3 DEF OfClient, Summed
    <3>5. f[n] = Added(f[n - 1], Fb(a, e))
      BY <2>2, <2>4, <2>7 DEF Turn
    <3> HIDE DEF Q, e
    <3>6. Added(f[n - 1], Fb(a, e)) \in Sums(a, Q(n - 1) \cup {e})
      BY <2>2, <3>3, <3>4, AddedSums
    <3>7. IsFiniteSet(Q(n - 1) \cup {e})
      BY <3>4, FS_AddElement
    <3> QED BY <2>1, <3>2, <3>5, <3>6, <3>7 DEF Summed
  <2>8. CASE ~Counts(list[n], filter)
    <3>1. e \notin OfClient(a, c, filter, n)
      BY <2>2, <2>8 DEF OfClient
    <3>2. Q(n) = Q(n - 1)
      BY <2>5, <2>6, <3>1
    <3>3. f[n] = f[n - 1]
      BY <2>4, <2>8 DEF Turn
    <3> HIDE DEF Q
    <3> QED BY <2>1, <2>3, <3>2, <3>3
  <2> QED BY <2>7, <2>8
<1>5. f[N] \in I[N]
  <2> HIDE DEF I, N
  <2> QED BY <1>0, <1>3, <1>4, LoopKeeps
<1>6. f[N] \in Summed(a, Q(N))
  BY <1>0, <1>5
<1> QED BY <1>2, <1>6

(* f has what the outer loop has after each client.                        *)
PageRun(f, a, page, filter) ==
    /\ f[0] = Nothing
    /\ \A i \in 1 .. Len(page) : f[i] = AddedList(f[i - 1], feedback[a][page[i]], filter)

LEMMA AddedListType ==
    ASSUME NEW list \in Seq(FeedbackRecord), NEW acc \in Acc, NEW filter
    PROVE  AddedList(acc, list, filter) \in Acc
<1> DEFINE N == Len(list)
           I == [n \in 0 .. N |-> Acc]
<1>0. N \in Nat /\ \A j \in 1 .. N : list[j] \in FeedbackRecord
  OBVIOUS
<1>1. PICK f : ListRun(f, acc, list, filter) /\ AddedList(acc, list, filter) = f[N]
  BY ListLoop
<1>2. f[0] \in I[0]
  BY <1>0, <1>1 DEF ListRun
<1>3. ASSUME NEW n \in 1 .. N, f[n - 1] \in I[n - 1] PROVE f[n] \in I[n]
  <2>1. f[n - 1] \in Acc /\ n \in 0 .. N
    BY <1>0, <1>3
  <2>2. Added(f[n - 1], list[n]) \in Acc
    BY <1>0, <2>1, AddedType
  <2>3. f[n] = Turn(f[n - 1], list[n], filter)
    BY <1>1 DEF ListRun
  <2> QED BY <2>1, <2>2, <2>3 DEF Turn
<1>4. f[N] \in I[N]
  <2> HIDE DEF I, N
  <2> QED BY <1>0, <1>2, <1>3, LoopKeeps
<1> QED BY <1>0, <1>1, <1>4

LEMMA PageLoop ==
    ASSUME FeedbackInv, NEW a \in AgentIds, NEW page \in Seq(Accounts), NEW filter
    PROVE  \E f : PageRun(f, a, page, filter) /\ AddedPage(a, page, filter) = f[Len(page)]
<1> DEFINE N == Len(page)
           step == [i \in 1 .. N |-> [x \in Acc |-> AddedList(x, feedback[a][page[i]], filter)]]
           Loop(f) == f = [i \in 0 .. N |->
                             IF i = 0 THEN Nothing
                             ELSE AddedList(f[i - 1], feedback[a][page[i]], filter)]
<1>0. N \in Nat /\ \A i \in 1 .. N : feedback[a][page[i]] \in Seq(FeedbackRecord)
  BY DEF FeedbackInv
<1>1. \A i \in 1 .. N : \A x \in Acc : step[i][x] \in Acc
  BY <1>0, AddedListType
<1>2. Nothing \in Acc
  BY ReputationAssumption DEF Nothing, Acc
<1>3. PICK f \in [0 .. N -> Acc] : f[0] = Nothing /\ \A i \in 1 .. N : f[i] = step[i][f[i - 1]]
  <2> HIDE DEF step, N
  <2>1. HasRun(N, Acc, Nothing, step)
    BY <1>0, <1>1, <1>2, LoopRuns
  <2> QED BY <2>1 DEF HasRun
<1>4. ASSUME NEW i \in 1 .. N PROVE f[i] = AddedList(f[i - 1], feedback[a][page[i]], filter)
  <2>1. f[i - 1] \in Acc
    BY <1>0
  <2> QED BY <1>3, <2>1
<1>5. Loop(f)
  BY <1>3, <1>4
<1> DEFINE upTo == CHOOSE g : Loop(g)
<1>6. Loop(upTo)
  <2> HIDE DEF Loop
  <2> QED BY <1>5
<1>7. AddedPage(a, page, filter) = upTo[N]
  BY DEF AddedPage
<1> HIDE DEF upTo
<1>8. PageRun(upTo, a, page, filter)
  BY <1>0, <1>6 DEF PageRun
<1> QED BY <1>7, <1>8

(* A page of clients that are listed once each is summed up whole.         *)
LEMMA PageSums ==
    ASSUME FeedbackInv, NEW a \in AgentIds, NEW page \in Seq(Accounts), Distinct(page), NEW filter
    PROVE  AddedPage(a, page, filter) \in Summed(a, OfPage(a, page, filter, Len(page)))
<1> DEFINE N == Len(page)
           Q(n) == OfPage(a, page, filter, n)
           I == [n \in 0 .. N |-> Summed(a, Q(n))]
<1>0. N \in Nat /\ DOMAIN page = 1 .. N /\ \A i \in 1 .. N : page[i] \in Accounts
  OBVIOUS
<1>1. PICK f : PageRun(f, a, page, filter) /\ AddedPage(a, page, filter) = f[N]
  BY PageLoop
<1>2. f[0] \in I[0]
  <2>1. Q(0) = {}
    BY DEF OfPage
  <2>2. Nothing \in Summed(a, {})
    <3>1. [p \in {} |-> Value(a, p, 0)] \in [{} -> Int]
      OBVIOUS
    <3>2. SumFunction([p \in {} |-> Value(a, p, 0)]) = 0
      BY <3>1, SumOfNone
    <3> QED BY <3>2, ReputationAssumption, FS_EmptySet DEF Nothing, Summed, Sums, Acc
  <2>3. f[0] = Nothing
    BY <1>1 DEF PageRun
  <2>4. I[0] = Summed(a, Q(0))
    BY <1>0
  <2> HIDE DEF Q, I
  <2> QED BY <2>1, <2>2, <2>3, <2>4
<1>3. ASSUME NEW n \in 1 .. N, f[n - 1] \in I[n - 1] PROVE f[n] \in I[n]
  <2> DEFINE c == page[n]
             R == OfClient(a, c, filter, Len(feedback[a][c]))
  <2>1. n \in 0 .. N /\ n - 1 \in 0 .. N /\ c \in Accounts /\ n \in Nat
    BY <1>0
  <2>2. f[n - 1] \in Summed(a, Q(n - 1)) /\ Q(n - 1) \in SUBSET Places(a)
    BY <1>3, <2>1 DEF OfPage
  <2>3. \A p \in Q(n - 1) : p[1] # c
    <3> SUFFICES ASSUME NEW p \in Q(n - 1), p[1] = c PROVE FALSE
      OBVIOUS
    <3>1. PICK i \in 1 .. n - 1 : page[i] = c
      BY DEF OfPage
    <3>2. i \in 1 .. N /\ i # n
      BY <1>0, <2>1
    <3> QED BY <1>0, <3>1, <3>2 DEF Distinct
  <2>4. f[n] = AddedList(f[n - 1], feedback[a][c], filter)
    BY <1>1 DEF PageRun
  <2>5. Q(n) = Q(n - 1) \cup R
    <3>1. \A p \in Places(a) : p[1] = c => p[2] <= Len(feedback[a][c])
      <4>1. feedback[a][c] \in Seq(FeedbackRecord)
        BY <2>1 DEF FeedbackInv
      <4> QED BY <4>1 DEF Places
    <3>2. \A x : (\E i \in 1 .. n : page[i] = x) <=> (x = c \/ \E i \in 1 .. n - 1 : page[i] = x)
      <4>1. 1 .. n = (1 .. n - 1) \cup {n}
        BY <2>1
      <4> QED BY <4>1
    <3> HIDE DEF c
    <3> QED BY <3>1, <3>2 DEF OfPage, OfClient
  <2> HIDE DEF Q, c
  <2>6. f[n] \in Summed(a, Q(n - 1) \cup R)
    BY <2>1, <2>2, <2>3, <2>4, ListSums
  <2> QED BY <2>1, <2>5, <2>6
<1>4. f[N] \in I[N]
  <2> HIDE DEF I, N
  <2> QED BY <1>0, <1>2, <1>3, LoopKeeps
<1>5. f[N] \in Summed(a, Q(N))
  BY <1>0, <1>4
<1> QED BY <1>1, <1>5

-----------------------------------------------------------------------------
(* The registry keeps FeedbackInv.                                         *)

LEMMA AppendOne ==
    ASSUME NEW S, NEW s \in Seq(S), NEW x \in S
    PROVE  /\ Append(s, x) \in Seq(S) /\ Append(s, x) # <<>>
           /\ Elements(Append(s, x)) = Elements(s) \cup {x}
           /\ Distinct(s) /\ x \notin Elements(s) => Distinct(Append(s, x))
           /\ \A i \in DOMAIN s : i \in DOMAIN Append(s, x) /\ Append(s, x)[i] = s[i]
           /\ Len(Append(s, x)) = Len(s) + 1
<1> DEFINE t == Append(s, x)
<1>1. /\ t \in Seq(S) /\ Len(t) = Len(s) + 1 /\ Len(s) \in Nat
      /\ DOMAIN s = 1 .. Len(s) /\ DOMAIN t = 1 .. (Len(s) + 1)
      /\ t[Len(s) + 1] = x
      /\ \A i \in 1 .. Len(s) : t[i] = s[i]
  OBVIOUS
<1> HIDE DEF t
<1>2. t # <<>>
  <2>1. 1 \in DOMAIN t
    BY <1>1
  <2> QED BY <2>1
<1>3. Elements(t) = Elements(s) \cup {x}
  <2>1. \A i \in DOMAIN t : i \in DOMAIN s \/ i = Len(s) + 1
    BY <1>1
  <2>2. \A i \in DOMAIN s : i \in DOMAIN t
    BY <1>1
  <2>3. Len(s) + 1 \in DOMAIN t
    BY <1>1
  <2> QED BY <1>1, <2>1, <2>2, <2>3 DEF Elements
<1>4. ASSUME Distinct(s), x \notin Elements(s) PROVE Distinct(t)
  <2>1. \A i \in DOMAIN t : i \in DOMAIN s \/ i = Len(s) + 1
    BY <1>1
  <2>2. \A i \in DOMAIN s : s[i] # x
    BY <1>4 DEF Elements
  <2> QED BY <1>1, <1>4, <2>1, <2>2 DEF Distinct
<1>5. \A i \in DOMAIN s : i \in DOMAIN t /\ t[i] = s[i]
  BY <1>1
<1> QED BY <1>1, <1>2, <1>3, <1>4, <1>5 DEF t

LEMMA FeedbackInitInv == FeedbackInit => FeedbackInv
<1> SUFFICES ASSUME FeedbackInit PROVE FeedbackInv OBVIOUS
<1>1. <<>> \in Seq(FeedbackRecord) /\ <<>> \in Seq(Accounts) /\ DOMAIN <<>> = {}
  OBVIOUS
<1> QED BY <1>1 DEF FeedbackInit, FeedbackInv, Elements, Distinct

LEMMA GiveFeedbackStep ==
    ASSUME FeedbackInv, NEW sender \in Accounts, NEW a \in AgentIds, NEW value \in Values,
           NEW decimals \in Decimals, NEW tag \in Tags, GiveFeedback(sender, a, value, decimals, tag)
    PROVE  FeedbackInv'
<1> DEFINE fb == [value |-> value, valueDecimals |-> decimals, tag |-> tag,
                  isRevoked |-> FALSE, linkOf |-> "client"]
<1>1. fb \in FeedbackRecord
  BY ReputationAssumption DEF GiveFeedback, Valid, FeedbackRecord
<1> HIDE DEF fb
<1>2. feedback' = [feedback EXCEPT ![a][sender] = Append(@, fb)] /\ Listed(sender, a)
  BY DEF GiveFeedback, fb
<1>3. /\ feedback'[a][sender] = Append(feedback[a][sender], fb)
      /\ \A b \in AgentIds : \A c \in Accounts :
            b # a \/ c # sender => feedback'[b][c] = feedback[b][c]
      /\ feedback[a][sender] \in Seq(FeedbackRecord)
  BY <1>2 DEF FeedbackInv
<1>4. Append(feedback[a][sender], fb) \in Seq(FeedbackRecord)
  BY <1>1, <1>3, AppendOne
<1>5. feedback' \in [AgentIds -> [Accounts -> Seq(FeedbackRecord)]]
  BY <1>2, <1>4 DEF FeedbackInv
<1>6. /\ clients' \in [AgentIds -> Seq(Accounts)]
      /\ isClient' \in [AgentIds -> SUBSET Accounts]
      /\ sender \in isClient'[a]
      /\ \A b \in AgentIds : /\ isClient'[b] = Elements(clients'[b]) /\ Distinct(clients'[b])
                             /\ isClient[b] \subseteq isClient'[b]
  <2>1. CASE sender \in isClient[a]
    BY <1>2, <2>1 DEF Listed, FeedbackInv
  <2>2. CASE sender \notin isClient[a]
    <3>1. /\ clients[a] \in Seq(Accounts) /\ isClient[a] = Elements(clients[a])
          /\ Distinct(clients[a])
      BY DEF FeedbackInv
    <3>2. /\ Append(clients[a], sender) \in Seq(Accounts)
          /\ Elements(Append(clients[a], sender)) = isClient[a] \cup {sender}
          /\ Distinct(Append(clients[a], sender))
      BY <2>2, <3>1, AppendOne
    <3>3. /\ clients' = [clients EXCEPT ![a] = Append(clients[a], sender)]
          /\ isClient' = [isClient EXCEPT ![a] = isClient[a] \cup {sender}]
      BY <1>2, <2>2 DEF Listed
    <3>4. /\ clients'[a] = Append(clients[a], sender) /\ isClient'[a] = isClient[a] \cup {sender}
          /\ \A b \in AgentIds : b # a => clients'[b] = clients[b] /\ isClient'[b] = isClient[b]
      BY <3>3 DEF FeedbackInv
    <3>5. clients' \in [AgentIds -> Seq(Accounts)] /\ isClient' \in [AgentIds -> SUBSET Accounts]
      BY <3>2, <3>3 DEF FeedbackInv
    <3>6. \A b \in AgentIds : b # a => /\ isClient[b] = Elements(clients[b])
                                       /\ Distinct(clients[b])
      BY DEF FeedbackInv
    <3> QED BY <3>2, <3>4, <3>5, <3>6
  <2> QED BY <2>1, <2>2
<1>7. \A b \in AgentIds : \A c \in Accounts : feedback'[b][c] # <<>> => c \in isClient'[b]
  BY <1>3, <1>6 DEF FeedbackInv
<1> QED BY <1>5, <1>6, <1>7 DEF FeedbackInv

(* A record of the feedback is changed in place.                           *)
LEMMA InPlaceStep ==
    ASSUME FeedbackInv, NEW a \in AgentIds, NEW c \in Accounts, NEW i \in DOMAIN feedback[a][c],
           NEW fb \in FeedbackRecord, feedback' = [feedback EXCEPT ![a][c][i] = fb],
           UNCHANGED <<clients, isClient>>
    PROVE  FeedbackInv'
<1> DEFINE list == feedback[a][c]
<1>1. list \in Seq(FeedbackRecord)
  BY DEF FeedbackInv
<1>2. [list EXCEPT ![i] = fb] \in Seq(FeedbackRecord)
  BY <1>1
<1>3. list # <<>>
  BY <1>1
<1>4. feedback' = [feedback EXCEPT ![a][c] = [list EXCEPT ![i] = fb]]
  OBVIOUS
<1> HIDE DEF list
<1>5. feedback' \in [AgentIds -> [Accounts -> Seq(FeedbackRecord)]]
  BY <1>2, <1>4 DEF FeedbackInv
<1>6. \A b \in AgentIds : \A d \in Accounts : feedback'[b][d] # <<>> => d \in isClient[b]
  <2>1. \A b \in AgentIds : \A d \in Accounts :
           b # a \/ d # c => feedback'[b][d] = feedback[b][d]
    BY <1>4 DEF FeedbackInv
  <2>2. c \in isClient[a]
    BY <1>3 DEF FeedbackInv, list
  <2> QED BY <2>1, <2>2 DEF FeedbackInv
<1> QED BY <1>5, <1>6 DEF FeedbackInv

LEMMA FeedbackStep == FeedbackInv /\ (FeedbackNext \/ UNCHANGED reputationVars) => FeedbackInv'
<1> SUFFICES ASSUME FeedbackInv, FeedbackNext \/ UNCHANGED reputationVars PROVE FeedbackInv'
  OBVIOUS
<1>1. CASE UNCHANGED reputationVars
  BY <1>1 DEF FeedbackInv, reputationVars
<1>2. ASSUME NEW sender \in Accounts, NEW a \in AgentIds, NEW i \in 1 .. MaxFeedback,
             RevokeFeedback(sender, a, i)
      PROVE  FeedbackInv'
  <2> DEFINE fb == [feedback[a][sender][i] EXCEPT !.isRevoked = TRUE]
  <2>1. i \in DOMAIN feedback[a][sender] /\ feedback[a][sender] \in Seq(FeedbackRecord)
    BY <1>2 DEF RevokeFeedback, FeedbackInv
  <2>2. feedback[a][sender][i] \in FeedbackRecord
    BY <2>1
  <2>3. fb \in FeedbackRecord
    BY <2>2 DEF FeedbackRecord
  <2>4. feedback' = [feedback EXCEPT ![a][sender][i] = fb] /\ UNCHANGED <<clients, isClient>>
    BY <1>2 DEF RevokeFeedback
  <2> HIDE DEF fb
  <2> QED BY <2>1, <2>3, <2>4, InPlaceStep
<1>3. ASSUME NEW sender \in Accounts, NEW a \in AgentIds, NEW c \in Accounts,
             NEW i \in 1 .. MaxFeedback, AppendResponse(sender, a, c, i)
      PROVE  FeedbackInv'
  <2> DEFINE fb == [feedback[a][c][i] EXCEPT !.linkOf = "owner"]
  <2>1. i \in DOMAIN feedback[a][c] /\ feedback[a][c] \in Seq(FeedbackRecord)
    BY <1>3 DEF AppendResponse, FeedbackInv
  <2>2. feedback[a][c][i] \in FeedbackRecord
    BY <2>1
  <2>3. fb \in FeedbackRecord
    BY <2>2 DEF FeedbackRecord
  <2>4. feedback' = [feedback EXCEPT ![a][c][i] = fb] /\ UNCHANGED <<clients, isClient>>
    BY <1>3 DEF AppendResponse
  <2> HIDE DEF fb
  <2> QED BY <2>1, <2>3, <2>4, InPlaceStep
<1> QED BY <1>1, <1>2, <1>3, GiveFeedbackStep DEF FeedbackNext, FeedbackBy

-----------------------------------------------------------------------------
(* The summary over all clients.                                           *)

LEMMA Standings ==
    ASSUME FeedbackInv, NEW a \in AgentIds, NEW filter
    PROVE  /\ AllStanding(a, filter) = OfPage(a, clients[a], filter, Len(clients[a]))
           /\ AllStanding(a, filter) = {p \in Places(a) : Counts(Fb(a, p), filter)}
<1>1. /\ feedback \in [AgentIds -> [Accounts -> Seq(FeedbackRecord)]]
      /\ clients[a] \in Seq(Accounts) /\ isClient[a] = Elements(clients[a])
      /\ \A c \in Accounts : feedback[a][c] # <<>> => c \in isClient[a]
  BY DEF FeedbackInv
<1>2. \A c \in Accounts : DOMAIN feedback[a][c] \subseteq Nat
  <2> SUFFICES ASSUME NEW c \in Accounts PROVE DOMAIN feedback[a][c] \subseteq Nat
    OBVIOUS
  <2>1. feedback[a][c] \in Seq(FeedbackRecord)
    BY <1>1
  <2> QED BY <2>1
<1>3. AllStanding(a, filter) = {p \in Places(a) : Counts(Fb(a, p), filter)}
  BY <1>2 DEF AllStanding, Places, Fb
<1>4. \A p \in Places(a) : \E i \in 1 .. Len(clients[a]) : clients[a][i] = p[1]
  <2> SUFFICES ASSUME NEW p \in Places(a)
               PROVE  \E i \in 1 .. Len(clients[a]) : clients[a][i] = p[1]
    OBVIOUS
  <2>1. p[1] \in Accounts /\ DOMAIN feedback[a][p[1]] # {}
    BY DEF Places
  <2>2. feedback[a][p[1]] # <<>>
    BY <2>1
  <2>3. p[1] \in Elements(clients[a])
    BY <1>1, <2>1, <2>2
  <2>4. DOMAIN clients[a] = 1 .. Len(clients[a])
    BY <1>1
  <2> QED BY <2>3, <2>4 DEF Elements
<1> QED BY <1>3, <1>4 DEF OfPage

(* An int128 survives the conversion to int128.                            *)
LEMMA NarrowedKeeps ==
    ASSUME NEW x \in -ValueLimit .. ValueLimit - 1
    PROVE  Narrowed(x) = x
<1> DEFINE y == x + ValueLimit
           m == 2 * ValueLimit
<1>1. m \in Nat \ {0} /\ y \in 0 .. m - 1
  BY ReputationAssumption
<1> HIDE DEF m, y
<1>2. y % m = y
  BY <1>1
<1>3. y - ValueLimit = x
  BY ReputationAssumption DEF y
<1> QED BY <1>2, <1>3 DEF Narrowed, m, y

LEMMA SummaryOfAll ==
    ASSUME FeedbackInv, NEW a \in AgentIds, NEW filter
    PROVE  /\ Summary(a, clients[a], filter, 0, 0).count = Reference(a, filter).count
           /\ Summary(a, clients[a], filter, 0, 0).decimals = Reference(a, filter).decimals
           /\ Reference(a, filter).value \in -ValueLimit .. ValueLimit - 1 =>
                 Summary(a, clients[a], filter, 0, 0).value = Reference(a, filter).value
<1> DEFINE L == clients[a]
           S == AllStanding(a, filter)
           acc == AddedPage(a, L, filter)
           fine == {0} \cup {Fb(a, p).valueDecimals : p \in S}
<1>1. L \in Seq(Accounts) /\ Distinct(L)
  BY DEF FeedbackInv
<1>2. ClientPage(L, 0, 0) = L
  BY <1>1 DEF ClientPage
<1>3. acc \in Summed(a, S)
  <2> HIDE DEF L
  <2> QED BY <1>1, PageSums, Standings DEF L
<1>4. /\ IsFiniteSet(S) /\ acc \in Acc /\ acc.count = Cardinality(S)
      /\ \A p \in S : Fb(a, p).valueDecimals <= acc.decimals
      /\ acc.decimals = 0 \/ \E p \in S : Fb(a, p).valueDecimals = acc.decimals
      /\ acc.sum = SumFunction([p \in S |-> Value(a, p, acc.decimals)])
  <2> HIDE DEF S, acc
  <2> QED BY <1>3 DEF Summed, Sums
<1>5. Max(fine) = acc.decimals
  <2>1. S \subseteq Places(a)
    BY Standings
  <2>2. \A p \in S : Fb(a, p).valueDecimals \in Nat
    BY <2>1, PlacesHold, ReputationAssumption
  <2>3. acc.decimals \in Nat
    BY <1>4, ReputationAssumption DEF Acc
  <2>4. acc.decimals \in fine /\ \A x \in fine : x \in Nat /\ x <= acc.decimals
    <3> HIDE DEF S, acc
    <3> QED BY <1>4, <2>2, <2>3
  <2>5. \A x \in fine : (\A y \in fine : x >= y) => x = acc.decimals
    <3> SUFFICES ASSUME NEW x \in fine, \A y \in fine : x >= y PROVE x = acc.decimals
      OBVIOUS
    <3> HIDE DEF fine, acc
    <3> QED BY <2>3, <2>4
  <2>6. \A y \in fine : acc.decimals >= y
    <3> HIDE DEF fine, acc
    <3> QED BY <2>3, <2>4
  <2> HIDE DEF fine, acc
  <2> QED BY <2>4, <2>5, <2>6 DEF Max
<1>6. S = {} <=> acc.count = 0
  <2> HIDE DEF S, acc
  <2> QED BY <1>4, FS_EmptySet
<1>7. S = {} => acc.decimals = 0
  <2> HIDE DEF S, acc
  <2> QED BY <1>4
<1>8. acc.count \in Nat
  <2> HIDE DEF acc
  <2> QED BY <1>4 DEF Acc
<1>9. Summary(a, L, filter, 0, 0)
         = [count |-> acc.count, decimals |-> IF acc.count > 0 THEN acc.decimals ELSE 0,
            value |-> IF acc.count > 0 THEN Narrowed(Quotient(acc.sum, acc.count)) ELSE 0]
  BY <1>2 DEF Summary
<1>10. Reference(a, filter)
         = [count |-> Cardinality(S), decimals |-> Max(fine),
            value |-> IF S = {} THEN 0
                      ELSE Quotient(SumFunction([p \in S |-> Value(a, p, Max(fine))]),
                                    Cardinality(S))]
  BY DEF Reference, Fb, Value
<1> HIDE DEF S, acc, fine
<1>11. CASE S = {}
  BY <1>4, <1>5, <1>6, <1>7, <1>8, <1>9, <1>10, <1>11
<1>12. CASE S # {}
  <2>1. acc.count > 0
    BY <1>6, <1>8, <1>12
  <2>2. Reference(a, filter)
          = [count |-> acc.count, decimals |-> acc.decimals, value |-> Quotient(acc.sum, acc.count)]
    BY <1>4, <1>5, <1>10, <1>12
  <2>3. Summary(a, L, filter, 0, 0)
          = [count |-> acc.count, decimals |-> acc.decimals,
             value |-> Narrowed(Quotient(acc.sum, acc.count))]
    BY <1>9, <2>1
  <2> QED BY <2>2, <2>3, NarrowedKeeps
<1> QED BY <1>11, <1>12

LEMMA FeedbackReadStep == FeedbackInv /\ [ReadNext]_readVars => FeedbackInv'
<1> SUFFICES ASSUME FeedbackInv, [ReadNext]_readVars PROVE FeedbackInv'
  OBVIOUS
<1>1. FeedbackNext \/ UNCHANGED reputationVars
  BY DEF ReadNext, KeysChange, FeedbackChange, ReadKeys, ReadCounts, ReadAgain, readVars,
         feedbackVars
<1> QED BY <1>1, FeedbackStep

(* The summary of all feedback on an agent is the average by its           *)
(* definition, for every filter of tags, whatever values and precisions    *)
(* the feedback has and whatever order it came in, unless the average is   *)
(* not an int128; its count and precision are those of the average always. *)
THEOREM SummaryCorrect == ReadSpec => []SummaryIsAverage
<1>1. ReadInit => FeedbackInv
  BY FeedbackInitInv DEF ReadInit
<1>2. FeedbackInv => SummaryIsAverage
  BY SummaryOfAll DEF SummaryIsAverage
<1> QED BY <1>1, <1>2, FeedbackReadStep, PTL DEF ReadSpec

-----------------------------------------------------------------------------
(* The count read page by page.                                            *)

(* The part of S that the clients up to place o gave.                      *)
Front(L, S, o) == {p \in S : \E i \in 1 .. o : L[i] = p[1]}

CountInv ==
    /\ offset \in Nat /\ pages \in Nat /\ total \in Nat
    /\ pages = 0 => offset = 0
    /\ pages = 0 \/ focus # "feedback" => total = 0 /\ standing = {} /\ seen = {}
    /\ focus = "feedback" /\ MidRead =>
          /\ offset <= Len(clients[Reading])
          /\ standing \subseteq AllStanding(Reading, Tags)
          /\ AllStanding(Reading, Tags) \subseteq seen
          /\ IsFiniteSet(seen)
          /\ Cardinality(Front(clients[Reading], standing, offset)) <= total
          /\ total <= Cardinality(Front(clients[Reading], seen, offset))
    /\ PagedCountIsBracketed

LEMMA StandingFinite ==
    ASSUME FeedbackInv, NEW a \in AgentIds, NEW filter
    PROVE  IsFiniteSet(AllStanding(a, filter))
<1>1. clients[a] \in Seq(Accounts) /\ Distinct(clients[a])
  BY DEF FeedbackInv
<1>2. AddedPage(a, clients[a], filter)
         \in Summed(a, OfPage(a, clients[a], filter, Len(clients[a])))
  BY <1>1, PageSums
<1> QED BY <1>2, Standings DEF Summed

PageStop(list, limit, o) == IF o + limit < Len(list) THEN o + limit ELSE Len(list)

PageIsCounted(a, filter, limit, o, e) ==
    /\ e \in Nat /\ o <= e /\ e <= Len(clients[a])
    /\ NextPage(clients[a], limit, o) = IF e < Len(clients[a]) THEN e ELSE 0
    /\ Summary(a, clients[a], filter, limit, o).count
          = Cardinality(Front(clients[a], AllStanding(a, filter), e)
                           \ Front(clients[a], AllStanding(a, filter), o))

(* A page counts what stands of its clients.                               *)
LEMMA PageCounts ==
    ASSUME FeedbackInv, NEW a \in AgentIds, NEW filter, NEW o \in Nat, o <= Len(clients[a]),
           NEW limit \in Nat \ {0}
    PROVE  PageIsCounted(a, filter, limit, o, PageStop(clients[a], limit, o))
<1> DEFINE L == clients[a]
           e == PageStop(L, limit, o)
           page == SubSeq(L, o + 1, e)
           S == AllStanding(a, filter)
<1>1. /\ L \in Seq(Accounts) /\ Distinct(L) /\ Len(L) \in Nat /\ DOMAIN L = 1 .. Len(L)
  BY DEF FeedbackInv
<1>2. e \in Nat /\ o <= e /\ e <= Len(L)
  BY <1>1 DEF PageStop
<1>3. NextPage(L, limit, o) = IF e < Len(L) THEN e ELSE 0
  BY <1>1 DEF NextPage, PageStop
<1>4. ClientPage(L, limit, o) = page
  BY <1>1 DEF ClientPage, PageStop
<1> HIDE DEF e
<1>5. /\ page \in Seq(Accounts) /\ Len(page) = e - o /\ DOMAIN page = 1 .. (e - o)
      /\ \A i \in 1 .. (e - o) : page[i] = L[o + i]
  <2> HIDE DEF L
  <2>1. \A i \in o + 1 .. e : L[i] \in Accounts
    BY <1>1, <1>2
  <2>2. page \in Seq(Accounts)
    BY <1>1, <1>2, <2>1
  <2>3. Len(page) = e - o /\ DOMAIN page = 1 .. (e - o)
    BY <1>1, <1>2
  <2>4. \A i \in 1 .. (e - o) : page[i] = L[o + i]
    BY <1>1, <1>2
  <2> QED BY <2>2, <2>3, <2>4
<1>6. Distinct(page)
  <2> SUFFICES ASSUME NEW i \in DOMAIN page, NEW j \in DOMAIN page, page[i] = page[j] PROVE i = j
    BY DEF Distinct
  <2> HIDE DEF L, page
  <2>1. /\ i \in 1 .. (e - o) /\ j \in 1 .. (e - o) /\ o + i \in DOMAIN L /\ o + j \in DOMAIN L
    BY <1>1, <1>2, <1>5
  <2>2. L[o + i] = L[o + j]
    BY <1>5, <2>1
  <2>3. o + i = o + j
    BY <1>1, <2>1, <2>2 DEF Distinct
  <2> QED BY <1>2, <2>1, <2>3
<1>7. OfPage(a, page, filter, Len(page)) = Front(L, S, e) \ Front(L, S, o)
  <2>1. OfPage(a, page, filter, Len(page)) = {p \in S : \E i \in 1 .. (e - o) : page[i] = p[1]}
    <3>1. S = {p \in Places(a) : Counts(Fb(a, p), filter)}
      BY Standings
    <3> HIDE DEF S, page, L
    <3> QED BY <1>5, <3>1 DEF OfPage
  <2> HIDE DEF S, L, page
  <2>2. ASSUME NEW x PROVE (\E i \in 1 .. (e - o) : page[i] = x)
                             <=> (\E i \in 1 .. e : L[i] = x) /\ ~\E i \in 1 .. o : L[i] = x
    <3>1. ASSUME NEW i \in 1 .. (e - o), page[i] = x
          PROVE  (\E j \in 1 .. e : L[j] = x) /\ ~\E j \in 1 .. o : L[j] = x
      <4>1. o + i \in 1 .. e /\ o + i \in DOMAIN L /\ L[o + i] = x
        BY <1>1, <1>2, <1>5, <3>1
      <4>2. ASSUME NEW j \in 1 .. o, L[j] = x PROVE FALSE
        <5>1. j \in DOMAIN L
          BY <1>1, <1>2
        <5>2. j = o + i
          BY <1>1, <4>1, <4>2, <5>1 DEF Distinct
        <5> QED BY <5>2
      <4> QED BY <4>1, <4>2
    <3>2. ASSUME NEW j \in 1 .. e, L[j] = x, ~\E i \in 1 .. o : L[i] = x
          PROVE  \E i \in 1 .. (e - o) : page[i] = x
      <4>1. j \notin 1 .. o
        BY <3>2
      <4>2. j - o \in 1 .. (e - o) /\ o + (j - o) = j
        BY <1>2, <4>1
      <4>3. page[j - o] = x
        BY <1>5, <3>2, <4>2
      <4> QED BY <4>2, <4>3
    <3> QED BY <3>1, <3>2
  <2> QED BY <2>1, <2>2 DEF Front
<1>8. AddedPage(a, page, filter) \in Summed(a, Front(L, S, e) \ Front(L, S, o))
  <2> HIDE DEF page, L, S
  <2> QED BY <1>5, <1>6, <1>7, PageSums
<1>9. Summary(a, L, filter, limit, o).count = AddedPage(a, page, filter).count
  BY <1>4 DEF Summary
<1> QED
  <2> HIDE DEF L, S, page
  <2>1. AddedPage(a, page, filter).count = Cardinality(Front(L, S, e) \ Front(L, S, o))
    BY <1>8 DEF Summed, Sums
  <2> QED BY <1>2, <1>3, <1>9, <2>1 DEF L, S, e, PageIsCounted

LEMMA Parts ==
    ASSUME NEW S, IsFiniteSet(S), NEW T \in SUBSET S
    PROVE  /\ IsFiniteSet(T) /\ Cardinality(T) \in Nat /\ Cardinality(S) \in Nat
           /\ Cardinality(T) <= Cardinality(S)
           /\ Cardinality(S) = Cardinality(T) + Cardinality(S \ T)
<1>1. IsFiniteSet(T) /\ Cardinality(T) <= Cardinality(S)
  BY FS_Subset
<1>2. Cardinality(T) \in Nat /\ Cardinality(S) \in Nat
  BY <1>1, FS_CardinalityType
<1>3. IsFiniteSet(S \ T) /\ Cardinality(S \ T) = Cardinality(S) - Cardinality(S \cap T)
  BY FS_Difference, <1>1
<1>4. S \cap T = T
  OBVIOUS
<1>5. Cardinality(S \ T) = Cardinality(S) - Cardinality(T)
  BY <1>3, <1>4
<1> QED BY <1>1, <1>2, <1>5

LEMMA ReadCountsStep ==
    ASSUME FeedbackInv, CountInv, ReadCounts
    PROVE  CountInv'
<1> DEFINE a == Reading
           L == clients[a]
           S == AllStanding(a, Tags)
           lo == IF pages = 0 THEN S ELSE standing
           hi == IF pages = 0 THEN S ELSE seen
           e == PageStop(L, FeedbackLimit, offset)
           count == Cardinality(Front(L, S, e) \ Front(L, S, offset))
<1>1. /\ a \in AgentIds /\ FeedbackLimit \in Nat \ {0}
      /\ L \in Seq(Accounts) /\ Len(L) \in Nat
      /\ offset \in Nat /\ pages \in Nat /\ total \in Nat
  BY ReadingAssumption DEF CountInv, FeedbackInv
<1>2. focus = "feedback" /\ focus' = focus /\ pages' = pages + 1
  BY DEF ReadCounts
<1>3. /\ offset <= Len(L) /\ lo \subseteq S /\ S \subseteq hi /\ IsFiniteSet(hi)
      /\ Cardinality(Front(L, lo, offset)) <= total
      /\ total <= Cardinality(Front(L, hi, offset))
  <2>1. CASE pages = 0
    <3>1. offset = 0 /\ total = 0
      BY <2>1 DEF CountInv
    <3>2. Front(L, lo, offset) = {} /\ Front(L, hi, offset) = {}
      BY <3>1 DEF Front
    <3>3. IsFiniteSet(S)
      BY <1>1, StandingFinite
    <3>4. lo = S /\ hi = S
      BY <2>1
    <3> HIDE DEF L, S, lo, hi
    <3>5. offset <= Len(L) /\ lo \subseteq S /\ S \subseteq hi /\ IsFiniteSet(hi)
      BY <1>1, <3>1, <3>3, <3>4
    <3>6. Cardinality(Front(L, lo, offset)) = 0 /\ Cardinality(Front(L, hi, offset)) = 0
      BY <3>2, FS_EmptySet
    <3> QED BY <3>1, <3>5, <3>6
  <2>2. CASE pages # 0
    <3>1. MidRead /\ lo = standing /\ hi = seen
      BY <1>1, <2>2 DEF ReadCounts, MidRead, Done
    <3>2. /\ offset <= Len(clients[Reading])
          /\ standing \subseteq AllStanding(Reading, Tags)
          /\ AllStanding(Reading, Tags) \subseteq seen
          /\ IsFiniteSet(seen)
          /\ Cardinality(Front(clients[Reading], standing, offset)) <= total
          /\ total <= Cardinality(Front(clients[Reading], seen, offset))
      BY <1>2, <3>1 DEF CountInv
    <3> HIDE DEF lo, hi
    <3>3. offset <= Len(L) /\ lo \subseteq S /\ S \subseteq hi /\ IsFiniteSet(hi)
      BY <3>1, <3>2
    <3>4. Cardinality(Front(L, lo, offset)) <= total /\ total <= Cardinality(Front(L, hi, offset))
      BY <3>1, <3>2
    <3> QED BY <3>3, <3>4
  <2> QED BY <2>1, <2>2
<1>4. standing' = lo /\ seen' = hi /\ clients' = clients /\ feedback' = feedback
  BY DEF ReadCounts, feedbackVars, reputationVars
<1>5. AllStanding(a, Tags)' = S
  BY <1>4 DEF AllStanding
<1>6. /\ e \in Nat /\ offset <= e /\ e <= Len(L)
      /\ offset' = IF e < Len(L) THEN e ELSE 0
      /\ total' = total + count
  <2>1. /\ offset' = NextPage(L, FeedbackLimit, offset)
        /\ total' = total + Summary(a, L, Tags, FeedbackLimit, offset).count
    BY DEF ReadCounts
  <2>2. PageIsCounted(a, Tags, FeedbackLimit, offset, e)
    <3>1. offset <= Len(clients[a])
      BY <1>3
    <3> HIDE DEF a
    <3> QED BY <1>1, <3>1, PageCounts
  <2> HIDE DEF e
  <2>3. /\ e \in Nat /\ offset <= e /\ e <= Len(L)
        /\ NextPage(L, FeedbackLimit, offset) = IF e < Len(L) THEN e ELSE 0
        /\ Summary(a, L, Tags, FeedbackLimit, offset).count = count
    BY <2>2 DEF PageIsCounted
  <2> HIDE DEF count, L
  <2> QED BY <2>1, <2>3
<1> HIDE DEF S, lo, hi, e, L
<1>7. /\ Cardinality(Front(L, lo, e)) <= total + count
      /\ total + count <= Cardinality(Front(L, hi, e))
      /\ count \in Nat
  <2> DEFINE Share(T) == Front(L, T, e) \ Front(L, T, offset)
  <2>0. /\ IsFiniteSet(S) /\ IsFiniteSet(lo) /\ S \in SUBSET hi /\ lo \in SUBSET S
    BY <1>3, FS_Subset
  <2>1. ASSUME NEW T, IsFiniteSet(T)
        PROVE  /\ IsFiniteSet(Front(L, T, e)) /\ IsFiniteSet(Share(T))
               /\ Cardinality(Front(L, T, e)) \in Nat
               /\ Cardinality(Front(L, T, offset)) \in Nat /\ Cardinality(Share(T)) \in Nat
               /\ Cardinality(Front(L, T, e))
                     = Cardinality(Front(L, T, offset)) + Cardinality(Share(T))
    <3>1. Front(L, T, e) \in SUBSET T
      BY DEF Front
    <3>2. Front(L, T, offset) \in SUBSET Front(L, T, e)
      <4>1. 1 .. offset \subseteq 1 .. e
        BY <1>1, <1>6
      <4> QED BY <4>1 DEF Front
    <3>3. IsFiniteSet(Front(L, T, e))
      BY <2>1, <3>1, Parts
    <3>4. Share(T) \in SUBSET Front(L, T, e)
      OBVIOUS
    <3> HIDE DEF Share
    <3>5. IsFiniteSet(Share(T)) /\ Cardinality(Share(T)) \in Nat
      BY <3>3, <3>4, Parts
    <3> QED BY <3>2, <3>3, <3>5, Parts DEF Share
  <2>2. Share(lo) \in SUBSET Share(S) /\ Share(S) \in SUBSET Share(hi)
    BY <2>0 DEF Front
  <2>3. count = Cardinality(Share(S))
    OBVIOUS
  <2> HIDE DEF Share, count
  <2>4. Cardinality(Share(lo)) <= count /\ count <= Cardinality(Share(hi)) /\ count \in Nat
    BY <1>3, <2>0, <2>1, <2>2, <2>3, Parts
  <2>5. /\ Cardinality(Front(L, lo, e))
              = Cardinality(Front(L, lo, offset)) + Cardinality(Share(lo))
        /\ Cardinality(Front(L, lo, offset)) \in Nat /\ Cardinality(Share(lo)) \in Nat
    BY <2>0, <2>1
  <2>6. /\ Cardinality(Front(L, hi, e))
              = Cardinality(Front(L, hi, offset)) + Cardinality(Share(hi))
        /\ Cardinality(Front(L, hi, offset)) \in Nat /\ Cardinality(Share(hi)) \in Nat
    BY <1>3, <2>1
  <2> QED BY <1>1, <1>3, <2>4, <2>5, <2>6
<1> HIDE DEF count
<1>8. offset' \in Nat /\ pages' \in Nat /\ pages' # 0 /\ total' \in Nat
  BY <1>1, <1>2, <1>6, <1>7
<1>9. CASE e < Len(L)
  <2>1. offset' = e
    BY <1>6, <1>9
  <2>2. /\ offset' <= Len(clients'[Reading])
        /\ standing' \subseteq AllStanding(Reading, Tags)'
        /\ AllStanding(Reading, Tags)' \subseteq seen'
        /\ IsFiniteSet(seen')
        /\ Cardinality(Front(clients'[Reading], standing', offset')) <= total'
        /\ total' <= Cardinality(Front(clients'[Reading], seen', offset'))
    BY <1>3, <1>4, <1>5, <1>6, <1>7, <2>1 DEF L
  <2>3. PagedCountIsBracketed'
    <3>1. CASE e # 0
      BY <2>1, <3>1 DEF PagedCountIsBracketed, Done
    <3>2. CASE e = 0
      BY <1>1, <1>6, <3>2, <1>9, ReadingAssumption DEF e, PageStop
    <3> QED BY <3>1, <3>2
  <2> QED BY <1>2, <1>8, <2>2, <2>3 DEF CountInv, MidRead
<1>10. CASE ~(e < Len(L))
  <2>1. offset' = 0 /\ e = Len(L)
    BY <1>1, <1>6, <1>10
  <2>2. Front(L, lo, e) = lo
    <3>1. \A p \in S : \E i \in 1 .. Len(L) : L[i] = p[1]
      BY <1>1, Standings DEF S, L, OfPage
    <3> QED BY <1>3, <2>1, <3>1 DEF Front
  <2>3. Cardinality(lo) <= total + count
    BY <1>7, <2>2
  <2>4. total + count <= Cardinality(hi)
    <3>1. Front(L, hi, e) \in SUBSET hi
      BY DEF Front
    <3>2. /\ Cardinality(Front(L, hi, e)) \in Nat /\ Cardinality(hi) \in Nat
          /\ Cardinality(Front(L, hi, e)) <= Cardinality(hi)
      BY <1>3, <3>1, Parts
    <3> QED BY <1>1, <1>7, <3>2
  <2>5. PagedCountIsBracketed'
    BY <1>4, <1>6, <2>3, <2>4 DEF PagedCountIsBracketed
  <2> QED BY <1>2, <1>8, <2>1, <2>5 DEF CountInv, MidRead
<1> QED BY <1>9, <1>10

(* New clients come after the listed ones.                                 *)
LEMMA ClientsAppended ==
    ASSUME FeedbackInv, FeedbackNext, NEW a \in AgentIds
    PROVE  /\ Len(clients[a]) <= Len(clients'[a])
           /\ \A i \in 1 .. Len(clients[a]) : clients'[a][i] = clients[a][i]
<1>1. clients \in [AgentIds -> Seq(Accounts)] /\ clients[a] \in Seq(Accounts)
  BY DEF FeedbackInv
<1>2. CASE clients'[a] = clients[a]
  BY <1>1, <1>2
<1>3. ASSUME NEW sender \in Accounts, NEW b \in AgentIds, Listed(sender, b)
      PROVE  clients'[a] = clients[a] \/ clients'[a] = Append(clients[a], sender)
  BY <1>1, <1>3 DEF Listed
<1>4. clients'[a] = clients[a] \/ \E sender \in Accounts : clients'[a] = Append(clients[a], sender)
  BY <1>3 DEF FeedbackNext, FeedbackBy, GiveFeedback, RevokeFeedback, AppendResponse, reputationVars
<1>5. ASSUME NEW sender \in Accounts, clients'[a] = Append(clients[a], sender)
      PROVE  /\ Len(clients[a]) <= Len(clients'[a])
             /\ \A i \in 1 .. Len(clients[a]) : clients'[a][i] = clients[a][i]
  BY <1>1, <1>5
<1> QED BY <1>2, <1>4, <1>5

LEMMA ReadingFinite == FeedbackInv => IsFiniteSet(AllStanding(Reading, Tags))
BY StandingFinite, ReadingAssumption

LEMMA FeedbackChangeStep ==
    ASSUME FeedbackInv, CountInv, FeedbackChange
    PROVE  CountInv'
<1> DEFINE L == clients[Reading]
           M == clients'[Reading]
           T == AllStanding(Reading, Tags)'
<1>1. /\ UNCHANGED <<focus, offset, pages, total>> /\ focus = "feedback"
      /\ Reading \in AgentIds /\ offset \in Nat /\ pages \in Nat /\ total \in Nat
  BY ReadingAssumption DEF FeedbackChange, CountInv
<1>2. FeedbackInv'
  BY FeedbackStep DEF FeedbackChange
<1>3. CASE ~MidRead
  <2>1. UNCHANGED <<standing, seen>>
    BY <1>3 DEF FeedbackChange
  <2> QED BY <1>1, <1>3, <2>1 DEF CountInv, MidRead, PagedCountIsBracketed, Done
<1>4. CASE MidRead
  <2>1. standing' = standing \cap T /\ seen' = seen \cup T
    BY <1>4 DEF FeedbackChange
  <2>2. /\ offset <= Len(L) /\ IsFiniteSet(seen) /\ standing \subseteq AllStanding(Reading, Tags)
        /\ AllStanding(Reading, Tags) \subseteq seen
        /\ Cardinality(Front(L, standing, offset)) <= total
        /\ total <= Cardinality(Front(L, seen, offset))
    BY <1>1, <1>4 DEF CountInv
  <2>3. /\ Len(L) \in Nat /\ Len(M) \in Nat /\ Len(L) <= Len(M)
        /\ \A i \in 1 .. Len(L) : M[i] = L[i]
    <3>1. FeedbackNext
      BY DEF FeedbackChange
    <3>2. L \in Seq(Accounts) /\ M \in Seq(Accounts)
      BY <1>1, <1>2 DEF FeedbackInv
    <3>3. Len(L) \in Nat /\ Len(M) \in Nat
      BY <3>2
    <3> QED BY <1>1, <3>1, <3>3, ClientsAppended
  <2>4. IsFiniteSet(T)
    <3>1. (FeedbackInv => IsFiniteSet(AllStanding(Reading, Tags)))'
      BY ReadingFinite, PTL
    <3> QED BY <1>2, <3>1
  <2> HIDE DEF L, M, T
  <2>5. \A S : Front(M, S, offset) = Front(L, S, offset)
    <3>1. \A i \in 1 .. offset : M[i] = L[i]
      BY <1>1, <2>2, <2>3
    <3> QED BY <3>1 DEF Front
  <2>6. IsFiniteSet(seen')
    BY <2>1, <2>2, <2>4, FS_Union
  <2>7. IsFiniteSet(standing) /\ standing \subseteq seen
    BY <2>2, FS_Subset
  <2>8. /\ Cardinality(Front(L, standing', offset)) <= Cardinality(Front(L, standing, offset))
        /\ Cardinality(Front(L, standing', offset)) \in Nat
        /\ Cardinality(Front(L, standing, offset)) \in Nat
    <3>1. /\ Front(L, standing, offset) \in SUBSET standing
          /\ Front(L, standing', offset) \in SUBSET Front(L, standing, offset)
      BY <2>1 DEF Front
    <3>2. IsFiniteSet(Front(L, standing, offset))
      BY <2>7, <3>1, Parts
    <3> QED BY <3>1, <3>2, Parts
  <2>9. /\ Cardinality(Front(L, seen, offset)) <= Cardinality(Front(L, seen', offset))
        /\ Cardinality(Front(L, seen', offset)) \in Nat
        /\ Cardinality(Front(L, seen, offset)) \in Nat
    <3>1. /\ Front(L, seen', offset) \in SUBSET seen'
          /\ Front(L, seen, offset) \in SUBSET Front(L, seen', offset)
      BY <2>1 DEF Front
    <3>2. IsFiniteSet(Front(L, seen', offset))
      BY <2>6, <3>1, Parts
    <3> QED BY <3>1, <3>2, Parts
  <2>10. /\ offset' <= Len(M)
         /\ standing' \subseteq T /\ T \subseteq seen'
         /\ Cardinality(Front(M, standing', offset')) <= total'
         /\ total' <= Cardinality(Front(M, seen', offset'))
    <3>1. offset' <= Len(M)
      BY <1>1, <2>2, <2>3
    <3>2. standing' \subseteq T /\ T \subseteq seen'
      BY <2>1
    <3>3. /\ Front(M, standing', offset') = Front(L, standing', offset)
          /\ Front(M, seen', offset') = Front(L, seen', offset)
      BY <1>1, <2>5
    <3>4. /\ Cardinality(Front(L, standing', offset)) <= total
          /\ total <= Cardinality(Front(L, seen', offset))
      BY <1>1, <2>2, <2>8, <2>9
    <3> QED BY <1>1, <3>1, <3>2, <3>3, <3>4
  <2>11. PagedCountIsBracketed'
    BY <1>1, <1>4 DEF PagedCountIsBracketed, Done, MidRead
  <2>12. pages # 0
    BY <1>4 DEF MidRead
  <2> QED BY <1>1, <2>6, <2>10, <2>11, <2>12 DEF CountInv, L, M, T
<1> QED BY <1>3, <1>4

LEMMA CountInit == ReadInit => CountInv
<1> SUFFICES ASSUME ReadInit PROVE CountInv OBVIOUS
<1>1. pages = 0 /\ offset = 0 /\ total = 0 /\ standing = {} /\ seen = {}
  BY DEF ReadInit
<1> QED BY <1>1 DEF CountInv, MidRead, Done, PagedCountIsBracketed

LEMMA CountStep == FeedbackInv /\ CountInv /\ [ReadNext]_readVars => (FeedbackInv /\ CountInv)'
<1> SUFFICES ASSUME FeedbackInv, CountInv, [ReadNext]_readVars PROVE CountInv'
  BY FeedbackReadStep
<1>1. CASE KeysChange
  <2>1. focus = "keys" /\ UNCHANGED <<focus, offset, pages, total, standing, seen>>
    BY <1>1 DEF KeysChange, countReader
  <2> QED BY <2>1 DEF CountInv, PagedCountIsBracketed, Done
<1>2. CASE ReadKeys
  <2>1. focus = "keys" /\ focus' = focus /\ UNCHANGED <<total, standing, seen>> /\ pages' = pages + 1
    BY <1>2 DEF ReadKeys, countReader
  <2>2. offset' \in Nat
    BY <1>2, ReadingAssumption DEF ReadKeys, NextOffset, PageEnd, CountInv
  <2>3. total = 0 /\ standing = {} /\ seen = {}
    BY <2>1 DEF CountInv
  <2>4. Cardinality({}) = 0
    BY FS_EmptySet
  <2> QED BY <2>1, <2>2, <2>3, <2>4 DEF CountInv, PagedCountIsBracketed
<1>3. CASE ReadAgain
  <2>1. pages' = 0 /\ offset' = 0 /\ total' = 0 /\ standing' = {} /\ seen' = {}
    BY <1>3 DEF ReadAgain, Done
  <2> QED BY <2>1 DEF CountInv, MidRead, Done, PagedCountIsBracketed
<1>4. CASE UNCHANGED readVars
  <2>1. UNCHANGED <<feedback, clients, focus, offset, pages, total, standing, seen>>
    BY <1>4 DEF readVars, feedbackVars, reputationVars, countReader
  <2>2. AllStanding(Reading, Tags)' = AllStanding(Reading, Tags)
    BY <2>1 DEF AllStanding
  <2> QED BY <2>1, <2>2 DEF CountInv, MidRead, Done, PagedCountIsBracketed
<1> QED BY <1>1, <1>2, <1>3, <1>4, FeedbackChangeStep, ReadCountsStep DEF ReadNext

(* The counts of the pages of one read, made while feedback comes and is   *)
(* revoked, add up to no less than the feedback that stood all along and   *)
(* no more than what stood at some time of it: for every page size and any *)
(* number of clients and of feedback.                                      *)
THEOREM PagedCountCorrect == ReadSpec => []PagedCountIsBracketed
<1>1. ReadSpec => [](FeedbackInv /\ CountInv)
  <2>1. ReadInit => FeedbackInv
    BY FeedbackInitInv DEF ReadInit
  <2> QED BY <2>1, CountInit, CountStep, PTL DEF ReadSpec
<1>2. CountInv => PagedCountIsBracketed
  BY DEF CountInv
<1> QED BY <1>1, <1>2, PTL

=============================================================================
