---------------------------- MODULE MCRegistries ----------------------------
(* TEERegistry and ReputationRegistry over one identity registry, on a     *)
(* small instance, with a client that reads page by page: the keys of one  *)
(* agent, or the counts of its feedback, while they change.                *)
EXTENDS TEERegistry, ReputationRegistry, FiniteSetsExt, Functions, TLC

CONSTANTS Reading,     \* the agent read
          KeyLimit, FeedbackLimit,  \* page sizes
          MaxRemovals, \* bound on the removals of keys during one read
          MaxTotal     \* bound on all feedback of the agent

(* getAgentKeys with a limit of zero answers no key and no next page.      *)
ASSUME ReadingAssumption ==
    /\ Reading \in AgentIds
    /\ KeyLimit \in Nat \ {0} /\ FeedbackLimit \in Nat \ {0}

VARIABLES focus,     \* which registry is used, and read
          offset,    \* start of the next page; 0 again when the read is over
          pages,     \* pages received
          got,       \* keys received
          stable,    \* history: keys the agent has had since the read began
          removals,  \* history: keys removed from the agent since the read began
          total,     \* sum of the counts received
          standing,  \* history: <<client, index>> that stood all along the read
          seen       \* history: <<client, index>> that stood at some time of it

keyReader == <<got, stable, removals>>
countReader == <<total, standing, seen>>
readVars == <<feedbackVars, registryVars, focus, offset, pages, keyReader, countReader>>

(* Feedback is explored beside a TEE registry nobody owns or uses.         *)
Abandoned ==
    /\ registryOwner = NoAddress
    /\ teeArch = [v \in Verifiers |-> NoArch]
    /\ agentKeys = [a \in AgentIds |-> <<>>]
    /\ keyVerifier = [k \in Pubkeys |-> NoVerifier]

ReadInit ==
    /\ FeedbackInit
    /\ \/ focus = "keys" /\ TEEInit
       \/ focus = "feedback" /\ Abandoned
    /\ offset = 0 /\ pages = 0
    /\ got = <<>> /\ stable = {} /\ removals = 0
    /\ total = 0 /\ standing = {} /\ seen = {}

Done == pages > 0 /\ offset = 0
MidRead == pages > 0 /\ offset > 0

ReadAgain ==
    /\ Done
    /\ pages' = 0
    /\ got' = <<>> /\ stable' = {} /\ removals' = 0
    /\ total' = 0 /\ standing' = {} /\ seen' = {}
    /\ UNCHANGED <<feedbackVars, registryVars, focus, offset>>

(* Approvals change who may act, and not what keys and feedback do.        *)
NoApproval == operators' = {} /\ \A a \in AgentIds : approved'[a] = NoAddress

-----------------------------------------------------------------------------
(* Keys *)

KeySet(a) == {agentKeys[a][i] : i \in DOMAIN agentKeys[a]}

ReadKeys ==
    /\ focus = "keys" /\ ~Done
    /\ pages' = pages + 1
    /\ offset' = NextOffset(Reading, offset, KeyLimit)
    /\ got' = got \o Page(Reading, offset, KeyLimit)
    /\ stable' = IF pages = 0 THEN KeySet(Reading) ELSE stable
    /\ UNCHANGED <<feedbackVars, registryVars, focus, removals, countReader>>

KeysChange ==
    /\ focus = "keys"
    /\ TEENext /\ NoApproval
    /\ IF MidRead /\ Len(agentKeys'[Reading]) < Len(agentKeys[Reading])
       THEN removals < MaxRemovals /\ removals' = removals + 1
       ELSE UNCHANGED removals
    /\ stable' = IF MidRead THEN stable \cap KeySet(Reading)' ELSE stable
    /\ UNCHANGED <<reputationVars, focus, offset, pages, got, countReader>>

Times(k) == Cardinality({i \in DOMAIN got : got[i] = k})

(* A finished read has every key the agent kept meanwhile, except that     *)
(* each removal can hide one: the key it moved to the front.  No key kept  *)
(* is received twice, because a move goes to the front only.               *)
PagedReadAlmostComplete ==
    /\ \A k \in stable : Times(k) <= 1
    /\ Done => Cardinality({k \in stable : Times(k) = 0}) <= removals

-----------------------------------------------------------------------------
(* Feedback *)

AllStanding(a, filter) ==
    UNION {{<<c, i>> : i \in {i \in DOMAIN feedback[a][c] : Counts(feedback[a][c][i], filter)}} :
           c \in Accounts}

ReadCounts ==
    /\ focus = "feedback" /\ ~Done /\ Exists(Reading)
    /\ pages' = pages + 1
    /\ offset' = NextPage(clients[Reading], FeedbackLimit, offset)
    /\ total' = total + Summary(Reading, clients[Reading], Tags, FeedbackLimit, offset).count
    /\ IF pages = 0
       THEN standing' = AllStanding(Reading, Tags) /\ seen' = standing'
       ELSE UNCHANGED <<standing, seen>>
    /\ UNCHANGED <<feedbackVars, registryVars, focus, keyReader>>

FeedbackChange ==
    /\ focus = "feedback"
    /\ FeedbackNext /\ NoApproval
    /\ IF MidRead
       THEN /\ standing' = standing \cap AllStanding(Reading, Tags)'
            /\ seen' = seen \cup AllStanding(Reading, Tags)'
       ELSE UNCHANGED <<standing, seen>>
    /\ UNCHANGED <<registryVars, focus, offset, pages, total, keyReader>>

(* The average by its definition: all that stands, brought to the finest   *)
(* precision among it, over their number.                                  *)
Reference(a, filter) ==
    LET S == AllStanding(a, filter)
        Fb(p) == feedback[a][p[1]][p[2]]
        finest == Max({0} \cup {Fb(p).valueDecimals : p \in S})
        sum == SumFunction([p \in S |-> Fb(p).value * TenTo[finest - Fb(p).valueDecimals]])
    IN  [count |-> Cardinality(S), decimals |-> finest,
         value |-> IF S = {} THEN 0 ELSE Quotient(sum, Cardinality(S))]

(* getSummary over all clients counts all that stands, names the finest    *)
(* precision among it and, if the average at that precision is an int128   *)
(* at all, returns the average, for every filter and whatever order        *)
(* feedback of mixed precision came in.                                    *)
SummaryIsAverage ==
    \A a \in AgentIds, filter \in SUBSET Tags :
        LET summary == Summary(a, clients[a], filter, 0, 0)
            average == Reference(a, filter)
        IN  /\ summary.count = average.count /\ summary.decimals = average.decimals
            /\ average.value \in -ValueLimit .. ValueLimit - 1 => summary.value = average.value

(* Pages read while feedback comes and goes add up to no less than what    *)
(* stood all the while, and no more than what ever stood meanwhile: no     *)
(* entry is skipped and none counted twice.                                *)
PagedCountIsBracketed ==
    Done => Cardinality(standing) <= total /\ total <= Cardinality(seen)

-----------------------------------------------------------------------------
ReadNext == KeysChange \/ FeedbackChange \/ ReadKeys \/ ReadCounts \/ ReadAgain

ReadSpec == ReadInit /\ [][ReadNext]_readVars

(* Feedback on one agent; two holders of agents with keys; little          *)
(* feedback, and one precision per sign of the value.                      *)
Bounded ==
    /\ focus = "keys" => Cardinality({owner[a] : a \in AgentIds} \cup {registryOwner, NoAddress}) <= 3
    /\ focus = "feedback" => lastId <= Reading + 1
    /\ SumFunction([c \in Accounts |-> Len(feedback[Reading][c])]) <= MaxTotal
    /\ \A c \in Accounts : \A i \in DOMAIN feedback[Reading][c] :
          feedback[Reading][c][i].value > 0 <=> feedback[Reading][c][i].valueDecimals > 0

MCValues == {-9, 25}

(* Only the initial state tells accounts apart (RegistryDeployer).         *)
Symmetric == Permutations(Accounts)

=============================================================================
