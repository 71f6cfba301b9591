------------------------ MODULE MCAgentPaymentPool ------------------------
(* AgentPaymentPool on a small instance, with a history of what each agent *)
(* had been paid by each instant.                                          *)
EXTENDS AgentPaymentPool

VARIABLE earnedBy  \* history: agent -> instant -> what it had been paid at the instant's end

Instants == 0 .. MaxTime
mcVars == <<vars, earnedBy>>

MCInit == Init /\ earnedBy = [a \in AgentIds |-> [t \in Instants |-> 0]]

MCNext ==
    /\ Next
    /\ earnedBy' = [a \in AgentIds |->
          [t \in Instants |-> IF t < now THEN earnedBy[a][t] ELSE totalEarned'[a]]]

MCSpec == MCInit /\ [][MCNext]_mcVars

(* The pool reads the owner of an agent and nothing else of the identity   *)
(* registry: approvals are explored one step deep only.                    *)
FewApprovals == operators = {} /\ approved = [a \in AgentIds |-> NoAddress]

MCMultipliers == [t \in Tiers |-> t + 1]
MCTables == {[t \in Tiers |-> 2]}

PaidWithin(a, first, last) ==
    earnedBy[a][last] - (IF first = 0 THEN 0 ELSE earnedBy[a][first - 1])

LargestCap == CHOOSE c \in Caps \cup {InitialCap} : \A d \in Caps \cup {InitialCap} : d <= c

(* However payments fall around the start of windows, and however the cap  *)
(* moves, no span of one day carries two caps: its payments belong to at   *)
(* most two windows, and when to two, the first opened with a payment that *)
(* lies before the span.                                                   *)
LessThanTwoCapsInAnyDay ==
    \A a \in AgentIds : \A t \in 0 .. (MaxTime - Day + 1) :
        PaidWithin(a, t, t + Day - 1) < 2 * LargestCap

=============================================================================
