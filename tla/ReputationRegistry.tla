------------------------- MODULE ReputationRegistry -------------------------
(***************************************************************************)
(* contracts/src/ReputationRegistry.sol composed with the identity         *)
(* registry: feedback that clients give on agents, and the average that    *)
(* readers compute from it, whole or page by page.                         *)
(*                                                                         *)
(* The two tags of a feedback are one element of Tags and a filter is the  *)
(* set of tags it lets through; of its link (feedbackURI and feedbackHash) *)
(* only whose it is.  An int128 scaled by at most 10 ** 18 leaves 2 ** 68  *)
(* of room in the int256 of the sum, so the sum is exact; the average is   *)
(* converted back to int128.  A reverted call is a stuttering step.        *)
(***************************************************************************)
EXTENDS AgentOwnership, Integers, Sequences

CONSTANTS ValueLimit,   \* 2 ** 127: an int128 is at least minus this, and below it
          Values,       \* int128 arguments
          Decimals,     \* uint8 arguments
          MaxDecimals,  \* 18
          Tags,
          MaxFeedback   \* bound on _feedbackCount: feedback per agent and client

ASSUME ReputationAssumption ==
    /\ ValueLimit \in Nat \ {0}
    /\ Values \subseteq -ValueLimit .. ValueLimit - 1 /\ Decimals \subseteq Nat
    /\ MaxDecimals \in Nat /\ MaxFeedback \in Nat

VARIABLES feedback,  \* _feedback: agent -> client -> sequence of [value, valueDecimals, tag,
                     \* isRevoked, linkOf]; _feedbackCount is its length
          clients,   \* _clients: agent -> clients in the order of their first feedback
          isClient   \* _isClient: agent -> set of clients

reputationVars == <<feedback, clients, isClient>>
feedbackVars == <<ownershipVars, reputationVars>>

FeedbackInit ==
    /\ OwnershipInit
    /\ feedback = [a \in AgentIds |-> [c \in Accounts |-> <<>>]]
    /\ clients = [a \in AgentIds |-> <<>>]
    /\ isClient = [a \in AgentIds |-> {}]

-----------------------------------------------------------------------------

Listed(sender, a) ==
    IF sender \in isClient[a] THEN UNCHANGED <<clients, isClient>>
    ELSE /\ clients' = [clients EXCEPT ![a] = Append(@, sender)]
         /\ isClient' = [isClient EXCEPT ![a] = @ \cup {sender}]

(* Zero is refused, the range of the value is not looked at.               *)
Valid(value, decimals) == value # 0 /\ decimals <= MaxDecimals

(* Only the owner of the moment may not give feedback.                     *)
GiveFeedback(sender, a, value, decimals, tag) ==
    /\ Exists(a)
    /\ sender # owner[a]
    /\ Valid(value, decimals)
    /\ Len(feedback[a][sender]) < MaxFeedback
    /\ feedback' = [feedback EXCEPT ![a][sender] =
                      Append(@, [value |-> value, valueDecimals |-> decimals, tag |-> tag,
                                 isRevoked |-> FALSE, linkOf |-> "client"])]
    /\ Listed(sender, a)
    /\ UNCHANGED ownershipVars

(* A client revokes its own feedback, once.                                *)
RevokeFeedback(sender, a, i) ==
    /\ Exists(a)
    /\ i \in DOMAIN feedback[a][sender]
    /\ ~feedback[a][sender][i].isRevoked
    /\ feedback' = [feedback EXCEPT ![a][sender][i].isRevoked = TRUE]
    /\ UNCHANGED <<ownershipVars, clients, isClient>>

(* The answer of the agent's owner takes the place of the client's link,   *)
(* on revoked feedback too.                                                *)
AppendResponse(sender, a, client, i) ==
    /\ Exists(a)
    /\ i \in DOMAIN feedback[a][client]
    /\ sender = owner[a]
    /\ feedback' = [feedback EXCEPT ![a][client][i].linkOf = "owner"]
    /\ UNCHANGED <<ownershipVars, clients, isClient>>

FeedbackBy(sender) ==
    \E a \in AgentIds :
        \/ \E value \in Values, decimals \in Decimals, tag \in Tags :
              GiveFeedback(sender, a, value, decimals, tag)
        \/ \E i \in 1 .. MaxFeedback :
              \/ RevokeFeedback(sender, a, i)
              \/ \E client \in Accounts : AppendResponse(sender, a, client, i)

FeedbackNext ==
    \/ \E sender \in Accounts : FeedbackBy(sender)
    \/ OwnershipNext /\ UNCHANGED reputationVars

FeedbackSpec == FeedbackInit /\ [][FeedbackNext]_feedbackVars

-----------------------------------------------------------------------------
(* getSummary and getSummaryPaged.                                         *)

(* The clients [offset, end) of the list, limit 0 meaning all of them.     *)
ClientPage(list, limit, offset) ==
    SubSeq(list, offset + 1,
           IF limit > 0 /\ offset + limit < Len(list) THEN offset + limit ELSE Len(list))

(* Mutant: the page is counted from one.                                   *)
NextPageLate(list, limit, offset) ==
    IF limit > 0 /\ offset + limit < Len(list) THEN offset + limit + 1 ELSE 0

NextPage(list, limit, offset) ==
    IF limit > 0 /\ offset + limit < Len(list) THEN offset + limit ELSE 0

(* 10 ** n; recursive as a function, so that it can be reasoned about.     *)
TenTo[n \in 0 .. MaxDecimals] == IF n = 0 THEN 1 ELSE 10 * TenTo[n - 1]

Counts(fb, filter) == ~fb.isRevoked /\ fb.tag \in filter

(* Mutant: a sum of fewer decimals is not scaled up.                       *)
AddedUnscaled(acc, fb) ==
    IF fb.valueDecimals > acc.decimals
    THEN [count |-> acc.count + 1, decimals |-> fb.valueDecimals, sum |-> acc.sum + fb.value]
    ELSE [acc EXCEPT !.count = @ + 1,
                     !.sum = @ + fb.value * TenTo[acc.decimals - fb.valueDecimals]]

(* One turn of the loop: the coarser of the two is scaled to the finer.    *)
Added(acc, fb) ==
    IF fb.valueDecimals > acc.decimals
    THEN [count |-> acc.count + 1, decimals |-> fb.valueDecimals,
          sum |-> acc.sum * TenTo[fb.valueDecimals - acc.decimals] + fb.value]
    ELSE [acc EXCEPT !.count = @ + 1,
                     !.sum = @ + fb.value * TenTo[acc.decimals - fb.valueDecimals]]

(* The inner loop, over the feedback of one client, and the outer one,     *)
(* over the clients of the page.                                           *)
AddedList(acc, list, filter) ==
    LET upTo[j \in 0 .. Len(list)] ==
            IF j = 0 THEN acc
            ELSE IF Counts(list[j], filter) THEN Added(upTo[j - 1], list[j]) ELSE upTo[j - 1]
    IN  upTo[Len(list)]

Nothing == [count |-> 0, decimals |-> 0, sum |-> 0]

AddedPage(a, page, filter) ==
    LET upTo[i \in 0 .. Len(page)] ==
            IF i = 0 THEN Nothing ELSE AddedList(upTo[i - 1], feedback[a][page[i]], filter)
    IN  upTo[Len(page)]

(* Solidity divides towards zero.                                          *)
Quotient(n, d) == IF n < 0 THEN -((-n) \div d) ELSE n \div d

(* int128(x) of an int256: the low 128 bits, no overflow is reported.      *)
Narrowed(x) == ((x + ValueLimit) % (2 * ValueLimit)) - ValueLimit

Summary(a, list, filter, limit, offset) ==
    LET acc == AddedPage(a, ClientPage(list, limit, offset), filter)
    IN  [count |-> acc.count, decimals |-> IF acc.count > 0 THEN acc.decimals ELSE 0,
         value |-> IF acc.count > 0 THEN Narrowed(Quotient(acc.sum, acc.count)) ELSE 0]

=============================================================================
