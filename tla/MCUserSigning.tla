--------------------------- MODULE MCUserSigning ---------------------------
(* UserSigning on a small instance, with a history of the transfers that   *)
(* were rejected before they were sent.                                    *)
EXTENDS UserSigning

VARIABLE refused  \* history: ids rejected while no transaction of theirs was out

mcVars == <<vars, refused>>

MCInit == Init /\ refused = {}

MCNext ==
    /\ Next
    /\ refused' = refused \cup
          {id \in TransferIds :
              /\ pending[id] # NoEntry /\ pending[id].status = "pending"
              /\ IF pending'[id] = NoEntry THEN ~IsExpired(pending[id])
                                           ELSE pending'[id].status = "rejected"}

MCSpec == MCInit /\ [][MCNext]_mcVars

(* A transfer rejected before it was sent is never sent, however often the *)
(* same request is prepared again.                                         *)
RejectedIsNeverSent == \A x \in Sent : x.id \notin refused

=============================================================================
