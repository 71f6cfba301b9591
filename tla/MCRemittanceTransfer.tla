------------------------ MODULE MCRemittanceTransfer ------------------------
(* RemittanceTransfer on small instances.                                  *)
EXTENDS RemittanceTransfer

Send(token, amount) == [tool |-> "send", token |-> token, buys |-> token, amount |-> amount]
Swap(token, buys, amount) == [tool |-> "execute", token |-> token, buys |-> buys, amount |-> amount]

(* A short send by two hops, one by one hop and a swap.                    *)
MCRequests == {Send("EURm", 2), Send("USDm", 1), Swap("USDm", "EURm", 1)}
MCFunds == [x \in Tokens |-> CASE x = "CELO" -> 8 [] x = "USDm" -> 1 [] OTHER -> 0]

=============================================================================
