------------------------------ MODULE MCQuotes ------------------------------
(* What users are told of prices before a transfer: FeeComparison,         *)
(* TransferPreview and RouteFinder.  The first two share the static        *)
(* comparisons; focus says which of the three services a behaviour         *)
(* exercises, the previews together with the comparisons they use.         *)
EXTENDS TransferPreview, RouteFinder, TLC

VARIABLES focus,
          asked,    \* history: when the last requests to Wise began, as many as Limit
          standing  \* history: the previews made and not invalidated

mcVars == <<allVars, routeVars, focus, asked, standing>>

CONSTANTS u, cusd, usdPhp,           \* quotes: USD and cUSD to one country, and their pair
          eurm, brlm, lone, cEUR   \* currencies and an alias

MCPairOf == (u :> usdPhp) @@ (cusd :> usdPhp)
MCCanonical == [c \in Currencies |-> c] @@ (cEUR :> eurm)
MCPools == {{USDm, CELO}, {USDm, eurm}, {USDm, brlm}, {eurm, CELO}}

MCInit ==
    /\ PreviewInit /\ RouteInit
    /\ focus \in {"fees", "previews", "routes"}
    /\ asked = <<>> /\ standing = {}

Begun == \E c \in Callers : attempt[c] = 0 /\ attempt'[c] = 1

MCNext ==
    \/ /\ focus = "fees"
       /\ FeeNext
       /\ asked' = IF Begun THEN LastOf(Append(asked, now), Limit) ELSE asked
       /\ UNCHANGED <<previewVars, routeVars, focus, standing>>
    \/ /\ focus = "previews"
       /\ PreviewNext
       /\ call' = call /\ answer' = answer
       /\ standing' = IF made' > made
                      THEN standing \cup {[id |-> made + 1, at |-> now]}
                      ELSE {s \in standing : \/ \E p \in previews' : p.id = s.id
                                             \/ ~\E p \in previews : p.id = s.id}
       /\ UNCHANGED <<routeVars, focus, asked>>
    \/ /\ focus = "routes"
       /\ RouteNext
       /\ UNCHANGED <<allVars, focus, asked, standing>>

(* States that differ only in what no guard and no property reads are one: *)
(* the two logs, who monitors, the times of static results, whose fees are *)
(* compared, and of the last answer all but the age of its data.           *)
KeptStatic == [q \in Quotes |-> IF static[q] = NoEntry THEN 0 ELSE static[q].expires]
KeptRealtime ==
    [q \in Quotes |-> IF realtime[q] = NoEntry THEN NoEntry
                      ELSE [at |-> realtime[q].result.at, expires |-> realtime[q].expires]]
KeptWise ==
    [p \in Pairs |-> IF wise[p] = NoEntry THEN NoEntry
                     ELSE [at |-> wise[p].at, expires |-> wise[p].expires]]
Asking == [c \in Callers |-> IF call[c] = NoCall THEN NoCall ELSE call[c].quote]
RealtimeAge ==
    IF answer # NoAnswer /\ IsRealtime(answer.result) THEN answer.given - answer.result.at ELSE -1
WhatMatters == <<KeptWise, calls, attempt, asleep, now, KeptRealtime, KeptStatic, Asking,
                 RealtimeAge, previewVars, routeVars, focus, asked, standing>>

MCSpec == MCInit /\ [][MCNext]_mcVars /\ (focus = "fees" => FeeFairness)

(* Requests of however many callers stay within the limit of any window    *)
(* of time, retries apart.                                                 *)
CallsWithinWindow ==
    [][Begun => Len(asked) < Limit \/ asked[1] + Window <= now]_mcVars

(* A preview is found again until it expires, unless it was invalidated or *)
(* as many newer ones were made as the cache holds; and the cache holds no *)
(* more.                                                                   *)
PreviewsLastTheirTime ==
    /\ Cardinality(previews) <= MaxCached
    /\ \A s \in standing :
          now < s.at + PreviewTTL /\ made - s.id < MaxCached
              => \E p \in previews : p.id = s.id

=============================================================================
