----------------------------- MODULE WiseClient -----------------------------
(***************************************************************************)
(* integrations/wise_client.py: the cache, the rate limit and the retries  *)
(* of the client of the Wise comparison API.                               *)
(*                                                                         *)
(* A call runs without a suspension up to its first HTTP attempt, and from *)
(* the answer to the last attempt to its end and on in its caller.  So     *)
(* this module has the state of a call between attempts and the operators  *)
(* its caller, FeeComparison, builds its steps from.                       *)
(*                                                                         *)
(* What a call fetches is modelled by when it was fetched; names, rates,   *)
(* fees and speeds of the quotes are left out.                             *)
(***************************************************************************)
EXTENDS Naturals, Sequences, SequencesExt

CONSTANTS Pairs,       \* source and target currency and amount: what the cache is keyed by
          Unsupported, \* the pair of a country that is not in COUNTRY_CURRENCY_MAP
          Callers,
          Configured,  \* there is an API key
          NoEntry,
          WiseTTL,     \* REALTIME_CACHE_TTL, seconds
          Window,      \* RATE_LIMIT_WINDOW_SECONDS
          Limit,       \* RATE_LIMIT_REQUESTS_PER_MINUTE
          MaxRetries

ASSUME WiseAssumption ==
    /\ Configured \in BOOLEAN
    /\ Unsupported \notin Pairs
    /\ {WiseTTL, Window, Limit, MaxRetries} \subseteq Nat \ {0}

VARIABLES wise,     \* _cache: the entry of each pair
          calls,    \* _rate_limit_timestamps
          attempt,  \* the number of the attempt each caller is in, 0: none
          asleep,   \* the callers that wait for their next attempt
          now       \* time.time()

wiseVars == <<wise, calls, attempt, asleep, now>>

Entry == [at : Nat, expires : Nat, providers : BOOLEAN]

WiseInit ==
    /\ wise = [p \in Pairs |-> NoEntry]
    /\ calls = <<>>
    /\ attempt = [c \in Callers |-> 0]
    /\ asleep = {}
    /\ now = 0

(* _get_cached.                                                            *)
WiseFresh(p) == wise[p] # NoEntry /\ wise[p].expires > now

(* _check_rate_limit.  The calls still in the window, in their order; a     *)
(* recursive function, so that it can be reasoned about.                   *)
Recent ==
    LET recent[n \in 0 .. Len(calls)] ==
            IF n = 0 THEN <<>>
            ELSE IF calls[n] + Window > now THEN Append(recent[n - 1], calls[n])
            ELSE recent[n - 1]
    IN  recent[Len(calls)]

(* Mutant: the limit counts to one too many.                               *)
HasRoomForOneMore == Len(Recent) <= Limit

HasRoom == Len(Recent) < Limit

(* How get_comparison_for_country begins: with an answer at once or with a *)
(* request.                                                                *)
Begins(p) ==
    IF p = Unsupported THEN "unsupported"
    ELSE IF ~Configured THEN "simulated"
    ELSE IF WiseFresh(p) THEN "cached"
    ELSE IF HasRoom THEN "asks"
    ELSE "refused"

(* The request takes its place in the window once, whatever its attempts.  *)
Ask(c) ==
    /\ calls' = Append(Recent, now)
    /\ attempt' = [attempt EXCEPT ![c] = 1]
    /\ UNCHANGED <<wise, asleep, now>>

(* The limit prunes its window whenever it is checked.                     *)
Pruned(begins) ==
    /\ calls' = IF begins = "refused" THEN Recent ELSE calls
    /\ UNCHANGED <<wise, attempt, asleep, now>>

-----------------------------------------------------------------------------
(* What an attempt brings: quotes; an object without any quote the parser  *)
(* can use; an array, on which get_comparison fails before it is parsed;   *)
(* an error that ends the request; or one worth another attempt, with a    *)
(* pause behind a 429 or 5xx even if there is none left.                   *)
Outcomes == {"quotes", "noQuotes", "array", "error", "busy", "failed"}

InFlight(c) == attempt[c] # 0 /\ c \notin asleep
Sleeps(c, outcome) == outcome = "busy" \/ (outcome = "failed" /\ attempt[c] < MaxRetries)

(* Mutant: the loop counts one attempt too many.                           *)
LastSleepLate(c) == c \in asleep /\ attempt[c] = MaxRetries + 1

LastSleep(c) == c \in asleep /\ attempt[c] = MaxRetries

FallsAsleep(c) ==
    /\ asleep' = asleep \cup {c}
    /\ UNCHANGED <<wise, calls, attempt, now>>

NextAttempt(c) ==
    /\ c \in asleep /\ attempt[c] < MaxRetries
    /\ asleep' = asleep \ {c}
    /\ attempt' = [attempt EXCEPT ![c] = @ + 1]
    /\ UNCHANGED <<wise, calls, now>>

Done(c) ==
    /\ attempt' = [attempt EXCEPT ![c] = 0]
    /\ asleep' = asleep \ {c}
    /\ UNCHANGED <<calls, now>>

Caches(outcome) == outcome \in {"quotes", "noQuotes"}

(* The end of get_comparison behind _request, for data fetched at a time.  *)
StoreWise(p, outcome, at) ==
    wise' = IF Caches(outcome)
            THEN [wise EXCEPT ![p] = [at |-> at, expires |-> now + WiseTTL,
                                      providers |-> outcome = "quotes"]]
            ELSE wise

=============================================================================
