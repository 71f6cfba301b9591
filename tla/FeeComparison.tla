--------------------------- MODULE FeeComparison ---------------------------
(***************************************************************************)
(* services/fee_comparison_service.py over WiseClient, with the tools      *)
(* compare_fees_with_providers and monitor_fee_changes: a cache of         *)
(* real-time comparisons over the client's own cache, and one of static    *)
(* ones.                                                                   *)
(*                                                                         *)
(* A comparison that prefers real-time data may suspend in the client, and *)
(* others run meanwhile; one that does not is a single step.  Fees, ranks, *)
(* savings and recommendations are left out: a comparison is modelled by   *)
(* its label and time and by whose fees it compares.                       *)
(***************************************************************************)
EXTENDS WiseClient

CONSTANTS Quotes,       \* amount, currency and country: what comparisons are keyed by
          PairOf,       \* the client's pair for them, or Unsupported
          HasClient,    \* the service has a WiseClient
          NoCall, NoAnswer,
          RealtimeTTL,  \* REALTIME_CACHE_TTL
          FeeTTL,       \* FEE_CACHE_TTL
          KeepHistory, KeepMonitored, \* 1000 and 500
          MaxTime       \* bound

ASSUME FeeAssumption ==
    /\ PairOf \in [Quotes -> Pairs \cup {Unsupported}]
    /\ HasClient \in BOOLEAN
    /\ {RealtimeTTL, FeeTTL, KeepHistory, KeepMonitored} \subseteq Nat \ {0}
    /\ MaxTime \in Nat

VARIABLES realtime,  \* _realtime_cache
          static,    \* _cache
          call,      \* the comparison each caller is in
          answer,    \* the last one given, and when
          history,   \* the labels in _historical_data
          monitored  \* the quotes in _fee_monitor_data

feeVars == <<realtime, static, call, answer, history, monitored>>
vars == <<wiseVars, feeVars>>

Labels == {"realtime", "cache", "simulated", "static"}
Result == [label : Labels, at : Nat, fees : {"wise", "simulated", "static"}]
Cached == [result : Result, expires : Nat]
Call == [quote : Quotes, began : Nat, monitors : BOOLEAN]
Answer == [result : Result, given : Nat]

ASSUME NoneAssumption ==
    NoEntry \notin Entry \cup Cached /\ NoCall \notin Call /\ NoAnswer \notin Answer

FeeTypeOK ==
    /\ wise \in [Pairs -> Entry \cup {NoEntry}]
    /\ attempt \in [Callers -> Nat]
    /\ now \in Nat
    /\ realtime \in [Quotes -> Cached \cup {NoEntry}]
    /\ static \in [Quotes -> Cached \cup {NoEntry}]
    /\ call \in [Callers -> Call \cup {NoCall}]
    /\ answer \in Answer \cup {NoAnswer}

FeeInit ==
    /\ WiseInit
    /\ realtime = [q \in Quotes |-> NoEntry]
    /\ static = [q \in Quotes |-> NoEntry]
    /\ call = [c \in Callers |-> NoCall]
    /\ answer = NoAnswer
    /\ history = <<>> /\ monitored = <<>>

-----------------------------------------------------------------------------
(* Results *)

Fresh(cache, q) == cache[q] # NoEntry /\ cache[q].expires > now

StaticResult(began) == [label |-> "static", at |-> began, fees |-> "static"]
SimulatedResult == [label |-> "simulated", at |-> now, fees |-> "simulated"]

(* The client's data keep the time they were fetched at.  Without a single *)
(* provider in them the static fees stand in, under the client's label.    *)
WiseResult(label, at, providers) ==
    [label |-> label, at |-> at, fees |-> IF providers THEN "wise" ELSE "static"]

LastOf(s, n) == IF Len(s) > n THEN SubSeq(s, Len(s) - n + 1, Len(s)) ELSE s

(* A result made anew goes to the cache of its kind, for as long as that   *)
(* keeps it, and into the history.                                         *)
IsRealtime(result) == result.label \in {"realtime", "cache"}

(* Mutant: real-time results are kept like static ones.                    *)
EntryLong(result) == [result |-> result, expires |-> now + FeeTTL]

NewEntry(result) ==
    [result |-> result,
     expires |-> now + (IF IsRealtime(result) THEN RealtimeTTL ELSE FeeTTL)]

Store(q, result) ==
    /\ IF IsRealtime(result)
       THEN realtime' = [realtime EXCEPT ![q] = NewEntry(result)] /\ UNCHANGED static
       ELSE static' = [static EXCEPT ![q] = NewEntry(result)] /\ UNCHANGED realtime
    /\ history' = LastOf(Append(history, result.label), KeepHistory)

Give(c, q, result, monitors) ==
    /\ answer' = [result |-> result, given |-> now]
    /\ call' = [call EXCEPT ![c] = NoCall]
    /\ monitored' = IF monitors THEN LastOf(Append(monitored, q), KeepMonitored)
                    ELSE monitored

-----------------------------------------------------------------------------
(* compare_fees with prefer_realtime, for itself or for monitor_fee_changes*)

FromCache(c, q, monitors) ==
    /\ Fresh(realtime, q)
    /\ Give(c, q, realtime[q].result, monitors)
    /\ UNCHANGED <<wiseVars, realtime, static, history>>

(* The client answers at once, with an error from which the static fees    *)
(* follow, or there is no client.                                          *)
AtOnce(c, q, monitors) ==
    LET p == PairOf[q]
        begins == IF HasClient THEN Begins(p) ELSE "none"
        result == CASE begins = "cached" -> WiseResult("cache", wise[p].at, wise[p].providers)
                    [] begins = "simulated" -> SimulatedResult
                    [] OTHER -> StaticResult(now)
    IN  /\ ~Fresh(realtime, q)
        /\ begins # "asks"
        /\ Pruned(begins)
        /\ Store(q, result)
        /\ Give(c, q, result, monitors)

Asks(c, q, monitors) ==
    /\ ~Fresh(realtime, q)
    /\ HasClient /\ Begins(PairOf[q]) = "asks"
    /\ Ask(c)
    /\ call' = [call EXCEPT ![c] = [quote |-> q, began |-> now, monitors |-> monitors]]
    /\ UNCHANGED <<realtime, static, answer, history, monitored>>

Compare(c, q, monitors) ==
    /\ call[c] = NoCall
    /\ FromCache(c, q, monitors) \/ AtOnce(c, q, monitors) \/ Asks(c, q, monitors)

(* Mutant: data count as fetched when they were asked for.                 *)
AskedAt(c) == call[c].began

FetchedAt(c) == now

(* The comparison ends with what the client brought, or static fees.       *)
Ends(c, outcome) ==
    LET q == call[c].quote
        result == IF Caches(outcome) THEN WiseResult("realtime", FetchedAt(c), outcome = "quotes")
                  ELSE StaticResult(call[c].began)
    IN  /\ Done(c)
        /\ StoreWise(PairOf[q], outcome, FetchedAt(c))
        /\ Store(q, result)
        /\ Give(c, q, result, call[c].monitors)

HttpAnswer(c, outcome) ==
    /\ InFlight(c)
    /\ IF Sleeps(c, outcome)
       THEN FallsAsleep(c) /\ UNCHANGED feeVars
       ELSE Ends(c, outcome)

Retry(c) == NextAttempt(c) /\ UNCHANGED feeVars

GivesUp(c) == LastSleep(c) /\ Ends(c, "failed")

-----------------------------------------------------------------------------
(* compare_fees without: what the static cache has, or static fees.  It    *)
(* never suspends.                                                         *)
StaticComparison(q) ==
    IF Fresh(static, q) THEN UNCHANGED <<realtime, static, history>>
    ELSE Store(q, StaticResult(now))

StaticAnswer(q) == IF Fresh(static, q) THEN static[q].result ELSE StaticResult(now)

CompareStatic(c, q) ==
    /\ call[c] = NoCall
    /\ StaticComparison(q)
    /\ Give(c, q, StaticAnswer(q), FALSE)
    /\ UNCHANGED wiseVars

Tick ==
    /\ now < MaxTime
    /\ now' = now + 1
    /\ UNCHANGED <<wise, calls, attempt, asleep, feeVars>>

FeeNext ==
    \/ \E c \in Callers, q \in Quotes, monitors \in BOOLEAN : Compare(c, q, monitors)
    \/ \E c \in Callers, outcome \in Outcomes : HttpAnswer(c, outcome)
    \/ \E c \in Callers : Retry(c)
    \/ \E c \in Callers : GivesUp(c)
    \/ \E c \in Callers, q \in Quotes : CompareStatic(c, q)
    \/ Tick

(* Attempts end, by their timeout at the latest, and so do pauses.         *)
FeeFairness ==
    \A c \in Callers : WF_vars(\E outcome \in Outcomes : HttpAnswer(c, outcome))
                       /\ WF_vars(Retry(c)) /\ WF_vars(GivesUp(c))

FeeSpec == FeeInit /\ [][FeeNext]_vars /\ FeeFairness

-----------------------------------------------------------------------------
(* Two caches lie between a quote and who asks: what is called real-time   *)
(* may be as old as both together, and no older.                           *)
RealtimeWithinBothTTLs ==
    answer # NoAnswer /\ IsRealtime(answer.result)
        => answer.given < answer.result.at + WiseTTL + RealtimeTTL

(* A comparison never replaces real-time data by older ones, though two    *)
(* requests for one quote may be under way and end in either order.        *)
Newer(q) ==
    realtime[q] # NoEntry =>
        realtime'[q] # NoEntry /\ realtime'[q].result.at >= realtime[q].result.at
RealtimeNeverGoesBack == [][\A q \in Quotes : Newer(q)]_vars

(* Every comparison comes back.                                            *)
EveryComparisonEnds == \A c \in Callers : call[c] # NoCall ~> call[c] = NoCall

=============================================================================
