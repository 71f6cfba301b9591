---------------------------- MODULE RouteFinder ----------------------------
(***************************************************************************)
(* services/route_optimization_service.py with the find_optimal_routes     *)
(* tool: routes between currencies over the pools of Mento, and the cache  *)
(* of what was found.                                                      *)
(*                                                                         *)
(* Every pool takes the same fee, so the estimated output falls with the   *)
(* length of a path and stands for it.  Amounts are one; liquidity,        *)
(* slippage and confidence are left out.                                   *)
(***************************************************************************)
EXTENDS Naturals, Sequences, SequencesExt

CONSTANTS Currencies, Aliased,   \* the symbols users write for some of them
          Canonical,             \* CURRENCY_ALIASES, the identity elsewhere
          Pools,                 \* MENTO_POOLS: sets of two currencies
          USDm, CELO,
          RouteTTL, MaxRoutes, RoutesDropped,  \* 60 seconds, 500 and 100
          MaxRouteTime           \* bound

ASSUME RouteAssumption ==
    /\ Canonical \in [Currencies \cup Aliased -> Currencies]
    /\ \A c \in Currencies : Canonical[c] = c
    /\ Pools \subseteq SUBSET Currencies
    /\ {USDm, CELO} \subseteq Currencies
    /\ {RouteTTL, MaxRoutes, RoutesDropped} \subseteq Nat \ {0}
    /\ MaxRouteTime \in Nat

VARIABLES routeCache, \* _cache: [src, dst, routes, expires] in the order they expire in
          found,      \* the last answer: [src, dst, routes]
          clock

routeVars == <<routeCache, found, clock>>

(* A path passes over pools; a step from a currency to itself has none.    *)
IsPath(path) == \A i \in 1 .. Len(path) - 1 : {path[i], path[i + 1]} \in Pools

(* The paths tried, in order: direct, over USDm, over CELO, over both.     *)
Direct(src, dst) == {<<src, dst>>}
Over(src, dst, via) == IF via \notin {src, dst} THEN {<<src, via, dst>>} ELSE {}
OverBoth(src, dst) ==
    IF src \notin {CELO, USDm} /\ dst # USDm THEN {<<src, CELO, USDm, dst>>} ELSE {}

(* Mutant: a detour over CELO hides the one over USDm.                     *)
TriedOnce(src, dst) == Direct(src, dst) \cup Over(src, dst, CELO) \cup OverBoth(src, dst)

Tried(src, dst) ==
    Direct(src, dst) \cup Over(src, dst, USDm) \cup Over(src, dst, CELO) \cup OverBoth(src, dst)

RoutesFor(src, dst) == {path \in Tried(src, dst) : IsPath(path)}

(* The path with the highest output is the one with the fewest pools, and  *)
(* of those the first tried.                                               *)
Shortest(paths) ==
    LET best == {p \in paths : \A r \in paths : Len(p) <= Len(r)} IN
    IF best = {} THEN <<>>
    ELSE IF \E p \in best : p[2] = USDm THEN CHOOSE p \in best : p[2] = USDm
    ELSE CHOOSE p \in best : TRUE

RouteInit == routeCache = <<>> /\ found = [src |-> USDm, dst |-> USDm, path |-> <<>>] /\ clock = 0

CachedRoute(src, dst) ==
    {i \in DOMAIN routeCache : /\ routeCache[i].src = src /\ routeCache[i].dst = dst
                               /\ routeCache[i].expires > clock}

(* _set_cached: the new entry replaces an old one under its key; above the *)
(* limit those that expire first go.                                       *)
WithEntry(entry) ==
    LET old == {i \in DOMAIN routeCache : /\ routeCache[i].src = entry.src
                                          /\ routeCache[i].dst = entry.dst}
        others == IF old = {} THEN routeCache
                  ELSE RemoveAt(routeCache, CHOOSE i \in old : TRUE)
        all == Append(others, entry)
    IN  IF Len(all) > MaxRoutes THEN SubSeq(all, RoutesDropped + 1, Len(all)) ELSE all

FindRoutes(from, to) ==
    LET src == Canonical[from]
        dst == Canonical[to]
    IN  /\ src # dst
        /\ IF CachedRoute(src, dst) # {}
           THEN /\ found' = [src |-> src, dst |-> dst,
                             path |-> routeCache[CHOOSE i \in CachedRoute(src, dst) : TRUE].path]
                /\ UNCHANGED routeCache
           ELSE LET path == Shortest(RoutesFor(src, dst)) IN
                /\ found' = [src |-> src, dst |-> dst, path |-> path]
                /\ routeCache' = WithEntry([src |-> src, dst |-> dst, path |-> path,
                                            expires |-> clock + RouteTTL])
        /\ UNCHANGED clock

RouteTick ==
    /\ clock < MaxRouteTime
    /\ clock' = clock + 1
    /\ UNCHANGED <<routeCache, found>>

RouteNext ==
    \/ \E from, to \in Currencies \cup Aliased : FindRoutes(from, to)
    \/ RouteTick

-----------------------------------------------------------------------------
(* The ways from one currency to another, m currencies long.               *)
Ways(m, src, dst) == {p \in [1 .. m -> Currencies] : p[1] = src /\ p[m] = dst /\ IsPath(p)}

(* No pool leads out of some currencies with src and without dst.          *)
CutOff(src, dst) ==
    \E S \in SUBSET Currencies :
        /\ src \in S /\ dst \notin S
        /\ \A pool \in Pools : pool \subseteq S \/ pool \cap S = {}

(* What is recommended is a way over pools that exist, no other is shorter,*)
(* and there is one wherever the pools connect the two currencies: though  *)
(* only detours over USDm and CELO are tried.                              *)
RecommendedIsShortest ==
    LET path == found.path IN
    IF path # <<>>
    THEN /\ path \in Ways(Len(path), found.src, found.dst)
         /\ \A m \in 1 .. Len(path) - 1 : Ways(m, found.src, found.dst) = {}
    ELSE found.src = found.dst \/ CutOff(found.src, found.dst)

=============================================================================
