-------------------------- MODULE TransferPreview --------------------------
(***************************************************************************)
(* services/transfer_preview_service.py over FeeComparison, with the       *)
(* /transfer/preview endpoints of server.py and the preview_transfer tool. *)
(*                                                                         *)
(* A preview is made in one step: the route and the balance come from      *)
(* blocking calls to the node, the comparison does not prefer real-time    *)
(* data, and none of it suspends.  What the node answers is any of what it *)
(* can.  Amounts and fees are left out.                                    *)
(***************************************************************************)
EXTENDS FeeComparison, FiniteSets, FiniteSetsExt

CONSTANTS HasNode,      \* the Mento plugin is connected to a node
          PreviewTTL,   \* PREVIEW_TTL_SECONDS
          MaxCached,    \* MAX_CACHED_PREVIEWS
          MaxPreviews   \* bound

ASSUME PreviewAssumption ==
    /\ HasNode \in BOOLEAN
    /\ {PreviewTTL, MaxCached} \subseteq Nat \ {0}
    /\ MaxPreviews \in Nat

VARIABLES previews,  \* _preview_cache
          made       \* the number of previews made: the last one's id

previewVars == <<previews, made>>
allVars == <<vars, previewVars>>

(* comparisons and savings hold whether there are any to show.             *)
Preview == [id : 1 .. MaxPreviews, quote : Quotes, at : Nat,
            route : {"found", "assumed"}, balance : {"enough", "short", "assumed"},
            comparisons : BOOLEAN]

PreviewInit == FeeInit /\ previews = {} /\ made = 0

Expired(p) == now >= p.at + PreviewTTL

(* find_optimal_route answers whether it found a pool; where it did not,   *)
(* the preview takes a rate of one.                                        *)
Routes == IF HasNode THEN {"found", "assumed"} ELSE {"assumed"}

(* A balance that cannot be read counts as enough.                         *)
Balances == IF HasNode THEN {"enough", "short", "assumed"} ELSE {"assumed"}

(* _get_fee_comparisons looks for "providers" in a result that has them    *)
(* under "comparisons": there are none, whatever the comparison says.      *)
HasProviders(result) == FALSE

-----------------------------------------------------------------------------
NewestOf(ps, n) == {p \in ps : Cardinality({r \in ps : r.id > p.id}) < n}

(* Mutant: the size is enforced before the expired ones are gone and       *)
(* counts the new preview out.                                             *)
EvictedEarly(ps) == {p \in NewestOf(ps, MaxCached - 1) : ~Expired(p)}

(* _evict_expired_previews: the expired ones, then the oldest above the    *)
(* limit.                                                                  *)
Evicted(ps) == NewestOf({p \in ps : ~Expired(p)}, MaxCached)

(* preview_transfer.  The id is a hash with the time in it: no two agree.  *)
(* Without a country of destination no comparison is asked for.            *)
MakePreview(q) ==
    /\ made < MaxPreviews
    /\ made' = made + 1
    /\ StaticComparison(q) \/ UNCHANGED <<realtime, static, history>>
    /\ \E route \in Routes, balance \in Balances :
          LET p == [id |-> made + 1, quote |-> q, at |-> now, route |-> route,
                    balance |-> balance, comparisons |-> HasProviders(StaticAnswer(q))]
          IN  previews' = Evicted(previews \cup {p})
    /\ UNCHANGED <<wiseVars, call, answer, monitored>>

(* validate_preview and get_preview drop a preview that has expired.       *)
LookUp(p) ==
    /\ Expired(p)
    /\ previews' = previews \ {p}
    /\ UNCHANGED <<vars, made>>

Invalidate(p) ==
    /\ previews' = previews \ {p}
    /\ UNCHANGED <<vars, made>>

PreviewNext ==
    \/ FeeNext /\ UNCHANGED previewVars
    \/ \E q \in Quotes : MakePreview(q)
    \/ \E p \in previews : LookUp(p)
    \/ \E p \in previews : Invalidate(p)

PreviewSpec == PreviewInit /\ [][PreviewNext]_allVars

=============================================================================
