---------------------------- MODULE AuthService ----------------------------
(***************************************************************************)
(* services/auth_service.py with middleware/auth_middleware.py and the     *)
(* /auth endpoints of server.py: tokens, logouts and rate limits.          *)
(*                                                                         *)
(* Nothing suspends between a check and what follows from it (the TEE      *)
(* plugin's attestation included), so a login, a refresh, a logout and a   *)
(* request through the middleware are one step each.  What makes them hard *)
(* is the clock, the clean-ups and the restart: the revocation store and   *)
(* the limiter's windows live in memory, and so does the signing secret    *)
(* unless JWT_SECRET is set.                                               *)
(*                                                                         *)
(* The signature of a token is modelled by the secret it was made with.    *)
(* Audit entries are logging and left out.                                 *)
(***************************************************************************)
EXTENDS Naturals, Sequences, SequencesExt

CONSTANTS Wallets, Origins, Addresses, \* wallets, web origins, client addresses
          AllowedOrigins,   \* AUTH_ALLOWED_ORIGINS
          None,             \* a header or a field that is not there
          Anonymous,        \* the subject of a login that names nothing
          Attested,         \* ENABLE_TEE_ATTESTATION
          AccessLife,       \* access_token_expiry
          RefreshLife,      \* refresh_token_expiry
          Window,           \* rate_limit_window
          MaxRequests,      \* rate_limit_requests
          MaxTime, MaxTokens, MaxRestarts  \* bounds

ASSUME AuthAssumption ==
    /\ AllowedOrigins \subseteq Origins
    /\ None \notin Wallets \cup Origins \cup Addresses
    /\ Attested \in BOOLEAN
    /\ {AccessLife, RefreshLife, Window, MaxRequests} \subseteq Nat \ {0}
    /\ {MaxTime, MaxTokens, MaxRestarts} \subseteq Nat

VARIABLES issued,       \* the tokens made, in order: a token's jti is its place
          revoked,      \* revocation_store._revoked
          requests,     \* rate_limiter._requests: key -> times
          fixedSecret,  \* JWT_SECRET is set
          secret,       \* number of the secret in use
          now,
          restarts

authVars == <<issued, revoked, requests, fixedSecret, secret, now, restarts>>

Subjects == Wallets \cup Origins \cup {Anonymous}
Keys == Subjects \cup Addresses  \* logins and requests share one limiter
Token == [kind : {"access", "refresh"}, sub : Subjects, byKey : BOOLEAN, exp : Nat,
          origin : Origins \cup {None}, tee : BOOLEAN, admin : BOOLEAN, secret : Nat]

AuthInit ==
    /\ issued = <<>> /\ revoked = {} /\ requests = [k \in Keys |-> <<>>]
    /\ fixedSecret \in BOOLEAN /\ secret = 0
    /\ now = 0 /\ restarts = 0

-----------------------------------------------------------------------------
(* RateLimiter *)

(* is_allowed keeps what is younger than the window, and adds the request  *)
(* if there is room.                                                       *)
Younger(k) == SelectSeq(requests[k], LAMBDA ts : ts + Window > now)

IsAllowed(k) == Len(Younger(k)) < MaxRequests

Counted(k) ==
    requests' = [requests EXCEPT ![k] =
                    IF IsAllowed(k) THEN Append(Younger(k), now) ELSE Younger(k)]

(* cleanup: a key whose last request is out of the window.                 *)
Stale(k) == requests[k] = <<>> \/ Last(requests[k]) + Window < now

-----------------------------------------------------------------------------
(* Tokens *)

(* jwt.decode checks the secret and the expiry, validate_token the         *)
(* revocation store.                                                       *)
Valid(j) ==
    /\ issued[j].secret = secret
    /\ now < issued[j].exp
    /\ j \notin revoked

Access(sub, byKey, origin, tee, admin) ==
    [kind |-> "access", sub |-> sub, byKey |-> byKey, exp |-> now + AccessLife,
     origin |-> origin, tee |-> tee, admin |-> admin, secret |-> secret]

Refresh(sub, byKey) ==
    [kind |-> "refresh", sub |-> sub, byKey |-> byKey, exp |-> now + RefreshLife,
     origin |-> None, tee |-> FALSE, admin |-> FALSE, secret |-> secret]

ValidOrigin(o) == AllowedOrigins = {} \/ o \in AllowedOrigins

(* verify_tee_attestation: always verified if attestation is not enabled;  *)
(* otherwise the plugin decides.                                           *)
Attestations == IF Attested THEN BOOLEAN ELSE {TRUE}

SubjectOf(wallet, origin) ==
    IF wallet # None THEN wallet ELSE IF origin # None THEN origin ELSE Anonymous

(* What authenticate demands after the limiter: a key that is valid, or an *)
(* origin that is allowed (or none) and an attestation.                    *)
MayLogIn(key, origin, tee) ==
    IF key # None THEN key = "valid"
    ELSE /\ origin # None => ValidOrigin(origin)
         /\ Attested => tee

(* /auth/login: authenticate.                                              *)
Login(wallet, origin, key, tee) ==
    LET sub == SubjectOf(wallet, origin) IN
    /\ tee \in Attestations
    /\ Len(issued) + 2 <= MaxTokens
    /\ Counted(sub)
    /\ issued' = IF IsAllowed(sub) /\ MayLogIn(key, origin, tee)
                 THEN issued \o <<Access(sub, key # None, origin, tee, key # None),
                                  Refresh(sub, key # None)>>
                 ELSE issued
    /\ UNCHANGED <<revoked, fixedSecret, secret, now, restarts>>

(* Mutant: any valid token refreshes.                                      *)
RefreshableAny(j) == Valid(j)

Refreshable(j) == Valid(j) /\ issued[j].kind = "refresh"

(* /auth/refresh: refresh_access_token.  The refresh token stays as it is; *)
(* the new token has the default scope.                                    *)
RefreshAccess(j, origin) ==
    /\ Refreshable(j)
    /\ Len(issued) < MaxTokens
    /\ issued' = Append(issued, Access(issued[j].sub, issued[j].byKey, origin,
                                       issued[j].tee, FALSE))
    /\ UNCHANGED <<revoked, requests, fixedSecret, secret, now, restarts>>

-----------------------------------------------------------------------------
(* AuthMiddleware, for paths that are not public *)

(* A bearer token made for an origin is good for that origin only.         *)
OriginMatches(j, origin) ==
    issued[j].origin = None \/ origin = None \/ issued[j].origin = origin

(* Past the limiter, an API key decides, or else a bearer token, or else   *)
(* the origin.                                                             *)
LetThrough(key, bearer, origin) ==
    IF key # None THEN key = "valid"
    ELSE IF bearer # None THEN Valid(bearer) /\ OriginMatches(bearer, origin)
    ELSE origin # None /\ ValidOrigin(origin)

Passes(address, key, bearer, origin) ==
    IsAllowed(address) /\ LetThrough(key, bearer, origin)

(* Any endpoint that leaves the service's state alone: let through or not, *)
(* the request is counted.                                                 *)
Call(address) ==
    /\ Counted(address)
    /\ UNCHANGED <<issued, revoked, fixedSecret, secret, now, restarts>>

(* /auth/logout: past the middleware, revoke_token validates once more.    *)
Logout(address, key, bearer, origin) ==
    /\ Counted(address)
    /\ revoked' = IF Passes(address, key, bearer, origin) /\ Valid(bearer)
                  THEN revoked \cup {bearer} ELSE revoked
    /\ UNCHANGED <<issued, fixedSecret, secret, now, restarts>>

-----------------------------------------------------------------------------
(* Mutant: what has not expired is dropped.                                *)
OutdatedEarly(j) == issued[j].exp < now + AccessLife

(* TokenRevocationStore.cleanup: what has expired.                         *)
Outdated(j) == issued[j].exp < now

(* AuthService.cleanup, with both stores.                                  *)
CleanUp ==
    /\ requests' = [k \in Keys |-> IF Stale(k) THEN <<>> ELSE requests[k]]
    /\ revoked' = {j \in revoked : ~Outdated(j)}
    /\ UNCHANGED <<issued, fixedSecret, secret, now, restarts>>

(* A new process: the stores are empty, and AuthConfig.from_env makes a    *)
(* secret up if the environment has none.                                  *)
Restart ==
    /\ restarts < MaxRestarts
    /\ restarts' = restarts + 1
    /\ requests' = [k \in Keys |-> <<>>]
    /\ revoked' = {}
    /\ secret' = IF fixedSecret THEN secret ELSE secret + 1
    /\ UNCHANGED <<issued, fixedSecret, now>>

Tick ==
    /\ now < MaxTime
    /\ now' = now + 1
    /\ UNCHANGED <<issued, revoked, requests, fixedSecret, secret, restarts>>

KeyHeaders == {None, "valid", "wrong"}

AuthNext ==
    \/ \E wallet \in Wallets \cup {None}, origin \in Origins \cup {None},
          key \in KeyHeaders, tee \in BOOLEAN : Login(wallet, origin, key, tee)
    \/ \E j \in DOMAIN issued, origin \in Origins \cup {None} : RefreshAccess(j, origin)
    \/ \E address \in Addresses :
          \/ Call(address)
          \/ \E key \in KeyHeaders, bearer \in DOMAIN issued, origin \in Origins \cup {None} :
                Logout(address, key, bearer, origin)
    \/ CleanUp
    \/ Restart
    \/ Tick

AuthSpec == AuthInit /\ [][AuthNext]_authVars

=============================================================================
