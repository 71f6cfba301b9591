---------------------------- MODULE ServerProofs ----------------------------
(***************************************************************************)
(* Theorems of AuthService, RecurringTransfers and ChatContext with the    *)
(* histories of MCServer, for every set of users, any lifetimes of tokens  *)
(* and any number of jobs and restarts.                                    *)
(***************************************************************************)
EXTENDS MCServer, WellFoundedInduction, FiniteSetTheorems, TLAPS

-----------------------------------------------------------------------------
(* Authentication *)

AuthTypeOK ==
    /\ issued \in Seq(Token)
    /\ revoked \subseteq DOMAIN issued
    /\ fixedSecret \in BOOLEAN
    /\ secret \in Nat /\ now \in Nat /\ restarts \in Nat
    /\ \A j \in DOMAIN issued : issued[j].secret <= secret

(* Each token goes back to a login, no further than its lifetimes allow.   *)
TracesTo(t, l) ==
    /\ l.sub = t.sub /\ l.secret = t.secret /\ l.at \in Nat
    /\ t.exp <= l.at + RefreshLife + AccessLife
    /\ t.kind = "refresh" => t.exp <= l.at + RefreshLife
TokensTrace == \A j \in DOMAIN issued : \E l \in logins : TracesTo(issued[j], l)

(* Why a token that was logged out is no longer good.                      *)
Spent(x) ==
    \/ x.jti \in revoked
    \/ issued[x.jti].exp <= now
    \/ x.restarts < restarts /\ (fixedSecret \/ issued[x.jti].secret < secret)
LogoutsSpend ==
    \A x \in loggedOut : /\ x.jti \in DOMAIN issued
                         /\ x.restarts \in Nat /\ x.restarts <= restarts
                         /\ Spent(x)

AuthInv == AuthTypeOK /\ TokensTrace /\ LogoutsSpend

LEMMA AuthInitInv == MCInit => AuthInv
BY DEF MCInit, AuthInit, AuthInv, AuthTypeOK, TokensTrace, LogoutsSpend

LEMMA IssuedTokens ==
    ASSUME AuthTypeOK
    PROVE  \A j \in DOMAIN issued : issued[j] \in Token /\ issued[j].exp \in Nat
                                                     /\ issued[j].secret \in Nat
<1>1. \A j \in DOMAIN issued : issued[j] \in Token
  BY DEF AuthTypeOK
<1> QED BY <1>1 DEF Token

LEMMA LifesType == AccessLife \in Nat /\ RefreshLife \in Nat
BY AuthAssumption DEF AuthAssumption

(* What every token there is keeps, when tokens are only added.            *)
LEMMA OldTokensStay ==
    ASSUME AuthInv, NEW s \in Seq(Token), issued' = issued \o s, logins \subseteq logins'
    PROVE  /\ issued' \in Seq(Token)
           /\ DOMAIN issued \subseteq DOMAIN issued'
           /\ \A j \in DOMAIN issued : issued'[j] = issued[j]
           /\ \A j \in DOMAIN issued' \ DOMAIN issued : \E i \in DOMAIN s : issued'[j] = s[i]
<1>1. issued \in Seq(Token)
  BY DEF AuthInv, AuthTypeOK
<1>2. /\ DOMAIN issued = 1 .. Len(issued) /\ Len(issued) \in Nat
      /\ DOMAIN s = 1 .. Len(s) /\ Len(s) \in Nat
      /\ DOMAIN issued' = 1 .. Len(issued) + Len(s)
      /\ issued' \in Seq(Token)
  BY <1>1
<1>3. ASSUME NEW j \in 1 .. Len(issued) + Len(s)
      PROVE  issued'[j] = IF j <= Len(issued) THEN issued[j] ELSE s[j - Len(issued)]
  BY <1>1
<1>4. ASSUME NEW j \in DOMAIN issued' \ DOMAIN issued
      PROVE  j - Len(issued) \in DOMAIN s /\ issued'[j] = s[j - Len(issued)]
  BY <1>2, <1>3
<1> QED BY <1>2, <1>3, <1>4

(* A step that adds tokens to a login and leaves the rest alone.           *)
LEMMA MoreTokens ==
    ASSUME AuthInv, NEW s \in Seq(Token), issued' = issued \o s, logins \subseteq logins',
           UNCHANGED <<revoked, fixedSecret, secret, now, restarts, loggedOut>>,
           \A i \in DOMAIN s : /\ s[i].secret = secret
                               /\ \E l \in logins' : TracesTo(s[i], l)
    PROVE  AuthInv'
<1>1. /\ issued' \in Seq(Token)
      /\ DOMAIN issued \subseteq DOMAIN issued'
      /\ \A j \in DOMAIN issued : issued'[j] = issued[j]
      /\ \A j \in DOMAIN issued' \ DOMAIN issued : \E i \in DOMAIN s : issued'[j] = s[i]
  BY OldTokensStay
<1>2. AuthTypeOK'
  BY <1>1 DEF AuthInv, AuthTypeOK
<1>3. TokensTrace'
  <2> SUFFICES ASSUME NEW j \in DOMAIN issued' PROVE \E l \in logins' : TracesTo(issued'[j], l)
    BY DEF TokensTrace, TracesTo
  <2> QED BY <1>1 DEF AuthInv, TokensTrace
<1>4. LogoutsSpend'
  BY <1>1 DEF AuthInv, LogoutsSpend, Spent
<1> QED BY <1>2, <1>3, <1>4 DEF AuthInv

LEMMA SubjectOfType ==
    ASSUME NEW wallet_ \in Wallets \cup {None}, NEW origin \in Origins \cup {None}
    PROVE  SubjectOf(wallet_, origin) \in Subjects
BY DEF SubjectOf, Subjects

LEMMA LoginKeeps ==
    ASSUME AuthInv, AuthStep,
           NEW wallet_ \in Wallets \cup {None}, NEW origin \in Origins \cup {None},
           NEW key \in KeyHeaders, NEW tee \in BOOLEAN, Login(wallet_, origin, key, tee)
    PROVE  AuthInv'
<1> DEFINE sub == SubjectOf(wallet_, origin)
           s == <<Access(sub, key # None, origin, tee, key # None), Refresh(sub, key # None)>>
<1>1. loggedOut' = loggedOut
  BY DEF AuthStep, Login
<1>2. CASE issued' = issued
  BY <1>1, <1>2 DEF AuthStep, Login, AuthInv, AuthTypeOK, TokensTrace, LogoutsSpend, Spent
<1>3. CASE issued' = issued \o s
  <2>1. sub \in Subjects /\ secret \in Nat /\ now \in Nat /\ issued \in Seq(Token)
    BY SubjectOfType DEF AuthInv, AuthTypeOK
  <2>2. s[1] \in Token /\ s[2] \in Token
    <3> HIDE DEF sub
    <3> QED BY <2>1, LifesType DEF Access, Refresh, Token
  <2>3. s \in Seq(Token) /\ Len(s) = 2 /\ DOMAIN s = {1, 2}
    BY <2>2
  <2>4. Len(issued') = Len(issued) + 2 /\ issued'[Len(issued')] = s[2]
    BY <1>3, <2>1, <2>3
  <2>5. logins' = logins \cup {[sub |-> sub, at |-> now, secret |-> secret]}
    BY <2>4 DEF AuthStep, Last, Refresh
  <2>6. \A i \in DOMAIN s : /\ s[i].secret = secret
                            /\ TracesTo(s[i], [sub |-> sub, at |-> now, secret |-> secret])
    <3> HIDE DEF sub
    <3> QED BY <2>1, <2>3, LifesType DEF Access, Refresh, TracesTo
  <2> HIDE DEF s
  <2> QED BY <1>1, <1>3, <2>3, <2>5, <2>6, MoreTokens DEF Login
<1> QED BY <1>2, <1>3 DEF Login

LEMMA RefreshKeeps ==
    ASSUME AuthInv, AuthStep, NEW j \in DOMAIN issued, NEW origin \in Origins \cup {None},
           RefreshAccess(j, origin)
    PROVE  AuthInv'
<1> DEFINE t == Access(issued[j].sub, issued[j].byKey, origin, issued[j].tee, FALSE)
           s == <<t>>
<1>1. issued \in Seq(Token) /\ issued[j] \in Token /\ now \in Nat /\ secret \in Nat
  BY DEF AuthInv, AuthTypeOK
<1>2. t \in Token /\ s \in Seq(Token) /\ DOMAIN s = {1} /\ s[1] = t
  <2>1. t \in Token
    BY <1>1, LifesType DEF Access, Token
  <2> HIDE DEF t
  <2> QED BY <2>1
<1>3. issued' = issued \o s /\ Len(issued') = Len(issued) + 1
  <2> HIDE DEF t
  <2>1. issued' = Append(issued, t)
    BY DEF RefreshAccess, t
  <2> QED BY <1>1, <1>2, <2>1
<1>4. logins' = logins /\ loggedOut' = loggedOut
  <2>1. Len(issued') # Len(issued) + 2 /\ revoked' = revoked
    BY <1>1, <1>3 DEF RefreshAccess
  <2> QED BY <2>1 DEF AuthStep
<1>5. PICK l \in logins : TracesTo(issued[j], l)
  BY DEF AuthInv, TokensTrace
<1>6. issued[j].kind = "refresh" /\ now < issued[j].exp /\ issued[j].secret = secret
  BY DEF RefreshAccess, Refreshable, Valid
<1>7. t.secret = secret /\ TracesTo(t, l)
  BY <1>1, <1>5, <1>6, LifesType DEF TracesTo, Access, Token
<1> HIDE DEF t
<1>8. \A i \in DOMAIN s : s[i].secret = secret /\ \E k \in logins' : TracesTo(s[i], k)
  BY <1>2, <1>4, <1>7
<1> HIDE DEF s
<1> QED BY <1>2, <1>3, <1>4, <1>8, MoreTokens DEF RefreshAccess

LEMMA AuthStepKeeps == ASSUME AuthInv, AuthStep PROVE AuthInv'
<1>1. ASSUME NEW address \in Addresses, Call(address) PROVE AuthInv'
  BY <1>1 DEF Call, AuthStep, AuthInv, AuthTypeOK, TokensTrace, LogoutsSpend, Spent
<1>2. ASSUME NEW address \in Addresses, NEW key \in KeyHeaders, NEW bearer \in DOMAIN issued,
             NEW origin \in Origins \cup {None}, Logout(address, key, bearer, origin)
      PROVE  AuthInv'
  <2>1. revoked \subseteq revoked' /\ revoked' \subseteq revoked \cup {bearer}
    BY <1>2 DEF Logout
  <2>2. AuthTypeOK' /\ TokensTrace'
    BY <1>2, <2>1 DEF Logout, AuthStep, AuthInv, AuthTypeOK, TokensTrace
  <2>3. loggedOut' = loggedOut \cup {[jti |-> j, restarts |-> restarts] : j \in revoked' \ revoked}
    BY DEF AuthStep
  <2>4. ASSUME NEW x \in loggedOut'
        PROVE  x.jti \in DOMAIN issued /\ x.restarts \in Nat /\ x.restarts <= restarts /\ Spent(x)'
    <3>1. CASE x \in loggedOut
      BY <1>2, <2>1, <3>1 DEF Logout, AuthInv, LogoutsSpend, Spent
    <3>2. CASE x \in {[jti |-> j, restarts |-> restarts] : j \in revoked' \ revoked}
      BY <2>1, <3>2 DEF AuthInv, AuthTypeOK, Spent
    <3> QED BY <2>3, <3>1, <3>2
  <2>5. LogoutsSpend'
    BY <1>2, <2>4 DEF Logout, LogoutsSpend
  <2> QED BY <2>2, <2>5 DEF AuthInv
<1>3. ASSUME CleanUp PROVE AuthInv'
  <2>1. revoked' = {j \in revoked : ~(issued[j].exp < now)}
    BY <1>3 DEF CleanUp, Outdated
  <2>2. revoked' \subseteq revoked /\ loggedOut' = loggedOut /\ logins' = logins
    BY <1>3, <2>1 DEF CleanUp, AuthStep, AuthInv, AuthTypeOK
  <2>3. AuthTypeOK' /\ TokensTrace'
    BY <1>3, <2>2 DEF CleanUp, AuthInv, AuthTypeOK, TokensTrace
  <2>4. ASSUME NEW x \in loggedOut PROVE Spent(x)'
    <3>1. issued[x.jti].exp \in Nat /\ now \in Nat
      BY IssuedTokens DEF AuthInv, AuthTypeOK, LogoutsSpend
    <3> QED BY <1>3, <2>1, <3>1 DEF CleanUp, AuthInv, LogoutsSpend, Spent
  <2>5. LogoutsSpend'
    BY <1>3, <2>2, <2>4 DEF CleanUp, AuthInv, LogoutsSpend
  <2> QED BY <2>3, <2>5 DEF AuthInv
<1>4. ASSUME Restart PROVE AuthInv'
  <2>1. revoked' = {} /\ loggedOut' = loggedOut /\ logins' = logins /\ restarts' = restarts + 1
    BY <1>4 DEF Restart, AuthStep
  <2>2. secret' \in Nat /\ secret <= secret' /\ (~fixedSecret => secret < secret')
    BY <1>4 DEF Restart, AuthInv, AuthTypeOK
  <2>3. \A j \in DOMAIN issued : issued[j].secret \in Nat
    BY IssuedTokens DEF AuthInv
  <2>4. AuthTypeOK' /\ TokensTrace'
    BY <1>4, <2>1, <2>2, <2>3 DEF Restart, AuthInv, AuthTypeOK, TokensTrace
  <2>5. ASSUME NEW x \in loggedOut
        PROVE  x.restarts < restarts' /\ (fixedSecret \/ issued[x.jti].secret < secret')
    BY <2>1, <2>2, <2>3 DEF AuthInv, AuthTypeOK, LogoutsSpend
  <2>6. LogoutsSpend'
    BY <1>4, <2>1, <2>5 DEF Restart, AuthInv, AuthTypeOK, LogoutsSpend, Spent
  <2> QED BY <2>4, <2>6 DEF AuthInv
<1>5. ASSUME Tick PROVE AuthInv'
  <2>1. now' = now + 1 /\ loggedOut' = loggedOut /\ logins' = logins
    BY <1>5 DEF Tick, AuthStep
  <2>2. AuthTypeOK' /\ TokensTrace'
    BY <1>5, <2>1 DEF Tick, AuthInv, AuthTypeOK, TokensTrace
  <2>3. \A j \in DOMAIN issued : issued[j].exp \in Nat
    BY IssuedTokens DEF AuthInv
  <2>4. LogoutsSpend'
    BY <1>5, <2>1, <2>3 DEF Tick, AuthInv, AuthTypeOK, LogoutsSpend, Spent
  <2> QED BY <2>2, <2>4 DEF AuthInv
<1> QED BY <1>1, <1>2, <1>3, <1>4, <1>5, LoginKeeps, RefreshKeeps DEF AuthStep, AuthNext

LEMMA AuthKeeps == AuthInv /\ [MCNext]_mcVars => AuthInv'
<1> SUFFICES ASSUME AuthInv, [MCNext]_mcVars PROVE AuthInv'
  OBVIOUS
<1>1. CASE AuthStep
  BY <1>1, AuthStepKeeps
<1>2. CASE UNCHANGED authMC
  BY <1>2 DEF authMC, authVars, AuthInv, AuthTypeOK, TokensTrace, LogoutsSpend, Spent
<1> QED BY <1>1, <1>2 DEF MCNext, mcVars

(* A logout lasts: the token is refused through clean-ups of the store and *)
(* restarts of the process, except after a restart that keeps the secret.  *)
THEOREM LogoutCorrect == MCSpec => []LogoutHolds
<1>1. AuthInv => LogoutHolds
  <2> SUFFICES ASSUME AuthInv, NEW x \in loggedOut, Valid(x.jti)
               PROVE  fixedSecret /\ x.restarts < restarts
    BY DEF LogoutHolds
  <2>1. issued[x.jti].exp \in Nat /\ issued[x.jti].secret \in Nat /\ now \in Nat /\ secret \in Nat
    BY IssuedTokens DEF AuthInv, AuthTypeOK, LogoutsSpend
  <2> QED BY <2>1 DEF AuthInv, LogoutsSpend, Spent, Valid
<1> QED BY <1>1, AuthInitInv, AuthKeeps, PTL DEF MCSpec

(* No chain of refreshes outlives the two lifetimes of a login.            *)
THEOREM SessionCorrect == MCSpec => []SessionEnds
<1>1. AuthInv => SessionEnds
  <2> SUFFICES ASSUME AuthInv, NEW j \in DOMAIN issued, Valid(j)
               PROVE  \E l \in logins : /\ l.sub = issued[j].sub /\ l.secret = secret
                                        /\ now < l.at + RefreshLife + AccessLife
    BY DEF SessionEnds
  <2>1. issued[j].exp \in Nat /\ now \in Nat
    BY IssuedTokens DEF AuthInv, AuthTypeOK
  <2>2. PICK l \in logins : TracesTo(issued[j], l)
    BY DEF AuthInv, TokensTrace
  <2> QED BY <2>1, <2>2, LifesType DEF TracesTo, Valid
<1> QED BY <1>1, AuthInitInv, AuthKeeps, PTL DEF MCSpec

-----------------------------------------------------------------------------
(* Sequences *)

(* Induction over a prefix of the numbers, with a set for the predicate.   *)
LEMMA UpTo ==
    ASSUME NEW N \in Nat, NEW G, 0 \in G, \A k \in 1 .. N : k - 1 \in G => k \in G
    PROVE  0 .. N \subseteq G
<1> DEFINE T == (0 .. N) \ G
<1>1. SUFFICES ASSUME T # {} PROVE FALSE
  OBVIOUS
<1>2. PICK n \in T : \A m \in T : ~(<<m, n>> \in OpToRel(<, Nat))
  <2>1. T \in SUBSET Nat
    OBVIOUS
  <2> HIDE DEF T
  <2> QED BY <1>1, <2>1, WFMin, NatLessThanWellFounded
<1>3. ASSUME NEW m \in T, m < n PROVE FALSE
  <2>1. m \in Nat /\ n \in Nat
    OBVIOUS
  <2> HIDE DEF T
  <2> QED BY <1>2, <1>3, <2>1 DEF OpToRel
<1>4. n \in 1 .. N /\ n - 1 \in 0 .. N /\ n - 1 < n
  OBVIOUS
<1> QED BY <1>3, <1>4

(* What the function inside Only computes: first that there is one.       *)
Keeps(s, W, f, n) ==
    f[n] = IF n = 0 THEN <<>>
           ELSE IF s[n] \in W THEN Append(f[n - 1], s[n]) ELSE f[n - 1]

LEMMA KeptExists ==
    ASSUME NEW S, NEW s \in Seq(S), NEW W
    PROVE  \E f \in [0 .. Len(s) -> Seq(S)] : \A n \in 0 .. Len(s) : Keeps(s, W, f, n)
<1> DEFINE Upto(k) == \E f \in [0 .. k -> Seq(S)] : \A n \in 0 .. k : Keeps(s, W, f, n)
           G == {k \in 0 .. Len(s) : Upto(k)}
<1>1. Len(s) \in Nat /\ \A n \in 1 .. Len(s) : s[n] \in S
  OBVIOUS
<1>2. 0 \in G
  <2> DEFINE f == [n \in 0 .. 0 |-> <<>>]
  <2>1. f \in [0 .. 0 -> Seq(S)] /\ \A n \in 0 .. 0 : Keeps(s, W, f, n)
    BY DEF Keeps
  <2>2. Upto(0)
    BY <2>1
  <2>3. 0 \in 0 .. Len(s)
    BY <1>1
  <2> HIDE DEF Upto
  <2> QED BY <2>2, <2>3
<1>3. ASSUME NEW k \in 1 .. Len(s), k - 1 \in G PROVE k \in G
  <2>1. PICK f \in [0 .. k - 1 -> Seq(S)] : \A n \in 0 .. k - 1 : Keeps(s, W, f, n)
    BY <1>3
  <2> DEFINE g == [n \in 0 .. k |-> IF n < k THEN f[n]
                        ELSE IF s[k] \in W THEN Append(f[k - 1], s[k]) ELSE f[k - 1]]
  <2>2. f[k - 1] \in Seq(S) /\ s[k] \in S
    BY <1>1, <2>1
  <2>3. g \in [0 .. k -> Seq(S)]
    BY <2>1, <2>2
  <2>4. ASSUME NEW n \in 0 .. k PROVE Keeps(s, W, g, n)
    <3>1. CASE n = k
      BY <3>1 DEF Keeps
    <3>2. CASE n # k
      <4>1. n \in 0 .. k - 1 /\ (n # 0 => n - 1 \in 0 .. k - 1)
        BY <3>2
      <4>2. g[n] = f[n] /\ (n # 0 => g[n - 1] = f[n - 1])
        BY <4>1
      <4> HIDE DEF g
      <4> QED BY <4>1, <4>2, <2>1 DEF Keeps
    <3> QED BY <3>1, <3>2
  <2>5. Upto(k)
    BY <2>3, <2>4
  <2> QED BY <2>5
<1>4. 0 .. Len(s) \subseteq G
  <2> HIDE DEF G
  <2> QED BY <1>1, <1>2, <1>3, UpTo
<1>5. Len(s) \in G
  <2> HIDE DEF G
  <2> QED BY <1>1, <1>4
<1> QED BY <1>5

LEMMA AppendSet ==
    ASSUME NEW S, NEW s \in Seq(S), NEW e \in S
    PROVE  ToSet(Append(s, e)) = ToSet(s) \cup {e}
<1>1. /\ DOMAIN Append(s, e) = DOMAIN s \cup {Len(s) + 1}
      /\ Append(s, e)[Len(s) + 1] = e
      /\ \A i \in DOMAIN s : Append(s, e)[i] = s[i]
  OBVIOUS
<1> QED BY <1>1 DEF ToSet

(* Only is a filter.                                                       *)
LEMMA OnlyKeeps ==
    ASSUME NEW S, NEW s \in Seq(S), NEW W
    PROVE  /\ Only(s, W) \in Seq(S)
           /\ ToSet(Only(s, W)) = ToSet(s) \cap W
<1> DEFINE Step(f, n) == IF n = 0 THEN <<>>
                         ELSE IF s[n] \in W THEN Append(f[n - 1], s[n]) ELSE f[n - 1]
           taken == CHOOSE f : f = [n \in 0 .. Len(s) |-> Step(f, n)]
           Holds(k) == taken[k] \in Seq(S) /\ ToSet(taken[k]) = {s[i] : i \in 1 .. k} \cap W
           G == {k \in 0 .. Len(s) : Holds(k)}
<1>1. Len(s) \in Nat /\ \A n \in 1 .. Len(s) : s[n] \in S
  OBVIOUS
<1>2. Only(s, W) = taken[Len(s)]
  BY DEF Only
<1>3. taken = [n \in 0 .. Len(s) |-> Step(taken, n)]
  <2>1. PICK f \in [0 .. Len(s) -> Seq(S)] : \A n \in 0 .. Len(s) : Keeps(s, W, f, n)
    BY KeptExists
  <2>2. f = [n \in 0 .. Len(s) |-> Step(f, n)]
    BY <2>1 DEF Keeps
  <2> QED BY <2>2
<1> HIDE DEF taken
<1>4. 0 \in G
  BY <1>1, <1>3 DEF ToSet
<1>5. ASSUME NEW k \in 1 .. Len(s), k - 1 \in G PROVE k \in G
  <2>1. taken[k - 1] \in Seq(S) /\ ToSet(taken[k - 1]) = {s[i] : i \in 1 .. k - 1} \cap W
    BY <1>5
  <2>2. taken[k] = IF s[k] \in W THEN Append(taken[k - 1], s[k]) ELSE taken[k - 1]
    <3> HIDE DEF taken
    <3>1. k \in 0 .. Len(s) /\ k # 0
      BY <1>1
    <3> QED BY <1>3, <3>1
  <2>3. {s[i] : i \in 1 .. k} = {s[i] : i \in 1 .. k - 1} \cup {s[k]}
    OBVIOUS
  <2>4. s[k] \in W => ToSet(taken[k]) = ToSet(taken[k - 1]) \cup {s[k]}
    BY <1>1, <2>1, <2>2, AppendSet
  <2>5. taken[k] \in Seq(S)
    BY <1>1, <2>1, <2>2
  <2>6. ToSet(taken[k]) = {s[i] : i \in 1 .. k} \cap W
    BY <2>1, <2>2, <2>3, <2>4
  <2> QED BY <2>5, <2>6
<1>6. 0 .. Len(s) \subseteq G
  <2> HIDE DEF G
  <2> QED BY <1>1, <1>4, <1>5, UpTo
<1>7. Holds(Len(s))
  <2> HIDE DEF Holds
  <2> QED BY <1>1, <1>6
<1>8. DOMAIN s = 1 .. Len(s)
  OBVIOUS
<1> QED BY <1>2, <1>7, <1>8 DEF ToSet

-----------------------------------------------------------------------------
(* Recurring transfers *)

Files == {Missing, Torn} \cup Seq(Job)
FileJobs == IF file \in {Missing, Torn} THEN {} ELSE ToSet(file)
Distinct(js) == \A a \in js, b \in js : a.id = b.id => a = b

(* An identifier names one job, in the table and in the file; without a    *)
(* host there is neither.                                                  *)
JobsInv ==
    /\ jobs \in Seq(Job) /\ file \in Files /\ clock \in 0 .. MaxClock
    /\ Distinct(ToSet(jobs)) /\ Distinct(FileJobs)
    /\ IF Hosted THEN timers = ToSet(jobs) ELSE jobs = <<>> /\ file = Missing
    /\ ~up => jobs = <<>>

LEMMA FilesDiffer == \A s \in Seq(Job) : s \notin {Missing, Torn}
BY RecurringAssumption DEF RecurringAssumption

LEMMA EmptySet == ToSet(<<>>) = {}
BY DEF ToSet

LEMMA JobsInitInv == RecurringInit => JobsInv
<1> SUFFICES ASSUME RecurringInit PROVE JobsInv
  OBVIOUS
<1>1. jobs \in Seq(Job) /\ file \in Files /\ clock \in 0 .. MaxClock
  BY RecurringAssumption DEF RecurringInit, RecurringAssumption, Files
<1>2. FileJobs = {} /\ ToSet(jobs) = {} /\ timers = {} /\ file = Missing /\ jobs = <<>>
  BY EmptySet DEF RecurringInit, FileJobs
<1> QED BY <1>1, <1>2 DEF JobsInv, Distinct

(* Assigned replaces what has the identifier of the job.                   *)
LEMMA AssignedSet ==
    ASSUME NEW s \in Seq(Job), NEW job \in Job
    PROVE  /\ Assigned(s, job) \in Seq(Job)
           /\ ToSet(Assigned(s, job)) = {j \in ToSet(s) : j.id # job.id} \cup {job}
<1>1. CASE \E i \in DOMAIN s : s[i].id = job.id
  <2> DEFINE t == [i \in DOMAIN s |-> IF s[i].id = job.id THEN job ELSE s[i]]
  <2>1. Assigned(s, job) = t
    BY <1>1 DEF Assigned
  <2>2. Len(s) \in Nat /\ DOMAIN s = 1 .. Len(s) /\ \A i \in DOMAIN s : s[i] \in Job
    OBVIOUS
  <2>3. t \in Seq(Job)
    BY <2>2
  <2>4. ToSet(t) = {j \in ToSet(s) : j.id # job.id} \cup {job}
    BY <1>1 DEF ToSet
  <2> QED BY <2>1, <2>3, <2>4
<1>2. CASE ~\E i \in DOMAIN s : s[i].id = job.id
  <2>1. Assigned(s, job) = Append(s, job)
    BY <1>2 DEF Assigned
  <2>2. ToSet(Append(s, job)) = ToSet(s) \cup {job}
    BY AppendSet
  <2>3. \A j \in ToSet(s) : j.id # job.id
    BY <1>2 DEF ToSet
  <2> QED BY <2>1, <2>2, <2>3
<1> QED BY <1>1, <1>2

LEMMA ScheduleSets ==
    ASSUME JobsInv, NEW u \in Users, NEW recipient \in Recipients,
           NEW frequency \in Frequencies, Schedule(u, recipient, frequency)
    PROVE  \E job \in Job :
             /\ jobs' \in Seq(Job)
             /\ timers' = {t \in timers : t.id # job.id} \cup {job}
             /\ IF Hosted THEN ToSet(jobs') = {j \in ToSet(jobs) : j.id # job.id} \cup {job}
                          ELSE jobs' = jobs
<1> DEFINE job == [id |-> <<u, clock>>, recipient |-> recipient, frequency |-> frequency]
<1>1. job \in Job
  BY DEF JobsInv, Job, Ids
<1>2. timers' = {t \in timers : t.id # job.id} \cup {job}
  BY DEF Schedule, AddJob
<1>3. jobs' = IF Hosted THEN Assigned(jobs, job) ELSE jobs
  BY DEF Schedule
<1> HIDE DEF job
<1> QED BY <1>1, <1>2, <1>3, AssignedSet DEF JobsInv

LEMMA CancelSets ==
    ASSUME JobsInv, NEW id, Cancel(id)
    PROVE  /\ jobs' \in Seq(Job)
           /\ ToSet(jobs') = {j \in ToSet(jobs) : j.id # id}
           /\ timers' = {t \in timers : t.id # id}
<1>1. jobs' = Only(jobs, Unnamed(id)) /\ timers' = {t \in timers : t.id # id}
  BY DEF Cancel, RemoveJob
<1>2. jobs' \in Seq(Job) /\ ToSet(jobs') = ToSet(jobs) \cap Unnamed(id)
  BY <1>1, OnlyKeeps DEF JobsInv
<1> QED BY <1>1, <1>2 DEF Unnamed

LEMMA StartSets ==
    ASSUME JobsInv, Start
    PROVE  /\ jobs' \in Seq(Job) /\ timers' = ToSet(jobs')
           /\ ToSet(jobs') = IF Hosted THEN Rebuildable(FileJobs) ELSE {}
           /\ ~Hosted => jobs' = <<>>
<1>1. jobs' = IF Hosted /\ file \notin {Missing, Torn, <<>>} THEN Loaded(file) ELSE <<>>
  BY DEF Start
<1>2. CASE Hosted /\ file \notin {Missing, Torn, <<>>}
  <2>1. file \in Seq(Job) /\ FileJobs = ToSet(file)
    BY <1>2 DEF JobsInv, Files, FileJobs
  <2>2. jobs' \in Seq(Job) /\ ToSet(jobs') = ToSet(file) \cap Rebuildable(ToSet(file))
    BY <1>1, <1>2, <2>1, OnlyKeeps DEF Loaded
  <2> QED BY <1>2, <2>1, <2>2 DEF Rebuildable, Start
<1>3. CASE ~(Hosted /\ file \notin {Missing, Torn, <<>>})
  <2>1. jobs' = <<>> /\ timers' = ToSet(jobs') /\ ToSet(jobs') = {}
    BY <1>1, <1>3, EmptySet DEF Start
  <2>2. Hosted => FileJobs = {}
    BY <1>3, EmptySet DEF FileJobs
  <2>3. Rebuildable({}) = {}
    BY DEF Rebuildable
  <2>4. jobs' \in Seq(Job)
    BY <2>1
  <2> QED BY <1>3, <2>1, <2>2, <2>3, <2>4
<1> QED BY <1>2, <1>3

(* A stop leaves the file as it was, torn, or with the jobs in it.         *)
LEMMA DownSets ==
    ASSUME JobsInv, Stop \/ Crash
    PROVE  /\ up /\ ~up' /\ jobs' = <<>> /\ timers' = {} /\ UNCHANGED clock
           /\ file' \in Files
           /\ \/ FileJobs' = {} /\ file' \in {Missing, Torn}
              \/ FileJobs' = ToSet(jobs) /\ file' = jobs
              \/ FileJobs' = FileJobs /\ UNCHANGED file
           /\ ~Hosted => UNCHANGED file
<1>1. file' = jobs \/ file' = Torn \/ UNCHANGED file
  BY DEF Stop, Crash, SaveJobs
<1>2. file' = jobs => FileJobs' = ToSet(jobs)
  BY FilesDiffer DEF FileJobs, JobsInv
<1>3. file' = Torn => FileJobs' = {}
  BY DEF FileJobs
<1>4. UNCHANGED file => FileJobs' = FileJobs
  BY DEF FileJobs
<1> QED BY <1>1, <1>2, <1>3, <1>4 DEF Stop, Crash, Down, Files, JobsInv

LEMMA JobsKeep == JobsInv /\ [RecurringNext]_recurringVars => JobsInv'
<1> SUFFICES ASSUME JobsInv, [RecurringNext]_recurringVars PROVE JobsInv'
  OBVIOUS
<1>1. ASSUME NEW u \in Users, NEW recipient \in Recipients, NEW frequency \in Frequencies,
             Schedule(u, recipient, frequency)
      PROVE  JobsInv'
  <2>1. UNCHANGED <<file, up, clock>> /\ up /\ FileJobs' = FileJobs
    BY <1>1 DEF Schedule, FileJobs
  <2>2. PICK job \in Job :
             /\ jobs' \in Seq(Job)
             /\ timers' = {t \in timers : t.id # job.id} \cup {job}
             /\ IF Hosted THEN ToSet(jobs') = {j \in ToSet(jobs) : j.id # job.id} \cup {job}
                          ELSE jobs' = jobs
    BY <1>1, ScheduleSets
  <2>3. Distinct(ToSet(jobs'))
    BY <2>2 DEF JobsInv, Distinct
  <2> QED BY <2>1, <2>2, <2>3 DEF JobsInv
<1>2. ASSUME NEW id \in Known, Cancel(id) PROVE JobsInv'
  <2>1. UNCHANGED <<file, up, clock>> /\ up /\ FileJobs' = FileJobs
    BY <1>2 DEF Cancel, FileJobs
  <2>2. /\ jobs' \in Seq(Job)
        /\ ToSet(jobs') = {j \in ToSet(jobs) : j.id # id}
        /\ timers' = {t \in timers : t.id # id}
    BY <1>2, CancelSets
  <2>3. Hosted
    <3>1. DOMAIN jobs # {}
      BY <1>2 DEF Known
    <3> QED BY <3>1 DEF JobsInv
  <2>4. Distinct(ToSet(jobs'))
    BY <2>2 DEF JobsInv, Distinct
  <2> QED BY <2>1, <2>2, <2>3, <2>4 DEF JobsInv
<1>3. CASE Stop \/ Crash
  <2>1. ToSet(jobs') = {}
    BY <1>3, DownSets, EmptySet
  <2>2. Distinct(FileJobs')
    BY <1>3, DownSets DEF JobsInv, Distinct
  <2>3. jobs' \in Seq(Job)
    <3>1. jobs' = <<>>
      BY <1>3, DownSets
    <3> QED BY <3>1
  <2> QED BY <1>3, <2>1, <2>2, <2>3, DownSets DEF JobsInv, Distinct
<1>4. CASE Start
  <2>1. UNCHANGED <<file, clock>> /\ up' /\ FileJobs' = FileJobs
    BY <1>4 DEF Start, FileJobs
  <2>2. Distinct(ToSet(jobs'))
    BY <1>4, StartSets DEF JobsInv, Distinct, Rebuildable
  <2> QED BY <1>4, <2>1, <2>2, StartSets DEF JobsInv
<1>5. CASE ClockTicks
  <2>1. clock' \in 0 .. MaxClock
    BY <1>5, RecurringAssumption DEF ClockTicks, JobsInv, RecurringAssumption
  <2> QED BY <1>5, <2>1 DEF ClockTicks, JobsInv, FileJobs
<1>6. ASSUME UNCHANGED <<jobs, timers, file, up, clock>> PROVE JobsInv'
  BY <1>6 DEF JobsInv, FileJobs
<1>7. ASSUME NEW t \in timers, Fire(t) PROVE UNCHANGED <<jobs, timers, file, up, clock>>
  BY <1>7 DEF Fire
<1>8. CASE Run
  BY <1>6, <1>8 DEF Run
<1>9. CASE UNCHANGED recurringVars
  BY <1>6, <1>9 DEF recurringVars
<1> QED BY <1>1, <1>2, <1>3, <1>4, <1>5, <1>6, <1>7, <1>8, <1>9 DEF RecurringNext

(* Where a host starts and stops the plugin, the table of jobs and the     *)
(* scheduler agree at every time.                                          *)
THEOREM JobsCorrect == Hosted => (RecurringSpec => []JobsMatchScheduler)
<1>1. Hosted /\ JobsInv => JobsMatchScheduler
  BY DEF JobsInv, JobsMatchScheduler
<1>2. RecurringSpec => []JobsInv
  BY JobsInitInv, JobsKeep, PTL DEF RecurringSpec
<1>3. CASE Hosted
  <2>1. JobsInv => JobsMatchScheduler
    BY <1>1, <1>3
  <2> QED BY <1>2, <2>1, PTL
<1> QED BY <1>3

(* What was promised is in the table while the process runs, and while it  *)
(* does not, in the file and in a form the next start understands.         *)
PromiseInv ==
    /\ JobsInv
    /\ up => promised \subseteq ToSet(jobs)
    /\ ~up => promised \subseteq Rebuildable(FileJobs)
    /\ kept \subseteq FileJobs

LEMMA PromiseInitInv == MCInit => PromiseInv
<1> SUFFICES ASSUME MCInit PROVE PromiseInv
  OBVIOUS
<1>1. JobsInv /\ up /\ promised = {} /\ kept = {}
  BY JobsInitInv DEF MCInit, RecurringInit
<1> QED BY <1>1 DEF PromiseInv

LEMMA IdsOfSet ==
    /\ Known = {j.id : j \in ToSet(jobs)}
    /\ IdsOf(jobs') = {j.id : j \in ToSet(jobs')}
BY DEF Known, IdsOf, ToSet

(* A step while the process runs keeps the promises that are neither       *)
(* cancelled nor replaced.                                                 *)
LEMMA RunningKeeps ==
    ASSUME PromiseInv, RecurringStep, up, up', UNCHANGED file, JobsInv',
           \/ ToSet(jobs') = ToSet(jobs)
           \/ \E job \in Job : ToSet(jobs') = {j \in ToSet(jobs) : j.id # job.id} \cup {job}
           \/ \E id : ToSet(jobs') = {j \in ToSet(jobs) : j.id # id}
    PROVE  PromiseInv'
<1>1. promised' = Promised /\ kept' = kept /\ FileJobs' = FileJobs
  BY DEF RecurringStep, Stopping, SavedWell, FileJobs
<1>2. Promised = {j \in promised : j.id \notin {c.id : c \in Confirmed} \cup TakenBack} \cup Confirmed
  BY DEF Promised
<1>3. Confirmed = ToSet(jobs') \ ToSet(jobs) /\ TakenBack = Known \ IdsOf(jobs')
  BY DEF Confirmed, TakenBack
<1>4. ASSUME NEW j \in promised, j.id \notin {c.id : c \in Confirmed} \cup TakenBack
      PROVE  j \in ToSet(jobs')
  <2>1. j \in ToSet(jobs) /\ j.id \in IdsOf(jobs')
    BY <1>3, <1>4, IdsOfSet DEF PromiseInv
  <2>2. PICK k \in ToSet(jobs') : k.id = j.id
    BY <2>1, IdsOfSet
  <2>3. k \in ToSet(jobs)
    BY <1>3, <1>4, <2>2
  <2> QED BY <2>1, <2>2, <2>3 DEF PromiseInv, JobsInv, Distinct
<1>5. promised' \subseteq ToSet(jobs')
  BY <1>1, <1>2, <1>3, <1>4
<1> QED BY <1>1, <1>5 DEF PromiseInv

LEMMA RecurringStepKeeps == ASSUME PromiseInv, RecurringStep PROVE PromiseInv'
<1>1. JobsInv'
  BY JobsKeep DEF PromiseInv, RecurringStep
<1>2. ASSUME NEW u \in Users, NEW recipient \in Recipients, NEW frequency \in Frequencies,
             Schedule(u, recipient, frequency)
      PROVE  PromiseInv'
  <2>1. up /\ up' /\ UNCHANGED file
    BY <1>2 DEF Schedule
  <2> QED BY <1>1, <1>2, <2>1, RunningKeeps, ScheduleSets DEF PromiseInv
<1>3. ASSUME NEW id \in Known, Cancel(id) PROVE PromiseInv'
  <2>1. up /\ up' /\ UNCHANGED file
    BY <1>3 DEF Cancel
  <2>2. ToSet(jobs') = {j \in ToSet(jobs) : j.id # id}
    BY <1>3, CancelSets DEF PromiseInv
  <2> QED BY <1>1, <2>1, <2>2, RunningKeeps
<1>4. CASE Stop \/ Crash
  <2>1. /\ up /\ ~up'
        /\ \/ FileJobs' = {} /\ file' \in {Missing, Torn}
           \/ FileJobs' = ToSet(jobs) /\ file' = jobs
           \/ FileJobs' = FileJobs /\ UNCHANGED file
        /\ ~Hosted => UNCHANGED file
    BY <1>4, DownSets DEF PromiseInv
  <2>2. Stopping
    BY <2>1 DEF Stopping
  <2>3. jobs \in Seq(Job) /\ promised \subseteq ToSet(jobs)
    BY <2>1 DEF PromiseInv, JobsInv
  <2>4. kept' \subseteq FileJobs'
    <3>1. CASE SavedWell
      <4>1. file' = jobs /\ kept' = promised
        BY <3>1 DEF SavedWell, RecurringStep
      <4>2. FileJobs' = ToSet(jobs)
        BY <4>1, <2>3, FilesDiffer DEF FileJobs
      <4> QED BY <4>1, <4>2, <2>3
    <3>2. CASE ~SavedWell /\ file' = Torn
      BY <3>2, <2>2 DEF RecurringStep
    <3>3. CASE ~SavedWell /\ file' # Torn
      <4>1. kept' = kept
        BY <3>3, <2>2 DEF RecurringStep
      <4>2. UNCHANGED file
        BY <3>3, <1>4, <2>1, <2>2 DEF SavedWell, Stop, Crash, SaveJobs
      <4> QED BY <4>1, <4>2 DEF PromiseInv, FileJobs
    <3> QED BY <3>1, <3>2, <3>3
  <2>5. promised' = Rebuildable(kept')
    BY <2>2 DEF RecurringStep
  <2>6. promised' \subseteq Rebuildable(FileJobs')
    BY <2>4, <2>5 DEF Rebuildable
  <2> QED BY <1>1, <2>1, <2>4, <2>6 DEF PromiseInv, Rebuildable
<1>5. CASE Start
  <2>1. ~up /\ up' /\ UNCHANGED file
    BY <1>5 DEF Start
  <2>2. promised' = promised /\ kept' = kept /\ FileJobs' = FileJobs
    BY <2>1 DEF RecurringStep, Stopping, SavedWell, Promised, Confirmed, TakenBack, FileJobs
  <2>3. ToSet(jobs') = IF Hosted THEN Rebuildable(FileJobs) ELSE {}
    BY <1>5, StartSets DEF PromiseInv
  <2>4. ~Hosted => Rebuildable(FileJobs) = {}
    BY DEF PromiseInv, JobsInv, FileJobs, Rebuildable
  <2> QED BY <1>1, <2>1, <2>2, <2>3, <2>4 DEF PromiseInv
<1>6. ASSUME UNCHANGED <<jobs, file, up>> PROVE PromiseInv'
  <2>1. CASE up
    BY <1>1, <1>6, <2>1, RunningKeeps
  <2>2. CASE ~up
    <3>1. promised' = promised /\ kept' = kept /\ FileJobs' = FileJobs
      BY <1>6, <2>2 DEF RecurringStep, Stopping, SavedWell, Promised, Confirmed, TakenBack, FileJobs
    <3> QED BY <1>1, <1>6, <2>2, <3>1 DEF PromiseInv, Rebuildable
  <2> QED BY <2>1, <2>2
<1>7. ASSUME NEW t \in timers, Fire(t) PROVE UNCHANGED <<jobs, file, up>>
  BY <1>7 DEF Fire
<1>8. Run \/ ClockTicks => UNCHANGED <<jobs, file, up>>
  BY DEF Run, ClockTicks
<1> QED BY <1>2, <1>3, <1>4, <1>5, <1>6, <1>7, <1>8 DEF RecurringStep, RecurringNext

LEMMA PromisesKeep == PromiseInv /\ [MCNext]_mcVars => PromiseInv'
<1> SUFFICES ASSUME PromiseInv, [MCNext]_mcVars PROVE PromiseInv'
  OBVIOUS
<1>1. CASE RecurringStep
  BY <1>1, RecurringStepKeeps
<1>2. CASE UNCHANGED recurringMC
  BY <1>2 DEF recurringMC, recurringVars, PromiseInv, JobsInv, FileJobs, Rebuildable, ToSet
<1> QED BY <1>1, <1>2 DEF MCNext, mcVars

(* What was promised is scheduled: through cancellations of other jobs,    *)
(* stops and crashes, up to what came behind the last save that went well. *)
THEOREM PromisesCorrect == MCSpec => []PromisesOutliveRestart
<1>1. PromiseInv => PromisesOutliveRestart
  <2> SUFFICES ASSUME PromiseInv, up PROVE promised \subseteq timers
    BY DEF PromisesOutliveRestart
  <2>1. ~Hosted => ToSet(jobs) = {}
    BY EmptySet DEF PromiseInv, JobsInv
  <2> QED BY <2>1 DEF PromiseInv, JobsInv
<1> QED BY <1>1, PromiseInitInv, PromisesKeep, PTL DEF MCSpec

(* Where the history has a run of a user to a recipient.                   *)
Places(h, u, r) ==
    LET Of(k) == {i \in DOMAIN h[k] : h[k][i] = r}
    IN  UNION {{k} \X Of(k) : k \in {key \in HistoryKeys : key[1] = u}}

(* The entries of the history are as many as the runs.                     *)
RunsInv ==
    /\ JobsInv
    /\ due \in Seq(Job)
    /\ history \in [HistoryKeys -> Seq(Recipients)]
    /\ ran \in [Users \X Recipients -> Nat]
    /\ \A u \in Users, r \in Recipients :
          /\ IsFiniteSet(Places(history, u, r))
          /\ Cardinality(Places(history, u, r)) = ran[<<u, r>>]

LEMMA IsPlace ==
    ASSUME NEW h, NEW u, NEW r, NEW p
    PROVE  p \in Places(h, u, r) <=>
               \E k \in HistoryKeys : \E i \in DOMAIN h[k] :
                   k[1] = u /\ h[k][i] = r /\ p = <<k, i>>
BY DEF Places

LEMMA JobParts ==
    ASSUME NEW job \in Job
    PROVE  /\ job.id \in HistoryKeys /\ job.id[1] \in Users /\ job.recipient \in Recipients
BY DEF Job, Ids, HistoryKeys

(* A run is recorded under a key of its user.                              *)
LEMMA RecordedType ==
    ASSUME jobs \in Seq(Job), NEW job \in Job
    PROVE  RecordedUnder(job) \in HistoryKeys /\ RecordedUnder(job)[1] = UserOf(job)
<1> DEFINE same == {i \in DOMAIN jobs : /\ UserOf(jobs[i]) = UserOf(job)
                                        /\ jobs[i].recipient = job.recipient}
           first == CHOOSE i \in same : \A k \in same : i <= k
<1>1. UserOf(job) \in Users
  BY JobParts DEF UserOf
<1>2. CASE same = {}
  <2>1. RecordedUnder(job) = NoJob(UserOf(job))
    BY <1>2 DEF RecordedUnder
  <2> QED BY <1>1, <2>1 DEF NoJob, HistoryKeys
<1>3. CASE same # {}
  <2>1. same \in SUBSET Nat
    OBVIOUS
  <2>2. \E i \in same : \A k \in same : i <= k
    <3> HIDE DEF same
    <3>1. PICK n \in same : \A m \in same : ~(<<m, n>> \in OpToRel(<, Nat))
      BY <1>3, <2>1, WFMin, NatLessThanWellFounded
    <3>2. ASSUME NEW k \in same PROVE n <= k
      <4>1. k \in Nat /\ n \in Nat /\ ~(k < n)
        BY <2>1, <3>1 DEF OpToRel
      <4> QED BY <4>1
    <3> QED BY <3>2
  <2>3. first \in same
    <3> HIDE DEF same
    <3> QED BY <2>2
  <2>4. RecordedUnder(job) = jobs[first].id
    BY <1>3 DEF RecordedUnder
  <2>5. PICK i \in DOMAIN jobs : /\ RecordedUnder(job) = jobs[i].id
                                 /\ UserOf(jobs[i]) = UserOf(job)
    BY <2>3, <2>4
  <2>6. jobs[i] \in Job
    BY <2>5
  <2> QED BY <2>5, <2>6, JobParts DEF UserOf
<1> QED BY <1>2, <1>3

(* One more entry is one more place, and only of its user and recipient.   *)
Grows(h, g, key, n, x) ==
    /\ n \notin DOMAIN h[key] /\ DOMAIN g[key] = DOMAIN h[key] \cup {n} /\ g[key][n] = x
    /\ \A i \in DOMAIN h[key] : g[key][i] = h[key][i]
    /\ \A k \in HistoryKeys : k # key => g[k] = h[k]

LEMMA GrownPlaces ==
    ASSUME NEW h, NEW g, NEW key \in HistoryKeys, NEW n, NEW x, Grows(h, g, key, n, x),
           NEW u, NEW r
    PROVE  /\ <<key, n>> \notin Places(h, u, r)
           /\ key[1] = u /\ x = r => Places(g, u, r) = Places(h, u, r) \cup {<<key, n>>}
           /\ ~(key[1] = u /\ x = r) => Places(g, u, r) = Places(h, u, r)
<1> DEFINE new == <<key, n>>
<1>1. new \notin Places(h, u, r)
  BY IsPlace DEF Grows
<1>2. ASSUME NEW p \in Places(h, u, r) PROVE p \in Places(g, u, r)
  <2>1. PICK k \in HistoryKeys : \E i \in DOMAIN h[k] :
                 k[1] = u /\ h[k][i] = r /\ p = <<k, i>>
    BY IsPlace
  <2>2. PICK i \in DOMAIN h[k] : k[1] = u /\ h[k][i] = r /\ p = <<k, i>>
    BY <2>1
  <2>3. i \in DOMAIN g[k] /\ g[k][i] = r
    BY <2>2 DEF Grows
  <2> QED BY <2>2, <2>3, IsPlace
<1>3. ASSUME NEW p \in Places(g, u, r), p \notin Places(h, u, r)
      PROVE  p = new /\ key[1] = u /\ x = r
  <2>1. PICK k \in HistoryKeys : \E i \in DOMAIN g[k] :
                 k[1] = u /\ g[k][i] = r /\ p = <<k, i>>
    BY IsPlace
  <2>2. PICK i \in DOMAIN g[k] : k[1] = u /\ g[k][i] = r /\ p = <<k, i>>
    BY <2>1
  <2>3. ~(i \in DOMAIN h[k] /\ h[k][i] = r)
    BY <1>3, <2>2, IsPlace
  <2>4. k = key /\ i = n
    BY <2>2, <2>3 DEF Grows
  <2> QED BY <2>2, <2>4 DEF Grows
<1>4. key[1] = u /\ x = r => new \in Places(g, u, r)
  BY IsPlace DEF Grows
<1>5. key[1] = u /\ x = r => Places(g, u, r) = Places(h, u, r) \cup {new}
  BY <1>2, <1>3, <1>4
<1>6. ~(key[1] = u /\ x = r) => Places(g, u, r) = Places(h, u, r)
  BY <1>2, <1>3
<1> QED BY <1>1, <1>5, <1>6

LEMMA AppendGrows ==
    ASSUME NEW h \in [HistoryKeys -> Seq(Recipients)], NEW key \in HistoryKeys,
           NEW x \in Recipients
    PROVE  Grows(h, [h EXCEPT ![key] = Append(@, x)], key, Len(h[key]) + 1, x)
<1> DEFINE g == [h EXCEPT ![key] = Append(@, x)]
<1>1. /\ h[key] \in Seq(Recipients) /\ g[key] = Append(h[key], x)
      /\ \A k \in HistoryKeys : k # key => g[k] = h[k]
  OBVIOUS
<1>2. Len(h[key]) + 1 \notin DOMAIN h[key]
  BY <1>1
<1>3. DOMAIN g[key] = DOMAIN h[key] \cup {Len(h[key]) + 1} /\ g[key][Len(h[key]) + 1] = x
  BY <1>1
<1>4. \A i \in DOMAIN h[key] : g[key][i] = h[key][i]
  BY <1>1
<1> QED BY <1>1, <1>2, <1>3, <1>4 DEF Grows

LEMMA NothingRecorded ==
    ASSUME NEW h, h = [k \in HistoryKeys |-> <<>>], NEW u, NEW r
    PROVE  /\ h \in [HistoryKeys -> Seq(Recipients)]
           /\ IsFiniteSet(Places(h, u, r)) /\ Cardinality(Places(h, u, r)) = 0
<1>1. \A p : p \notin Places(h, u, r)
  BY IsPlace
<1>2. Places(h, u, r) = {}
  BY <1>1
<1> QED BY <1>2, FS_EmptySet

LEMMA RunsInitInv == MCInit => RunsInv
<1> SUFFICES ASSUME MCInit PROVE RunsInv
  OBVIOUS
<1>1. JobsInv /\ due = <<>> /\ history = [k \in HistoryKeys |-> <<>>] /\ ran = NoRuns
  BY JobsInitInv DEF MCInit, RecurringInit
<1>2. due \in Seq(Job) /\ ran \in [Users \X Recipients -> Nat]
  BY <1>1 DEF NoRuns
<1>3. \A u \in Users, r \in Recipients : ran[<<u, r>>] = 0
  BY <1>1 DEF NoRuns
<1>4. history \in [HistoryKeys -> Seq(Recipients)]
  BY <1>1, NothingRecorded
<1>5. ASSUME NEW u \in Users, NEW r \in Recipients
      PROVE  IsFiniteSet(Places(history, u, r)) /\ Cardinality(Places(history, u, r)) = 0
  BY <1>1, NothingRecorded
<1> QED BY <1>1, <1>2, <1>3, <1>4, <1>5 DEF RunsInv

LEMMA RunStepKeeps == ASSUME RunsInv, RecurringStep, Run PROVE RunsInv'
<1>1. JobsInv'
  BY JobsKeep DEF RunsInv, RecurringStep
<1> DEFINE job == Head(due)
           key == RecordedUnder(job)
           x == job.recipient
           n == Len(history[key]) + 1
           pair == <<UserOf(job), x>>
<1>2. due # <<>> /\ due' = Tail(due) /\ RecordRun(job)
  BY DEF Run
<1>3. due \in Seq(Job) /\ jobs \in Seq(Job)
  BY DEF RunsInv, JobsInv
<1>4. job \in Job /\ due' \in Seq(Job) /\ Len(due') < Len(due)
  BY <1>2, <1>3
<1>5. ran' = [ran EXCEPT ![pair] = @ + 1]
  BY <1>4 DEF RecurringStep, Run, Stopping
<1>6. history' = [history EXCEPT ![key] = Append(@, x)]
  BY <1>2 DEF RecordRun
<1>7. key \in HistoryKeys /\ key[1] = UserOf(job)
  BY <1>3, <1>4, RecordedType
<1>8. x \in Recipients /\ UserOf(job) \in Users
  BY <1>4, JobParts DEF UserOf
<1>9. Grows(history, history', key, n, x)
  <2>1. history \in [HistoryKeys -> Seq(Recipients)]
    BY DEF RunsInv
  <2> HIDE DEF key, x
  <2> QED BY <1>6, <1>7, <1>8, <2>1, AppendGrows
<1> HIDE DEF job, key, x, n
<1>10. history' \in [HistoryKeys -> Seq(Recipients)]
  BY <1>6, <1>7, <1>8 DEF RunsInv
<1>11. ran' \in [Users \X Recipients -> Nat]
  BY <1>5, <1>8 DEF RunsInv
<1>12. ASSUME NEW u \in Users, NEW r \in Recipients
       PROVE  /\ IsFiniteSet(Places(history', u, r))
              /\ Cardinality(Places(history', u, r)) = ran'[<<u, r>>]
  <2>1. /\ IsFiniteSet(Places(history, u, r))
        /\ Cardinality(Places(history, u, r)) = ran[<<u, r>>]
    BY DEF RunsInv
  <2> DEFINE new == <<key, n>>
  <2>2. /\ new \notin Places(history, u, r)
        /\ key[1] = u /\ x = r => Places(history', u, r) = Places(history, u, r) \cup {new}
        /\ ~(key[1] = u /\ x = r) => Places(history', u, r) = Places(history, u, r)
    BY <1>7, <1>9, GrownPlaces
  <2> HIDE DEF new
  <2>3. CASE key[1] = u /\ x = r
    <3>1. Places(history', u, r) = Places(history, u, r) \cup {new}
      BY <2>2, <2>3
    <3>2. IsFiniteSet(Places(history, u, r) \cup {new})
      BY <2>1, FS_AddElement
    <3>3. Cardinality(Places(history, u, r) \cup {new}) = Cardinality(Places(history, u, r)) + 1
      BY <2>1, <2>2, FS_AddElement
    <3>4. ran'[<<u, r>>] = ran[<<u, r>>] + 1
      BY <1>5, <1>7, <2>3 DEF RunsInv
    <3> QED BY <2>1, <3>1, <3>2, <3>3, <3>4
  <2>4. CASE ~(key[1] = u /\ x = r)
    <3>1. pair # <<u, r>>
      BY <1>7, <2>4
    <3>2. ran'[<<u, r>>] = ran[<<u, r>>]
      BY <1>5, <3>1 DEF RunsInv
    <3> QED BY <2>1, <2>2, <2>4, <3>2
  <2> QED BY <2>3, <2>4
<1> QED BY <1>1, <1>4, <1>10, <1>11, <1>12 DEF RunsInv

LEMMA RecurringRunsKeep == ASSUME RunsInv, RecurringStep PROVE RunsInv'
<1>1. JobsInv'
  BY JobsKeep DEF RunsInv, RecurringStep
<1>2. CASE Run
  BY <1>2, RunStepKeeps
<1>3. CASE Stop \/ Crash
  <2>1. up /\ ~up' /\ due' = <<>> /\ history' = [k \in HistoryKeys |-> <<>>]
    BY <1>3 DEF Stop, Crash, Down
  <2>2. ran' = NoRuns
    BY <2>1 DEF RecurringStep, Stopping
  <2>3. ran' \in [Users \X Recipients -> Nat]
    BY <2>2 DEF NoRuns
  <2>4. \A u \in Users, r \in Recipients : ran'[<<u, r>>] = 0
    BY <2>2 DEF NoRuns
  <2>5. history' \in [HistoryKeys -> Seq(Recipients)]
    BY <2>1, NothingRecorded
  <2>6. ASSUME NEW u \in Users, NEW r \in Recipients
        PROVE  /\ IsFiniteSet(Places(history', u, r))
               /\ Cardinality(Places(history', u, r)) = 0
    BY <2>1, NothingRecorded
  <2>7. due' \in Seq(Job)
    BY <2>1
  <2> QED BY <1>1, <2>3, <2>4, <2>5, <2>6, <2>7 DEF RunsInv
<1>4. ASSUME UNCHANGED history, due' \in Seq(Job), ~(Len(due') < Len(due)), ~Stopping
      PROVE  RunsInv'
  <2>1. ran' = ran
    BY <1>4 DEF RecurringStep
  <2> QED BY <1>1, <1>4, <2>1 DEF RunsInv
<1>5. ASSUME NEW t \in timers, Fire(t) PROVE RunsInv'
  <2>1. timers = ToSet(jobs) /\ jobs \in Seq(Job) /\ due \in Seq(Job)
    BY <1>5 DEF Fire, RunsInv, JobsInv
  <2>2. t \in Job
    BY <2>1 DEF ToSet
  <2>3. due' = Append(due, t) /\ UNCHANGED history /\ up /\ up'
    BY <1>5 DEF Fire
  <2>4. due' \in Seq(Job) /\ ~(Len(due') < Len(due))
    BY <2>1, <2>2, <2>3
  <2> QED BY <1>4, <2>3, <2>4 DEF Stopping
<1>6. ASSUME UNCHANGED <<history, due>>, ~Stopping PROVE RunsInv'
  <2>1. due' \in Seq(Job) /\ ~(Len(due') < Len(due))
    BY <1>6 DEF RunsInv
  <2> QED BY <1>4, <1>6, <2>1
<1>7. ASSUME NEW u \in Users, NEW recipient \in Recipients, NEW frequency \in Frequencies,
             Schedule(u, recipient, frequency)
      PROVE  UNCHANGED <<history, due>> /\ ~Stopping
  BY <1>7 DEF Schedule, Stopping
<1>8. ASSUME NEW id \in Known, Cancel(id) PROVE UNCHANGED <<history, due>> /\ ~Stopping
  BY <1>8 DEF Cancel, Stopping
<1>9. Start \/ ClockTicks => UNCHANGED <<history, due>> /\ ~Stopping
  BY DEF Start, ClockTicks, Stopping
<1> QED BY <1>2, <1>3, <1>5, <1>6, <1>7, <1>8, <1>9 DEF RecurringStep, RecurringNext

LEMMA RunsKeep == RunsInv /\ [MCNext]_mcVars => RunsInv'
<1> SUFFICES ASSUME RunsInv, [MCNext]_mcVars PROVE RunsInv'
  OBVIOUS
<1>1. CASE RecurringStep
  BY <1>1, RecurringRunsKeep
<1>2. CASE UNCHANGED recurringMC
  BY <1>2 DEF recurringMC, recurringVars, RunsInv, JobsInv, FileJobs, ToSet
<1> QED BY <1>1, <1>2 DEF MCNext, mcVars

(* Each run has its entry under a key of its user, whether its job was     *)
(* cancelled, replaced or listed at the time, and nothing else has one.    *)
THEOREM RecordsCorrect == MCSpec => []EveryRunIsRecorded
<1>1. RunsInv => EveryRunIsRecorded
  BY DEF RunsInv, EveryRunIsRecorded, Entries, Places
<1> QED BY <1>1, RunsInitInv, RunsKeep, PTL DEF MCSpec

-----------------------------------------------------------------------------
(* Chats *)

ChatInv == ChatTypeOK /\ BalancesAreOfTheWallet

LEMMA ChatInitInv == ChatInit => ChatInv
BY DEF ChatInit, ChatInv, ChatTypeOK, BalancesAreOfTheWallet, Owner, Contacts, NoContacts,
       Brought, NoTurn

LEMMA WalletUpdates ==
    ASSUME ChatInv, NEW u \in ChatUsers, NEW given \in WalletGiven, UpdateWallet(u, given)
    PROVE  /\ wallet' \in [address : Owner, connected : BOOLEAN, balances : Owner]
           /\ BalancesAreOfTheWallet'
<1>1. CASE given = "connected"
  <2>1. PICK balances \in {u, Nobody} :
            wallet' = [address |-> u, connected |-> TRUE, balances |-> balances]
    BY <1>1 DEF UpdateWallet, Connect, Fetched
  <2> QED BY <2>1 DEF Owner, BalancesAreOfTheWallet
<1>2. CASE given = "disconnected"
  <2>1. PICK address \in {u, Nobody} :
            wallet' = [address |-> address, connected |-> FALSE, balances |-> Nobody]
    BY <1>2 DEF UpdateWallet, Disconnect
  <2> QED BY <2>1 DEF Owner, BalancesAreOfTheWallet
<1>3. CASE given = "absent"
  BY <1>3 DEF UpdateWallet, ChatInv, ChatTypeOK, BalancesAreOfTheWallet
<1> QED BY <1>1, <1>2, <1>3 DEF WalletGiven

LEMMA ContactUpdates ==
    ASSUME ChatInv, NEW u \in ChatUsers, NEW given \in ContactsGiven, UpdateContacts(u, given)
    PROVE  contacts' \in Contacts
BY DEF UpdateContacts, ChatInv, ChatTypeOK, ContactsGiven, Contacts, NoContacts, Owner

(* What the middleware leaves of the instructions and the list of chats,   *)
(* however far it came.                                                    *)
LEMMA ChatOutcomes ==
    ASSUME ChatInv, NEW u \in ChatUsers, NEW given \in WalletGiven, NEW gives \in ContactsGiven,
           Chat(u, given, gives)
    PROVE  /\ contacts' \in Contacts
           /\ showFees' \in BOOLEAN
           /\ \/ /\ UpdateContacts(u, gives)
                 /\ instructions' = Build
                 /\ Begin(u, given, gives)
              \/ /\ UNCHANGED instructions
                 /\ BeginUnbuilt(u, given)
<1>1. CASE Rebuilds(u, given, gives)
  BY <1>1, ContactUpdates DEF Rebuilds
<1>2. CASE FailsToBuild(u, given, gives)
  BY <1>2, ContactUpdates DEF FailsToBuild
<1>3. CASE FailsAtSettings(u, given, gives)
  BY <1>3, ContactUpdates DEF FailsAtSettings, ChatInv, ChatTypeOK
<1>4. CASE FailsAfterWallet(u, given)
  BY <1>4 DEF FailsAfterWallet, ChatInv, ChatTypeOK
<1> QED BY <1>1, <1>2, <1>3, <1>4 DEF Chat

LEMMA ChatStepKeeps == ChatInv /\ [ChatNext]_chatVars => ChatInv'
<1> SUFFICES ASSUME ChatInv, [ChatNext]_chatVars PROVE ChatInv'
  OBVIOUS
<1> USE DEF ChatInv
<1>1. ASSUME NEW u \in ChatUsers, NEW given \in WalletGiven, NEW gives \in ContactsGiven,
             Chat(u, given, gives)
      PROVE  ChatInv'
  <2>1. /\ wallet' \in [address : Owner, connected : BOOLEAN, balances : Owner]
        /\ BalancesAreOfTheWallet'
    BY <1>1, WalletUpdates DEF Chat
  <2>2. contacts' \in Contacts /\ showFees' \in BOOLEAN
    BY <1>1, ChatOutcomes
  <2>3. instructions' \in [wallet : Owner, contacts : Owner, fees : BOOLEAN]
    <3>1. Build \in [wallet : Owner, contacts : Owner, fees : BOOLEAN]
      BY <2>1, <2>2 DEF Build, WalletShown, Owner, Contacts
    <3> QED BY <1>1, <3>1, ChatOutcomes DEF ChatTypeOK
  <2>4. chats' \in [ChatUsers -> Brought \cup {NoChat}]
    <3>1. CASE Begin(u, given, gives)
      BY <3>1 DEF Begin, Brought, ChatTypeOK
    <3>2. CASE BeginUnbuilt(u, given)
      BY <3>2 DEF BeginUnbuilt, Brought, ContactsGiven, ChatTypeOK
    <3> QED BY <1>1, <3>1, <3>2, ChatOutcomes
  <2> QED BY <1>1, <2>1, <2>2, <2>3, <2>4 DEF Chat, ChatTypeOK
<1>2. ASSUME NEW u \in ChatUsers, Turn(u) PROVE ChatInv'
  BY <1>2 DEF Turn, ChatTypeOK, WalletShown, Owner, BalancesAreOfTheWallet
<1>3. ASSUME NEW u \in ChatUsers, Reply(u) PROVE ChatInv'
  BY <1>3 DEF Reply, ChatTypeOK, NoTurn, Owner, BalancesAreOfTheWallet
<1>4. ASSUME NEW u \in ChatUsers, NEW given \in WalletGiven, PostWallet(u, given) PROVE ChatInv'
  BY <1>4, WalletUpdates DEF PostWallet, ChatTypeOK
<1>5. ASSUME NEW u \in ChatUsers, NEW given \in ContactsGiven, PostContacts(u, given)
      PROVE  ChatInv'
  BY <1>5, ContactUpdates DEF PostContacts, ChatTypeOK, BalancesAreOfTheWallet
<1>6. ASSUME NEW show \in BOOLEAN, PutSettings(show) PROVE ChatInv'
  BY <1>6 DEF PutSettings, ChatTypeOK, BalancesAreOfTheWallet
<1>7. CASE UNCHANGED chatVars
  BY <1>7 DEF chatVars, ChatTypeOK, BalancesAreOfTheWallet
<1> QED BY <1>1, <1>2, <1>3, <1>4, <1>5, <1>6, <1>7 DEF ChatNext

(* The context of the chats stays of its type, and never shows the         *)
(* balances of one wallet under the address of another.                    *)
THEOREM ChatContextCorrect == ChatSpec => [](ChatTypeOK /\ BalancesAreOfTheWallet)
<1> QED BY ChatInitInv, ChatStepKeeps, PTL DEF ChatSpec, ChatInv

(* The chat of u finds in the context what it brought, and, when they were *)
(* built for it, in the instructions what is in the context.               *)
HasItsOwn(u) ==
    /\ chats[u] # NoChat
    /\ chats[u].wallet = "connected" => WalletShown(wallet) = u
    /\ chats[u].wallet = "disconnected" => WalletShown(wallet) = Nobody
    /\ chats[u].built =>
          /\ instructions.wallet = WalletShown(wallet)
          /\ instructions.contacts = contacts.of
          /\ chats[u].contacts = "sortable" => contacts.of = u
          /\ chats[u].contacts = "broken" => contacts.of = Nobody

AloneInv ==
    /\ ChatInv
    /\ alone \subseteq ChatUsers
    /\ \A u \in alone : HasItsOwn(u)
    /\ lastTurn.user \in ChatUsers => chats[lastTurn.user] # NoChat
    /\ AloneSeesOwn

LEMMA AloneInitInv == MCInit => AloneInv
<1> SUFFICES ASSUME MCInit PROVE AloneInv
  OBVIOUS
<1>1. ChatInv /\ alone = {} /\ lastTurn.user = Nobody
  BY ChatInitInv DEF MCInit, ChatInit, NoTurn
<1> QED BY <1>1, ChatAssumption DEF AloneInv, AloneSeesOwn, ChatAssumption

(* A post or a setting: whoever stays alone had the context unchanged.     *)
LEMMA ContextStepKeeps ==
    ASSUME AloneInv, ChatInv', ChatStep, UNCHANGED <<instructions, chats, lastTurn>>
    PROVE  AloneInv'
<1>1. \A u \in alone' : u \in alone /\ u \in ChatUsers /\ UNCHANGED <<wallet, contacts>>
  BY DEF ChatStep, Asking
<1>2. alone' \subseteq ChatUsers /\ \A u \in alone' : HasItsOwn(u)'
  BY <1>1 DEF AloneInv, HasItsOwn, WalletShown
<1>3. AloneSeesOwn'
  BY <1>1 DEF AloneInv, AloneSeesOwn, ReadItsOwn
<1> QED BY <1>2, <1>3 DEF AloneInv

LEMMA ChatKeeps ==
    ASSUME AloneInv, ChatInv', ChatStep,
           NEW u \in ChatUsers, NEW given \in WalletGiven, NEW gives \in ContactsGiven,
           Chat(u, given, gives)
    PROVE  AloneInv'
<1>1. chats[u] = NoChat /\ lastTurn' = lastTurn
  BY DEF Chat
<1>2. /\ given = "connected" => WalletShown(wallet)' = u
      /\ given = "disconnected" => WalletShown(wallet)' = Nobody
  <2>1. CASE given = "connected"
    <3>1. Connect(u)
      BY <2>1 DEF Chat, UpdateWallet
    <3> QED BY <2>1, <3>1 DEF Connect, WalletShown
  <2>2. CASE given = "disconnected"
    <3>1. Disconnect(u)
      BY <2>2 DEF Chat, UpdateWallet
    <3> QED BY <2>2, <3>1 DEF Disconnect, WalletShown
  <2> QED BY <2>1, <2>2
<1>3. alone' \subseteq ChatUsers
  BY DEF ChatStep
<1>4. \A v \in ChatUsers \ {u} : chats'[v] = chats[v]
  BY ChatOutcomes DEF Begin, BeginUnbuilt, AloneInv, ChatInv, ChatTypeOK
<1>5. ASSUME NEW v \in alone', v # u PROVE v \in alone /\ UNCHANGED <<wallet, contacts>>
  BY <1>4, <1>5 DEF ChatStep, Asking
<1>6. ASSUME NEW v \in alone' PROVE HasItsOwn(v)'
  <2>1. chats'[v] # NoChat
    BY DEF ChatStep
  <2>2. CASE v # u
    <3>1. HasItsOwn(v) /\ UNCHANGED <<wallet, contacts>> /\ chats'[v] = chats[v]
      BY <1>3, <1>4, <1>5, <2>2 DEF AloneInv
    <3>2. CASE instructions' = Build
      BY <3>1, <3>2 DEF Build, HasItsOwn, WalletShown
    <3>3. CASE UNCHANGED instructions
      BY <3>1, <3>3 DEF HasItsOwn, WalletShown
    <3> QED BY <3>2, <3>3, ChatOutcomes DEF AloneInv
  <2>3. CASE v = u
    <3>1. CASE UpdateContacts(u, gives) /\ instructions' = Build /\ Begin(u, given, gives)
      <4>1. chats'[u] = [wallet |-> given, contacts |-> gives, built |-> TRUE]
        BY <3>1 DEF Begin, AloneInv, ChatInv, ChatTypeOK
      <4>2. /\ gives = "sortable" => contacts'.of = u
            /\ gives = "broken" => contacts'.of = Nobody
        BY <3>1 DEF UpdateContacts, NoContacts
      <4>3. /\ instructions'.wallet = WalletShown(wallet)'
            /\ instructions'.contacts = contacts'.of
        BY <3>1 DEF Build, WalletShown
      <4> QED BY <1>2, <2>1, <2>3, <4>1, <4>2, <4>3 DEF HasItsOwn
    <3>2. CASE BeginUnbuilt(u, given)
      <4>1. chats'[u] = [wallet |-> given, contacts |-> "absent", built |-> FALSE]
        BY <3>2 DEF BeginUnbuilt, AloneInv, ChatInv, ChatTypeOK
      <4> QED BY <1>2, <2>1, <2>3, <4>1 DEF HasItsOwn
    <3> QED BY <3>1, <3>2, ChatOutcomes DEF AloneInv
  <2> QED BY <2>2, <2>3
<1>7. lastTurn.user # u
  BY <1>1 DEF AloneInv
<1>8. lastTurn'.user \in ChatUsers => chats'[lastTurn'.user] # NoChat
  BY <1>1, <1>4, <1>7 DEF AloneInv
<1>9. AloneSeesOwn'
  BY <1>1, <1>3, <1>4, <1>5, <1>7 DEF AloneInv, AloneSeesOwn, ReadItsOwn
<1> QED BY <1>3, <1>6, <1>8, <1>9 DEF AloneInv

LEMMA TurnKeeps ==
    ASSUME AloneInv, ChatInv', ChatStep, NEW u \in ChatUsers, Turn(u)
    PROVE  AloneInv'
<1>1. /\ chats[u] # NoChat
      /\ lastTurn' = [user |-> u, wallet |-> instructions.wallet,
                      contacts |-> instructions.contacts, tool |-> WalletShown(wallet)]
      /\ UNCHANGED <<wallet, contacts, instructions, chats>>
  BY DEF Turn
<1>2. alone' \subseteq ChatUsers /\ alone' \subseteq alone
  BY <1>1 DEF ChatStep, Asking
<1>3. \A v \in alone' : HasItsOwn(v)'
  BY <1>1, <1>2 DEF AloneInv, HasItsOwn, WalletShown
<1>4. AloneSeesOwn'
  BY <1>1, <1>2 DEF AloneInv, AloneSeesOwn, HasItsOwn, ReadItsOwn
<1> QED BY <1>1, <1>2, <1>3, <1>4 DEF AloneInv

LEMMA ReplyKeeps ==
    ASSUME AloneInv, ChatInv', ChatStep, NEW u \in ChatUsers, Reply(u)
    PROVE  AloneInv'
<1>1. /\ lastTurn' = IF lastTurn.user = u THEN NoTurn ELSE lastTurn
      /\ UNCHANGED <<wallet, contacts, instructions>>
      /\ chats'[u] = NoChat
      /\ \A v \in ChatUsers \ {u} : chats'[v] = chats[v]
  BY DEF Reply, AloneInv, ChatInv, ChatTypeOK
<1>2. alone' \subseteq ChatUsers \ {u} /\ alone' \subseteq alone
  BY <1>1 DEF ChatStep, Asking
<1>3. \A v \in alone' : HasItsOwn(v)'
  BY <1>1, <1>2 DEF AloneInv, HasItsOwn, WalletShown
<1>4. NoTurn.user \notin ChatUsers
  BY ChatAssumption DEF NoTurn, ChatAssumption
<1>5. lastTurn'.user \in ChatUsers => lastTurn' = lastTurn /\ lastTurn.user # u
  BY <1>1, <1>4
<1>6. lastTurn'.user \in ChatUsers => chats'[lastTurn'.user] # NoChat
  BY <1>1, <1>5 DEF AloneInv
<1>7. AloneSeesOwn'
  BY <1>1, <1>2, <1>5 DEF AloneInv, AloneSeesOwn, ReadItsOwn
<1> QED BY <1>2, <1>3, <1>6, <1>7 DEF AloneInv

LEMMA AloneKeeps == AloneInv /\ [MCNext]_mcVars => AloneInv'
<1> SUFFICES ASSUME AloneInv, [MCNext]_mcVars PROVE AloneInv'
  OBVIOUS
<1>1. CASE UNCHANGED chatMC
  BY <1>1 DEF chatMC, chatVars, AloneInv, ChatInv, ChatTypeOK, BalancesAreOfTheWallet,
              HasItsOwn, WalletShown, AloneSeesOwn, ReadItsOwn
<1>2. CASE ChatStep
  <2>1. ChatInv'
    BY <1>2, ChatStepKeeps DEF AloneInv, ChatStep
  <2>2. ASSUME NEW u \in ChatUsers, NEW given \in WalletGiven, PostWallet(u, given)
        PROVE  AloneInv'
    BY <1>2, <2>1, <2>2, ContextStepKeeps DEF PostWallet
  <2>3. ASSUME NEW u \in ChatUsers, NEW given \in ContactsGiven, PostContacts(u, given)
        PROVE  AloneInv'
    BY <1>2, <2>1, <2>3, ContextStepKeeps DEF PostContacts
  <2>4. ASSUME NEW show \in BOOLEAN, PutSettings(show) PROVE AloneInv'
    BY <1>2, <2>1, <2>4, ContextStepKeeps DEF PutSettings
  <2> QED BY <1>2, <2>1, <2>2, <2>3, <2>4, ChatKeeps, TurnKeeps, ReplyKeeps
          DEF ChatStep, ChatNext
<1> QED BY <1>1, <1>2 DEF MCNext, mcVars

(* A chat that nothing came in between of reads its own wallet from the    *)
(* tool in every turn, and its own wallet and contacts in instructions     *)
(* that were built for it.                                                 *)
THEOREM AloneCorrect == MCSpec => []AloneSeesOwn
<1>1. AloneInv => AloneSeesOwn
  BY DEF AloneInv
<1> QED BY <1>1, AloneInitInv, AloneKeeps, PTL DEF MCSpec

=============================================================================
