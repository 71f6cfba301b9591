---------------------------- MODULE QuotesProofs ----------------------------
(***************************************************************************)
(* Theorems of FeeComparison, WiseClient, TransferPreview and RouteFinder  *)
(* with the histories of MCQuotes, for any number of callers, quotes,      *)
(* previews and currencies, any lifetimes of the caches and any limit.     *)
(*                                                                         *)
(* Data called real-time pass through two caches.  The invariant says how  *)
(* old they may be in each: the client's entry of a pair is never older    *)
(* than the service's entry of any of its quotes, and lives WiseTTL from   *)
(* its fetch; the service's entry lives RealtimeTTL from a moment at which *)
(* the client's was fresh.  The timestamps of the client's window are the  *)
(* last requests, and those it has dropped are out of the window.          *)
(* Of routes it says that every one found or cached is a shortest.         *)
(***************************************************************************)
EXTENDS MCQuotes, FiniteSetTheorems, WellFoundedInduction, TLAPS

-----------------------------------------------------------------------------
(* The calls in a window *)

(* Induction over a prefix of the numbers, with a set for the predicate.   *)
LEMMA UpTo ==
    ASSUME NEW N \in Nat, NEW G, 0 \in G, \A k \in 1 .. N : k - 1 \in G => k \in G
    PROVE  0 .. N \subseteq G
<1> DEFINE T == (0 .. N) \ G
<1>1. SUFFICES ASSUME T # {} PROVE FALSE
  OBVIOUS
<1>2. PICK n \in T : \A m \in T : ~(<<m, n>> \in OpToRel(<, Nat))
  <2>1. T \in SUBSET Nat
    OBVIOUS
  <2> HIDE DEF T
  <2> QED BY <1>1, <2>1, WFMin, NatLessThanWellFounded
<1>3. ASSUME NEW m \in T, m < n PROVE FALSE
  <2>1. m \in Nat /\ n \in Nat
    OBVIOUS
  <2> HIDE DEF T
  <2> QED BY <1>2, <1>3, <2>1 DEF OpToRel
<1>4. n \in 1 .. N /\ n - 1 \in 0 .. N /\ n - 1 < n
  OBVIOUS
<1> QED BY <1>3, <1>4

(* What the function inside Recent computes of calls s at the time t:      *)
(* first that there is one.                                                *)
Step(s, t, f, n) ==
    IF n = 0 THEN <<>>
    ELSE IF s[n] + Window > t THEN Append(f[n - 1], s[n]) ELSE f[n - 1]

LEMMA RecentExists ==
    ASSUME NEW s \in Seq(Nat), NEW t \in Nat
    PROVE  \E f \in [0 .. Len(s) -> Seq(Nat)] : \A n \in 0 .. Len(s) : f[n] = Step(s, t, f, n)
<1> DEFINE Upto(k) == \E f \in [0 .. k -> Seq(Nat)] : \A n \in 0 .. k : f[n] = Step(s, t, f, n)
           G == {k \in 0 .. Len(s) : Upto(k)}
<1>1. Len(s) \in Nat /\ \A n \in 1 .. Len(s) : s[n] \in Nat
  OBVIOUS
<1>2. 0 \in G
  <2> DEFINE f == [n \in 0 .. 0 |-> <<>>]
  <2>1. f \in [0 .. 0 -> Seq(Nat)] /\ \A n \in 0 .. 0 : f[n] = Step(s, t, f, n)
    BY DEF Step
  <2>2. Upto(0)
    BY <2>1
  <2>3. 0 \in 0 .. Len(s)
    BY <1>1
  <2> HIDE DEF Upto
  <2> QED BY <2>2, <2>3
<1>3. ASSUME NEW k \in 1 .. Len(s), k - 1 \in G PROVE k \in G
  <2>1. PICK f \in [0 .. k - 1 -> Seq(Nat)] : \A n \in 0 .. k - 1 : f[n] = Step(s, t, f, n)
    BY <1>3
  <2> DEFINE g == [n \in 0 .. k |-> IF n < k THEN f[n] ELSE Step(s, t, f, k)]
  <2>2. f[k - 1] \in Seq(Nat) /\ s[k] \in Nat
    BY <1>1, <2>1
  <2>3. g \in [0 .. k -> Seq(Nat)]
    BY <2>1, <2>2 DEF Step
  <2>4. ASSUME NEW n \in 0 .. k PROVE g[n] = Step(s, t, g, n)
    <3>1. CASE n = k
      BY <3>1 DEF Step
    <3>2. CASE n # k
      <4>1. n \in 0 .. k - 1 /\ (n # 0 => n - 1 \in 0 .. k - 1)
        BY <3>2
      <4>2. g[n] = f[n] /\ (n # 0 => g[n - 1] = f[n - 1])
        BY <4>1
      <4> HIDE DEF g
      <4> QED BY <4>1, <4>2, <2>1 DEF Step
    <3> QED BY <3>1, <3>2
  <2>5. Upto(k)
    BY <2>3, <2>4
  <2>6. k \in 0 .. Len(s)
    BY <1>1
  <2> HIDE DEF Upto
  <2> QED BY <2>5, <2>6
<1>4. 0 .. Len(s) \subseteq G
  <2> HIDE DEF G
  <2> QED BY <1>1, <1>2, <1>3, UpTo
<1>5. Len(s) \in G
  <2> HIDE DEF G
  <2> QED BY <1>1, <1>4
<1> QED BY <1>5

(* r is s less its first d.                                                *)
Suffix(r, s, d) == Len(r) = Len(s) - d /\ \A i \in 1 .. Len(s) - d : r[i] = s[d + i]

Ordered(s) == \A i, j \in 1 .. Len(s) : i <= j => s[i] <= s[j]

LEMMA AppendFacts ==
    ASSUME NEW q \in Seq(Nat), NEW x \in Nat
    PROVE  /\ Append(q, x) \in Seq(Nat) /\ Len(Append(q, x)) = Len(q) + 1
           /\ Append(q, x)[Len(q) + 1] = x
           /\ \A i \in 1 .. Len(q) : Append(q, x)[i] = q[i]
OBVIOUS

(* Of calls in the order of time, those too old are the first ones.        *)
LEMMA RecentIsSuffix ==
    ASSUME NEW s \in Seq(Nat), NEW t \in Nat, Ordered(s),
           NEW f, f = [n \in 0 .. Len(s) |-> Step(s, t, f, n)]
    PROVE  /\ f[Len(s)] \in Seq(Nat)
           /\ \E e \in 0 .. Len(s) :
                 Suffix(f[Len(s)], s, e) /\ \A i \in 1 .. e : s[i] + Window <= t
<1> DEFINE Shape(k, e) == /\ Len(f[k]) = k - e
                          /\ \A i \in 1 .. k - e : f[k][i] = s[e + i]
                          /\ \A i \in 1 .. e : s[i] + Window <= t
                          /\ \A i \in e + 1 .. k : s[i] + Window > t
           Holds(k) == f[k] \in Seq(Nat) /\ \E e \in 0 .. k : Shape(k, e)
           G == {k \in 0 .. Len(s) : Holds(k)}
<1>0. Window \in Nat
  BY WiseAssumption DEF WiseAssumption
<1>1. Len(s) \in Nat /\ \A n \in 1 .. Len(s) : s[n] \in Nat
  OBVIOUS
<1>2. \A n \in 0 .. Len(s) : f[n] = Step(s, t, f, n)
  OBVIOUS
<1>3. 0 \in G
  <2>1. f[0] = <<>>
    BY <1>1, <1>2 DEF Step
  <2>2. Shape(0, 0)
    BY <2>1
  <2>3. f[0] \in Seq(Nat)
    BY <2>1
  <2>4. 0 \in 0 .. 0 /\ 0 \in 0 .. Len(s)
    BY <1>1
  <2> HIDE DEF Shape
  <2>5. Holds(0)
    BY <2>2, <2>3, <2>4
  <2> HIDE DEF Holds
  <2> QED BY <2>4, <2>5
<1>4. ASSUME NEW k \in 1 .. Len(s), k - 1 \in G PROVE k \in G
  <2>1. f[k - 1] \in Seq(Nat)
    BY <1>4
  <2>2. PICK e \in 0 .. k - 1 : Shape(k - 1, e)
    BY <1>4
  <2>3. f[k] = IF s[k] + Window > t THEN Append(f[k - 1], s[k]) ELSE f[k - 1]
    <3>1. k \in 0 .. Len(s) /\ k # 0
      BY <1>1
    <3> QED BY <1>2, <3>1 DEF Step
  <2>4. s[k] \in Nat
    BY <1>1
  <2>5. f[k] \in Seq(Nat)
    BY <2>1, <2>3, <2>4, AppendFacts
  <2>6. CASE s[k] + Window > t
    <3>1. f[k] = Append(f[k - 1], s[k])
      BY <2>3, <2>6
    <3>2. k \in Nat /\ e \in Nat /\ Len(f[k - 1]) = k - 1 - e /\ (k - 1 - e) + 1 = k - e
      BY <1>1, <2>2
    <3>3. /\ Len(f[k]) = k - e /\ f[k][k - e] = s[k]
          /\ \A i \in 1 .. k - 1 - e : f[k][i] = f[k - 1][i]
      <4> DEFINE q == f[k - 1]
                 x == s[k]
      <4>1. q \in Seq(Nat) /\ x \in Nat /\ f[k] = Append(q, x)
        BY <2>1, <2>4, <3>1
      <4>2. Len(q) = k - 1 - e /\ Len(q) + 1 = k - e
        BY <3>2
      <4> HIDE DEF q, x
      <4>3. /\ Len(Append(q, x)) = Len(q) + 1 /\ Append(q, x)[Len(q) + 1] = x
            /\ \A i \in 1 .. Len(q) : Append(q, x)[i] = q[i]
        BY <4>1, AppendFacts
      <4>4. Len(f[k]) = k - e /\ f[k][k - e] = x
        BY <4>1, <4>2, <4>3
      <4>5. \A i \in 1 .. k - 1 - e : f[k][i] = q[i]
        BY <4>1, <4>2, <4>3
      <4> QED BY <4>4, <4>5 DEF q, x
    <3>4. ASSUME NEW i \in 1 .. k - e PROVE f[k][i] = s[e + i]
      <4>1. CASE i = k - e
        BY <3>2, <3>3, <4>1
      <4>2. CASE i # k - e
        <5>1. i \in 1 .. k - 1 - e
          BY <3>2, <4>2
        <5> QED BY <2>2, <3>3, <5>1
      <4> QED BY <4>1, <4>2
    <3>5. \A i \in e + 1 .. k : i = k \/ i \in e + 1 .. k - 1
      BY <3>2
    <3>6. Shape(k, e)
      BY <2>2, <2>6, <3>3, <3>4, <3>5
    <3>7. e \in 0 .. k
      BY <1>1
    <3> HIDE DEF Shape
    <3>8. Holds(k)
      BY <2>5, <3>6, <3>7
    <3> HIDE DEF Holds
    <3> QED BY <1>1, <3>8
  <2>7. CASE ~(s[k] + Window > t)
    <3>1. f[k] = f[k - 1]
      BY <2>3, <2>7
    <3>2. e = k - 1
      <4>1. SUFFICES ASSUME e < k - 1 PROVE FALSE
        OBVIOUS
      <4>2. s[k - 1] + Window > t
        BY <2>2, <4>1
      <4>3. s[k - 1] <= s[k] /\ s[k - 1] \in Nat
        BY <1>1, <4>1 DEF Ordered
      <4> QED BY <1>0, <2>4, <2>7, <4>2, <4>3
    <3>3. Shape(k, k)
      BY <1>0, <1>1, <2>2, <2>4, <2>7, <3>1, <3>2
    <3>4. k \in 0 .. k /\ Shape(k, k)
      BY <3>3
    <3> HIDE DEF Shape
    <3>5. Holds(k)
      BY <2>5, <3>4
    <3> HIDE DEF Holds
    <3> QED BY <1>1, <3>5
  <2> QED BY <2>6, <2>7
<1>5. 0 .. Len(s) \subseteq G
  <2> HIDE DEF G
  <2> QED BY <1>1, <1>3, <1>4, UpTo
<1>6. Holds(Len(s))
  <2> HIDE DEF Holds
  <2> QED BY <1>1, <1>5
<1> QED BY <1>1, <1>6 DEF Suffix

(* A suffix of a suffix.                                                   *)
LEMMA SuffixOfSuffix ==
    ASSUME NEW q \in Seq(Nat), NEW r \in Seq(Nat), NEW s \in Seq(Nat),
           NEW d \in 0 .. Len(s), NEW e \in 0 .. Len(r), Suffix(r, s, d), Suffix(q, r, e)
    PROVE  /\ d + e \in 0 .. Len(s) /\ Suffix(q, s, d + e)
           /\ \A i \in 1 .. d + e : i <= d \/ (i - d \in 1 .. e /\ r[i - d] = s[i])
<1>1. Len(s) \in Nat /\ Len(r) = Len(s) - d /\ Len(q) = Len(r) - e
  BY DEF Suffix
<1>2. d + e \in 0 .. Len(s)
  BY <1>1
<1>3. ASSUME NEW i \in 1 .. Len(s) - (d + e) PROVE q[i] = s[(d + e) + i]
  <2>0. i \in 1 .. Len(r) - e /\ e + i \in 1 .. Len(s) - d
    BY <1>1, <1>3
  <2>1. q[i] = r[e + i] /\ r[e + i] = s[d + (e + i)]
    BY <2>0 DEF Suffix
  <2>2. d + (e + i) = (d + e) + i
    BY <1>1
  <2> QED BY <2>1, <2>2
<1>4. ASSUME NEW i \in 1 .. d + e, ~(i <= d) PROVE i - d \in 1 .. e /\ r[i - d] = s[i]
  <2>1. i - d \in 1 .. e /\ i - d \in 1 .. Len(s) - d /\ d + (i - d) = i
    BY <1>1, <1>4
  <2> QED BY <2>1 DEF Suffix
<1> QED BY <1>1, <1>2, <1>3, <1>4 DEF Suffix

LEMMA SuffixOrdered ==
    ASSUME NEW r \in Seq(Nat), NEW s \in Seq(Nat), NEW d \in 0 .. Len(s), Suffix(r, s, d),
           Ordered(s)
    PROVE  Ordered(r)
<1> SUFFICES ASSUME NEW i \in 1 .. Len(r), NEW j \in 1 .. Len(r), i <= j PROVE r[i] <= r[j]
  BY DEF Ordered
<1>1. Len(s) \in Nat /\ Len(r) = Len(s) - d
  BY DEF Suffix
<1>2. r[i] = s[d + i] /\ r[j] = s[d + j]
  BY <1>1 DEF Suffix
<1>3. d + i \in 1 .. Len(s) /\ d + j \in 1 .. Len(s) /\ d + i <= d + j
  BY <1>1
<1> QED BY <1>2, <1>3 DEF Ordered

-----------------------------------------------------------------------------
(* Comparisons *)

WiseLives ==
    \A p \in Pairs : wise[p] # NoEntry =>
        wise[p].at <= now /\ wise[p].expires = wise[p].at + WiseTTL

RealtimeLives ==
    \A q \in Quotes : realtime[q] # NoEntry =>
        /\ IsRealtime(realtime[q].result)
        /\ realtime[q].expires <= realtime[q].result.at + WiseTTL + RealtimeTTL
        /\ PairOf[q] \in Pairs
        /\ wise[PairOf[q]] # NoEntry
        /\ realtime[q].result.at <= wise[PairOf[q]].at

StaticIsStatic == \A q \in Quotes : static[q] # NoEntry => ~IsRealtime(static[q].result)

AskedPairs ==
    \A c \in Callers : attempt[c] # 0 \/ c \in asleep =>
        call[c] # NoCall /\ PairOf[call[c].quote] \in Pairs

FeeInv ==
    FeeTypeOK /\ WiseLives /\ RealtimeLives /\ StaticIsStatic /\ AskedPairs
              /\ RealtimeWithinBothTTLs

USE WiseAssumption, FeeAssumption, NoneAssumption

LEMMA FeeInitInv == FeeInit => FeeInv
BY DEF FeeInit, WiseInit, FeeInv, FeeTypeOK, WiseLives, RealtimeLives, StaticIsStatic, AskedPairs,
       RealtimeWithinBothTTLs

(* A result may be stored if the client's data it is made of are there and *)
(* were fresh, and no older than those stored.                             *)
Storable(q, result) ==
    IsRealtime(result) =>
        /\ PairOf[q] \in Pairs
        /\ wise'[PairOf[q]] # NoEntry
        /\ result.at <= wise'[PairOf[q]].at
        /\ now < result.at + WiseTTL
        /\ realtime[q] # NoEntry => realtime[q].result.at <= result.at

WiseGrows ==
    /\ wise' \in [Pairs -> Entry \cup {NoEntry}]
    /\ \A p \in Pairs : wise[p] # NoEntry => wise'[p] # NoEntry /\ wise[p].at <= wise'[p].at

LEMMA ResultFacts ==
    ASSUME FeeTypeOK
    PROVE  /\ \A began \in Nat : /\ StaticResult(began) \in Result
                                 /\ ~IsRealtime(StaticResult(began))
           /\ SimulatedResult \in Result /\ ~IsRealtime(SimulatedResult)
           /\ \A label \in {"realtime", "cache"}, at \in Nat, providers \in BOOLEAN :
                 /\ WiseResult(label, at, providers) \in Result
                 /\ WiseResult(label, at, providers).at = at
BY DEF FeeTypeOK, StaticResult, SimulatedResult, WiseResult, Result, Labels, IsRealtime

LEMMA StoreKeeps ==
    ASSUME FeeInv, NEW q \in Quotes, NEW result \in Result, Store(q, result),
           Storable(q, result), WiseGrows
    PROVE  /\ realtime' \in [Quotes -> Cached \cup {NoEntry}]
           /\ static' \in [Quotes -> Cached \cup {NoEntry}]
           /\ RealtimeLives' /\ StaticIsStatic'
           /\ \A r \in Quotes : Newer(r)
<1> DEFINE e == NewEntry(result)
<1>1. /\ e \in Cached /\ e # NoEntry /\ e.result = result
      /\ IsRealtime(result) => e.expires = now + RealtimeTTL
  BY DEF NewEntry, Cached, FeeInv, FeeTypeOK
<1>2. result.at \in Nat /\ now \in Nat
  BY DEF Result, FeeInv, FeeTypeOK
<1> HIDE DEF e
<1>3. CASE IsRealtime(result)
  <2>1. realtime' = [realtime EXCEPT ![q] = e] /\ static' = static
    BY <1>3 DEF Store, e
  <2>2. realtime' \in [Quotes -> Cached \cup {NoEntry}]
    BY <2>1, <1>1 DEF FeeInv, FeeTypeOK
  <2>3. ASSUME NEW r \in Quotes, realtime'[r] # NoEntry
        PROVE  /\ IsRealtime(realtime'[r].result)
               /\ realtime'[r].expires <= realtime'[r].result.at + WiseTTL + RealtimeTTL
               /\ PairOf[r] \in Pairs
               /\ wise'[PairOf[r]] # NoEntry
               /\ realtime'[r].result.at <= wise'[PairOf[r]].at
    <3>1. CASE r = q
      <4>1. realtime'[r] = e
        BY <2>1, <3>1 DEF FeeInv, FeeTypeOK
      <4>2. e.expires = now + RealtimeTTL
        BY <1>1, <1>3
      <4>3. now + RealtimeTTL <= result.at + WiseTTL + RealtimeTTL
        BY <1>2, <1>3 DEF Storable
      <4> QED BY <4>1, <4>2, <4>3, <1>1, <1>3, <3>1 DEF Storable
    <3>2. CASE r # q
      <4>1. realtime'[r] = realtime[r]
        BY <2>1, <3>2 DEF FeeInv, FeeTypeOK
      <4>2. realtime[r] \in Cached /\ wise[PairOf[r]] \in Entry /\ PairOf[r] \in Pairs
        BY <4>1, <2>3 DEF FeeInv, FeeTypeOK, RealtimeLives
      <4>5. wise'[PairOf[r]] \in Entry
        BY <4>1, <4>2, <2>3 DEF WiseGrows, FeeInv, RealtimeLives
      <4>3. wise[PairOf[r]].at <= wise'[PairOf[r]].at /\ wise'[PairOf[r]] # NoEntry
            /\ realtime[r].result.at <= wise[PairOf[r]].at
        BY <4>1, <2>3 DEF FeeInv, RealtimeLives, WiseGrows
      <4>4. realtime[r].result.at <= wise'[PairOf[r]].at
        BY <4>2, <4>3, <4>5 DEF Cached, Result, Entry
      <4> QED BY <4>1, <4>2, <4>3, <4>4, <2>3 DEF FeeInv, RealtimeLives
    <3> QED BY <3>1, <3>2
  <2>4. RealtimeLives'
    BY <2>3 DEF RealtimeLives, IsRealtime
  <2>5. StaticIsStatic'
    BY <2>1 DEF FeeInv, StaticIsStatic, IsRealtime
  <2>6. ASSUME NEW r \in Quotes PROVE Newer(r)
    BY <2>1, <1>1, <1>2, <1>3 DEF Newer, Storable, FeeInv, FeeTypeOK, Cached, Result
  <2> QED BY <2>1, <2>2, <2>4, <2>5, <2>6 DEF FeeInv, FeeTypeOK
<1>4. CASE ~IsRealtime(result)
  <2>1. static' = [static EXCEPT ![q] = e] /\ realtime' = realtime
    BY <1>4 DEF Store, e
  <2>2. static' \in [Quotes -> Cached \cup {NoEntry}]
    BY <2>1, <1>1 DEF FeeInv, FeeTypeOK
  <2>3. ASSUME NEW r \in Quotes, realtime[r] # NoEntry
        PROVE  wise'[PairOf[r]] # NoEntry /\ realtime[r].result.at <= wise'[PairOf[r]].at
    <3>1. realtime[r] \in Cached /\ wise[PairOf[r]] \in Entry /\ PairOf[r] \in Pairs
      BY <2>3 DEF FeeInv, FeeTypeOK, RealtimeLives
    <3>2. wise'[PairOf[r]] \in Entry /\ wise'[PairOf[r]] # NoEntry
      BY <3>1, <2>3 DEF WiseGrows, FeeInv, RealtimeLives
    <3> QED BY <3>1, <3>2, <2>3 DEF FeeInv, RealtimeLives, WiseGrows, Cached, Result, Entry
  <2>6. RealtimeLives'
    BY <2>1, <2>3 DEF FeeInv, RealtimeLives, IsRealtime
  <2>4. StaticIsStatic'
    BY <2>1, <1>1, <1>4 DEF FeeInv, FeeTypeOK, StaticIsStatic, IsRealtime
  <2>5. \A r \in Quotes : Newer(r)
    BY <2>1 DEF Newer, FeeInv, FeeTypeOK, Cached, Result
  <2> QED BY <2>1, <2>2, <2>4, <2>5, <2>6 DEF FeeInv, FeeTypeOK
<1> QED BY <1>3, <1>4

LEMMA GiveKeeps ==
    ASSUME FeeInv, NEW c \in Callers, NEW q, NEW result \in Result, NEW monitors,
           Give(c, q, result, monitors),
           IsRealtime(result) => now < result.at + WiseTTL + RealtimeTTL
    PROVE  /\ answer' \in Answer \cup {NoAnswer}
           /\ call' = [call EXCEPT ![c] = NoCall]
           /\ call' \in [Callers -> Call \cup {NoCall}]
           /\ RealtimeWithinBothTTLs'
<1>1. answer' = [result |-> result, given |-> now] /\ now \in Nat
  BY DEF Give, FeeInv, FeeTypeOK
<1>2. RealtimeWithinBothTTLs'
  BY <1>1 DEF RealtimeWithinBothTTLs, IsRealtime
<1> QED BY <1>1, <1>2 DEF Give, FeeInv, FeeTypeOK, Answer

(* A caller that was answered is in no request.                            *)
LEMMA AnsweredKeeps ==
    ASSUME FeeInv, NEW c \in Callers, call' = [call EXCEPT ![c] = NoCall],
           attempt' = attempt, asleep' = asleep, attempt[c] = 0, c \notin asleep
    PROVE  AskedPairs'
BY DEF FeeInv, FeeTypeOK, AskedPairs

LEMMA CompareKeeps ==
    ASSUME FeeInv, NEW c \in Callers, NEW q \in Quotes, NEW monitors \in BOOLEAN,
           Compare(c, q, monitors)
    PROVE  FeeInv' /\ \A r \in Quotes : Newer(r)
<1>1. call[c] = NoCall /\ attempt[c] = 0 /\ c \notin asleep
  BY DEF Compare, FeeInv, AskedPairs
<1>2. CASE FromCache(c, q, monitors)
  <2>1. realtime[q] \in Cached /\ realtime[q] # NoEntry /\ realtime[q].expires > now
    BY <1>2 DEF FromCache, Fresh, FeeInv, FeeTypeOK
  <2>2. now < realtime[q].result.at + WiseTTL + RealtimeTTL
    BY <2>1 DEF FeeInv, FeeTypeOK, RealtimeLives, Cached, Result
  <2>3. /\ answer' \in Answer \cup {NoAnswer} /\ RealtimeWithinBothTTLs'
        /\ call' = [call EXCEPT ![c] = NoCall] /\ call' \in [Callers -> Call \cup {NoCall}]
    BY <1>2, <2>1, <2>2, GiveKeeps DEF FromCache, Cached
  <2>4. UNCHANGED <<wise, attempt, asleep, now, realtime, static>>
    BY <1>2 DEF FromCache, wiseVars
  <2>5. AskedPairs'
    BY <2>3, <2>4, <1>1, AnsweredKeeps
  <2>6. WiseLives' /\ RealtimeLives' /\ StaticIsStatic'
    BY <2>4 DEF FeeInv, WiseLives, RealtimeLives, StaticIsStatic, IsRealtime
  <2>7. \A r \in Quotes : Newer(r)
    BY <2>4 DEF Newer, FeeInv, FeeTypeOK, Cached, Result
  <2> QED BY <2>3, <2>4, <2>5, <2>6, <2>7 DEF FeeInv, FeeTypeOK
<1>3. CASE AtOnce(c, q, monitors)
  <2> DEFINE b == IF HasClient THEN Begins(PairOf[q]) ELSE "none"
  <2> DEFINE result == CASE b = "cached" ->
                              WiseResult("cache", wise[PairOf[q]].at, wise[PairOf[q]].providers)
                         [] b = "simulated" -> SimulatedResult
                         [] OTHER -> StaticResult(now)
  <2>1. Pruned(b) /\ Store(q, result) /\ Give(c, q, result, monitors)
    BY <1>3 DEF AtOnce
  <2>2. b = "cached" => /\ PairOf[q] \in Pairs /\ WiseFresh(PairOf[q])
    BY DEF Begins
  <2> HIDE DEF b
  <2>3. UNCHANGED <<wise, attempt, asleep, now>>
    BY <2>1 DEF Pruned
  <2>4. b = "cached" => /\ result = WiseResult("cache", wise[PairOf[q]].at,
                                               wise[PairOf[q]].providers)
                        /\ wise[PairOf[q]] \in Entry
                        /\ result \in Result /\ result.at = wise[PairOf[q]].at
    <3>1. ASSUME b = "cached" PROVE wise[PairOf[q]] \in Entry
      BY <3>1, <2>2 DEF WiseFresh, FeeInv, FeeTypeOK
    <3> QED BY <3>1, ResultFacts DEF Entry, FeeInv
  <2>5. b # "cached" => result \in Result /\ ~IsRealtime(result)
    BY ResultFacts DEF FeeInv, FeeTypeOK
  <2> HIDE DEF result
  <2>6. IsRealtime(result) => now < result.at + WiseTTL
    BY <2>2, <2>4, <2>5 DEF WiseFresh, FeeInv, WiseLives, Entry
  <2>7. Storable(q, result)
    BY <2>2, <2>3, <2>4, <2>5, <2>6 DEF Storable, WiseFresh, FeeInv, RealtimeLives, Entry
  <2>8. result \in Result
    BY <2>4, <2>5
  <2>9. WiseGrows
    BY <2>3 DEF WiseGrows, FeeInv, FeeTypeOK, Entry
  <2>10. /\ realtime' \in [Quotes -> Cached \cup {NoEntry}]
         /\ static' \in [Quotes -> Cached \cup {NoEntry}]
         /\ RealtimeLives' /\ StaticIsStatic' /\ \A r \in Quotes : Newer(r)
    BY <2>1, <2>7, <2>8, <2>9, StoreKeeps
  <2>11. IsRealtime(result) => now < result.at + WiseTTL + RealtimeTTL
    BY <2>6, <2>8 DEF FeeInv, FeeTypeOK, Result
  <2>12. /\ answer' \in Answer \cup {NoAnswer} /\ RealtimeWithinBothTTLs'
         /\ call' = [call EXCEPT ![c] = NoCall] /\ call' \in [Callers -> Call \cup {NoCall}]
    BY <2>1, <2>8, <2>11, GiveKeeps
  <2>13. AskedPairs'
    BY <2>3, <2>12, <1>1, AnsweredKeeps
  <2>14. WiseLives'
    BY <2>3 DEF FeeInv, WiseLives
  <2> QED BY <2>3, <2>10, <2>12, <2>13, <2>14 DEF FeeInv, FeeTypeOK
<1>4. CASE Asks(c, q, monitors)
  <2>1. /\ UNCHANGED <<wise, asleep, now, realtime, static, answer>>
        /\ attempt' = [attempt EXCEPT ![c] = 1]
        /\ call' = [call EXCEPT ![c] = [quote |-> q, began |-> now, monitors |-> monitors]]
    BY <1>4 DEF Asks, Ask
  <2>2. PairOf[q] \in Pairs
    BY <1>4 DEF Asks, Begins
  <2>3. [quote |-> q, began |-> now, monitors |-> monitors] \in Call
    BY DEF Call, FeeInv, FeeTypeOK
  <2>4. FeeTypeOK'
    BY <2>1, <2>3 DEF FeeInv, FeeTypeOK
  <2>5. AskedPairs'
    BY <2>1, <2>2, <2>3 DEF AskedPairs, FeeInv, FeeTypeOK
  <2>6. WiseLives' /\ RealtimeLives' /\ StaticIsStatic' /\ RealtimeWithinBothTTLs'
    BY <2>1 DEF FeeInv, WiseLives, RealtimeLives, StaticIsStatic, RealtimeWithinBothTTLs, IsRealtime
  <2>7. \A r \in Quotes : Newer(r)
    BY <2>1 DEF Newer, FeeInv, FeeTypeOK, Cached, Result
  <2> QED BY <2>4, <2>5, <2>6, <2>7 DEF FeeInv
<1> QED BY <1>2, <1>3, <1>4 DEF Compare

LEMMA EndsKeeps ==
    ASSUME FeeInv, NEW c \in Callers, attempt[c] # 0 \/ c \in asleep,
           NEW outcome \in Outcomes, Ends(c, outcome)
    PROVE  FeeInv' /\ \A r \in Quotes : Newer(r)
<1> DEFINE q == call[c].quote
           p == PairOf[q]
           result == IF Caches(outcome)
                     THEN WiseResult("realtime", now, outcome = "quotes")
                     ELSE StaticResult(call[c].began)
           entry == [at |-> now, expires |-> now + WiseTTL, providers |-> outcome = "quotes"]
<1>1. call[c] \in Call /\ q \in Quotes /\ call[c].began \in Nat /\ p \in Pairs /\ now \in Nat
  BY DEF FeeInv, FeeTypeOK, AskedPairs, Call
<1>2. /\ Store(q, result) /\ Give(c, q, result, call[c].monitors)
      /\ wise' = IF Caches(outcome) THEN [wise EXCEPT ![p] = entry] ELSE wise
      /\ attempt' = [attempt EXCEPT ![c] = 0] /\ asleep' = asleep \ {c} /\ now' = now
  BY DEF Ends, Done, StoreWise, FetchedAt
<1>3. /\ result \in Result
      /\ Caches(outcome) => result.at = now
      /\ ~Caches(outcome) => ~IsRealtime(result)
  <2>1. (outcome = "quotes") \in BOOLEAN
    OBVIOUS
  <2> QED BY <1>1, <2>1, ResultFacts DEF FeeInv
<1>4. entry \in Entry /\ entry # NoEntry /\ entry.at = now /\ entry.expires = entry.at + WiseTTL
  <2>1. ASSUME NEW b \in BOOLEAN
        PROVE  [at |-> now, expires |-> now + WiseTTL, providers |-> b] \in Entry
    BY <1>1 DEF Entry
  <2>2. (outcome = "quotes") \in BOOLEAN
    OBVIOUS
  <2>3. entry \in Entry
    BY <2>1, <2>2, Zenon
  <2> QED BY <2>3
<1> HIDE DEF result, entry
<1>5. WiseGrows /\ WiseLives'
  <2>1. wise' \in [Pairs -> Entry \cup {NoEntry}]
    BY <1>1, <1>2, <1>4 DEF FeeInv, FeeTypeOK
  <2>2. ASSUME NEW r \in Pairs, wise'[r] = wise[r] \/ wise'[r] = entry
        PROVE  /\ wise[r] # NoEntry => wise'[r] # NoEntry /\ wise[r].at <= wise'[r].at
               /\ wise'[r] # NoEntry => /\ wise'[r].at <= now'
                                        /\ wise'[r].expires = wise'[r].at + WiseTTL
    BY <1>1, <1>2, <1>4, <2>2 DEF FeeInv, FeeTypeOK, WiseLives, Entry
  <2>3. \A r \in Pairs : wise'[r] = wise[r] \/ wise'[r] = entry
    BY <1>1, <1>2 DEF FeeInv, FeeTypeOK
  <2> QED BY <2>1, <2>2, <2>3 DEF WiseGrows, WiseLives
<1>6. Storable(q, result)
  <2>1. CASE Caches(outcome)
    <3>1. wise'[p] = entry
      BY <1>1, <1>2, <2>1 DEF FeeInv, FeeTypeOK
    <3>2. realtime[q] # NoEntry => realtime[q].result.at <= now
      BY <1>1 DEF FeeInv, FeeTypeOK, RealtimeLives, WiseLives, Cached, Result, Entry
    <3> QED BY <1>1, <1>3, <1>4, <2>1, <3>1, <3>2 DEF Storable
  <2> QED BY <1>3, <2>1 DEF Storable
<1>7. /\ realtime' \in [Quotes -> Cached \cup {NoEntry}]
      /\ static' \in [Quotes -> Cached \cup {NoEntry}]
      /\ RealtimeLives' /\ StaticIsStatic' /\ \A r \in Quotes : Newer(r)
  BY <1>1, <1>2, <1>3, <1>5, <1>6, StoreKeeps
<1>8. IsRealtime(result) => now < result.at + WiseTTL + RealtimeTTL
  BY <1>1, <1>3
<1>9. /\ answer' \in Answer \cup {NoAnswer} /\ RealtimeWithinBothTTLs'
      /\ call' = [call EXCEPT ![c] = NoCall] /\ call' \in [Callers -> Call \cup {NoCall}]
  BY <1>2, <1>3, <1>8, GiveKeeps
<1>10. AskedPairs'
  BY <1>2, <1>9 DEF AskedPairs, FeeInv, FeeTypeOK
<1>11. attempt' \in [Callers -> Nat] /\ now' \in Nat
  BY <1>1, <1>2 DEF FeeInv, FeeTypeOK
<1> QED BY <1>5, <1>7, <1>9, <1>10, <1>11 DEF FeeInv, FeeTypeOK, WiseGrows

LEMMA StaticKeeps ==
    ASSUME FeeInv, NEW c \in Callers, NEW q \in Quotes, CompareStatic(c, q)
    PROVE  FeeInv' /\ \A r \in Quotes : Newer(r)
<1>1. /\ call[c] = NoCall /\ attempt[c] = 0 /\ c \notin asleep
      /\ UNCHANGED <<wise, attempt, asleep, now>>
  BY DEF CompareStatic, FeeInv, AskedPairs, wiseVars
<1>2. StaticResult(now) \in Result /\ ~IsRealtime(StaticResult(now))
  BY ResultFacts DEF FeeInv, FeeTypeOK
<1>3. StaticAnswer(q) \in Result /\ ~IsRealtime(StaticAnswer(q))
  BY <1>2 DEF StaticAnswer, Fresh, FeeInv, FeeTypeOK, StaticIsStatic, Cached
<1>4. Give(c, q, StaticAnswer(q), FALSE)
  BY DEF CompareStatic
<1>5. /\ answer' \in Answer \cup {NoAnswer} /\ RealtimeWithinBothTTLs'
      /\ call' = [call EXCEPT ![c] = NoCall] /\ call' \in [Callers -> Call \cup {NoCall}]
  BY <1>3, <1>4, GiveKeeps
<1>6. WiseGrows /\ WiseLives'
  BY <1>1 DEF WiseGrows, WiseLives, FeeInv, FeeTypeOK, Entry
<1>7. /\ realtime' \in [Quotes -> Cached \cup {NoEntry}]
      /\ static' \in [Quotes -> Cached \cup {NoEntry}]
      /\ RealtimeLives' /\ StaticIsStatic' /\ \A r \in Quotes : Newer(r)
  <2>1. CASE Fresh(static, q)
    <3>1. UNCHANGED <<realtime, static>>
      BY <2>1 DEF CompareStatic, StaticComparison
    <3> QED BY <1>1, <3>1 DEF FeeInv, FeeTypeOK, RealtimeLives, StaticIsStatic, IsRealtime,
                              Newer, Cached, Result
  <2>2. CASE ~Fresh(static, q)
    <3>1. Store(q, StaticResult(now))
      BY <2>2 DEF CompareStatic, StaticComparison
    <3> QED BY <1>2, <1>6, <3>1, StoreKeeps DEF Storable
  <2> QED BY <2>1, <2>2
<1>8. AskedPairs'
  BY <1>1, <1>5, AnsweredKeeps
<1> QED BY <1>1, <1>5, <1>6, <1>7, <1>8 DEF FeeInv, FeeTypeOK

LEMMA FeeStepKeeps ==
    ASSUME FeeInv, [FeeNext]_vars
    PROVE  FeeInv' /\ \A r \in Quotes : Newer(r)
<1>1. ASSUME NEW c \in Callers, NEW outcome \in Outcomes, HttpAnswer(c, outcome)
      PROVE  FeeInv' /\ \A r \in Quotes : Newer(r)
  <2>1. attempt[c] # 0
    BY <1>1 DEF HttpAnswer, InFlight
  <2>2. CASE Sleeps(c, outcome)
    <3>1. /\ UNCHANGED <<wise, attempt, now, realtime, static, call, answer>>
          /\ asleep' = asleep \cup {c}
      BY <1>1, <2>2 DEF HttpAnswer, FallsAsleep, feeVars
    <3> QED BY <2>1, <3>1 DEF FeeInv, FeeTypeOK, WiseLives, RealtimeLives, StaticIsStatic,
                              AskedPairs, RealtimeWithinBothTTLs, IsRealtime, Newer, Cached, Result
  <2> QED BY <1>1, <2>1, <2>2, EndsKeeps DEF HttpAnswer
<1>2. ASSUME NEW c \in Callers, Retry(c)
      PROVE  FeeInv' /\ \A r \in Quotes : Newer(r)
  <2>1. /\ UNCHANGED <<wise, now, realtime, static, call, answer>>
        /\ c \in asleep /\ asleep' = asleep \ {c}
        /\ attempt' = [attempt EXCEPT ![c] = @ + 1]
    BY <1>2 DEF Retry, NextAttempt, feeVars
  <2> QED BY <2>1 DEF FeeInv, FeeTypeOK, WiseLives, RealtimeLives, StaticIsStatic, AskedPairs,
                      RealtimeWithinBothTTLs, IsRealtime, Newer, Cached, Result
<1>3. ASSUME NEW c \in Callers, GivesUp(c)
      PROVE  FeeInv' /\ \A r \in Quotes : Newer(r)
  BY <1>3, EndsKeeps DEF GivesUp, LastSleep, Outcomes
<1>4. CASE Tick
  <2>1. UNCHANGED <<wise, attempt, asleep, realtime, static, call, answer>> /\ now' = now + 1
    BY <1>4 DEF Tick, feeVars
  <2> QED BY <2>1 DEF FeeInv, FeeTypeOK, WiseLives, RealtimeLives, StaticIsStatic, AskedPairs,
                      RealtimeWithinBothTTLs, IsRealtime, Newer, Cached, Result, Entry
<1>5. CASE UNCHANGED vars
  BY <1>5 DEF vars, wiseVars, feeVars, FeeInv, FeeTypeOK, WiseLives, RealtimeLives,
              StaticIsStatic, AskedPairs, RealtimeWithinBothTTLs, IsRealtime, Newer, Cached, Result
<1> QED BY <1>1, <1>2, <1>3, <1>4, <1>5, CompareKeeps, StaticKeeps DEF FeeNext

(* However old both caches let them be: real-time data that are shown were *)
(* fetched less than both lifetimes ago, whatever calls, failures and      *)
(* retries came in between.                                                *)
THEOREM RealtimeAgeCorrect == FeeSpec => []RealtimeWithinBothTTLs
<1>1. FeeInv /\ [FeeNext]_vars => FeeInv'
  BY FeeStepKeeps
<1>2. FeeInv => RealtimeWithinBothTTLs
  BY DEF FeeInv
<1> QED BY <1>1, <1>2, FeeInitInv, PTL DEF FeeSpec

(* No comparison, late or early, puts older real-time data in the place of *)
(* newer ones.                                                             *)
THEOREM RealtimeOrderCorrect == FeeSpec => RealtimeNeverGoesBack
<1>1. FeeInv /\ [FeeNext]_vars => FeeInv'
  BY FeeStepKeeps
<1>2. FeeInv /\ [FeeNext]_vars => [\A q \in Quotes : Newer(q)]_vars
  BY FeeStepKeeps
<1> QED BY <1>1, <1>2, FeeInitInv, PTL DEF FeeSpec, RealtimeNeverGoesBack

-----------------------------------------------------------------------------
(* Previews *)

(* An id names one preview, and a preview that stands and should still be  *)
(* there is.                                                               *)
Due(s) == now < s.at + PreviewTTL /\ made - s.id < MaxCached
PreviewInv ==
    /\ now \in Nat /\ made \in Nat
    /\ IsFiniteSet(previews) /\ Cardinality(previews) <= MaxCached
    /\ \A p \in previews : p.id \in 1 .. made /\ p.at \in Nat
    /\ \A p, r \in previews : p.id = r.id => p = r
    /\ \A s \in standing : s.id \in 1 .. made /\ s.at \in Nat
    /\ \A s \in standing : Due(s) => \E p \in previews : p.id = s.id /\ p.at = s.at

LEMMA PreviewTypes == MaxCached \in Nat /\ MaxCached > 0 /\ PreviewTTL \in Nat /\ PreviewTTL > 0
BY PreviewAssumption DEF PreviewAssumption

LEMMA PreviewInitInv == MCInit => PreviewInv
BY PreviewTypes, FS_EmptySet DEF MCInit, PreviewInit, FeeInit, WiseInit, PreviewInv

(* The ids of a set that names each of its members once.                   *)
Named(ps, m) ==
    /\ \A p \in ps : p.id \in 1 .. m
    /\ \A p, r \in ps : p.id = r.id => p = r

LEMMA FewAbove ==
    ASSUME NEW ps, NEW m \in Nat, Named(ps, m), NEW k \in 0 .. m
    PROVE  /\ IsFiniteSet({r \in ps : r.id > k})
           /\ Cardinality({r \in ps : r.id > k}) <= m - k
<1> DEFINE above == {r \in ps : r.id > k}
           f == [r \in above |-> r.id]
<1>1. f \in Injection(above, k + 1 .. m)
  BY DEF Named, Injection, IsInjective
<1>2. IsFiniteSet(k + 1 .. m) /\ Cardinality(k + 1 .. m) = m - k
  <2>1. k + 1 \in Int /\ m \in Int
    OBVIOUS
  <2>2. /\ IsFiniteSet(k + 1 .. m)
        /\ Cardinality(k + 1 .. m) = IF k + 1 > m THEN 0 ELSE m - (k + 1) + 1
    BY <2>1, FS_Interval
  <2>3. (IF k + 1 > m THEN 0 ELSE m - (k + 1) + 1) = m - k
    OBVIOUS
  <2> QED BY <2>2, <2>3
<1> HIDE DEF f, above
<1>3. IsFiniteSet(above) /\ Cardinality(above) <= m - k
  BY <1>1, <1>2, FS_Injection
<1> QED BY <1>3 DEF above

(* NewestOf keeps no more than it says.                                    *)
LEMMA NewestAreFew ==
    ASSUME NEW ps, IsFiniteSet(ps), NEW m \in Nat, Named(ps, m), NEW n \in Nat
    PROVE  /\ NewestOf(ps, n) \subseteq ps
           /\ IsFiniteSet(NewestOf(ps, n)) /\ Cardinality(NewestOf(ps, n)) <= n
<1> DEFINE N == NewestOf(ps, n)
           ids == {p.id : p \in N}
<1>1. N \subseteq ps /\ \A p \in N : Cardinality({r \in ps : r.id > p.id}) < n
  BY DEF NewestOf
<1> HIDE DEF N
<1>2. IsFiniteSet(N) /\ Cardinality(N) \in Nat
  BY <1>1, FS_Subset, FS_CardinalityType
<1>3. CASE N = {}
  BY <1>1, <1>2, <1>3, FS_EmptySet DEF N
<1>4. CASE N # {}
  <2>1. ids \in SUBSET Nat /\ ids # {}
    BY <1>1, <1>4 DEF Named
  <2> HIDE DEF ids
  <2>2. PICK k \in ids : \A i \in ids : ~(<<i, k>> \in OpToRel(<, Nat))
    BY <2>1, WFMin, NatLessThanWellFounded
  <2>3. \A i \in ids : ~(i < k)
    BY <2>1, <2>2 DEF OpToRel
  <2>4. PICK p \in N : p.id = k
    BY DEF ids
  <2> DEFINE above == {r \in ps : r.id > p.id}
  <2>5. N \ {p} \subseteq above
    <3>1. ASSUME NEW r \in N \ {p} PROVE r.id > p.id
      <4>1. r.id \in Nat /\ p.id \in Nat /\ r.id # p.id /\ r.id \in ids
        BY <1>1 DEF Named, ids
      <4> QED BY <2>3, <2>4, <4>1
    <3> QED BY <1>1, <3>1
  <2>6. IsFiniteSet(above) /\ Cardinality(above) \in Nat /\ Cardinality(above) < n
    <3>1. IsFiniteSet(above)
      BY FS_Subset
    <3> QED BY <1>1, <3>1, FS_CardinalityType
  <2> HIDE DEF above
  <2>7. Cardinality(N \ {p}) <= Cardinality(above) /\ Cardinality(N \ {p}) = Cardinality(N) - 1
    BY <1>2, <2>5, <2>6, FS_Subset, FS_RemoveElement
  <2> QED BY <1>1, <1>2, <2>6, <2>7 DEF N
<1> QED BY <1>3, <1>4

(* A step that makes no preview, and drops none that stands.               *)
LEMMA OtherStepKeeps ==
    ASSUME PreviewInv, UNCHANGED <<previews, made>>, standing' \subseteq standing,
           now' \in Nat, now <= now'
    PROVE  PreviewInv'
<1>1. \A s \in standing' : Due(s)' => Due(s)
  BY PreviewTypes DEF PreviewInv, Due
<1> QED BY <1>1 DEF PreviewInv

(* A step that drops a preview which is then no longer to stand.           *)
LEMMA DropKeeps ==
    ASSUME PreviewInv, NEW p \in previews, previews' = previews \ {p},
           UNCHANGED <<now, made>>,
           standing' = {s \in standing : \/ \E r \in previews' : r.id = s.id
                                         \/ ~\E r \in previews : r.id = s.id}
    PROVE  PreviewInv'
<1>1. IsFiniteSet(previews') /\ Cardinality(previews') <= MaxCached
  BY PreviewTypes, FS_RemoveElement, FS_CardinalityType, FS_Subset DEF PreviewInv
<1>2. ASSUME NEW s \in standing', Due(s)'
      PROVE  \E r \in previews' : r.id = s.id /\ r.at = s.at
  <2>1. PICK r \in previews : r.id = s.id /\ r.at = s.at
    BY <1>2 DEF PreviewInv, Due
  <2>2. PICK t \in previews' : t.id = s.id
    BY <2>1
  <2> QED BY <2>1, <2>2 DEF PreviewInv
<1> QED BY <1>1, <1>2 DEF PreviewInv

LEMMA MakeKeeps ==
    ASSUME PreviewInv, NEW q \in Quotes, MakePreview(q),
           standing' = standing \cup {[id |-> made + 1, at |-> now]}
    PROVE  PreviewInv'
<1>1. made' = made + 1 /\ now' = now
  BY DEF MakePreview, wiseVars
<1>2. PICK p : p.id = made + 1 /\ p.at = now /\ previews' = Evicted(previews \cup {p})
  BY DEF MakePreview
<1> DEFINE ps == {r \in previews \cup {p} : ~Expired(r)}
<1>3. IsFiniteSet(ps) /\ Named(ps, made + 1) /\ \A r \in ps : r.at \in Nat
  <2>1. IsFiniteSet(ps)
    BY FS_AddElement, FS_Subset DEF PreviewInv
  <2>2. Named(ps, made + 1) /\ \A r \in ps : r.at \in Nat
    BY <1>2 DEF PreviewInv, Named
  <2> QED BY <2>1, <2>2
<1>4. previews' = NewestOf(ps, MaxCached)
  BY <1>2 DEF Evicted
<1>5. p \in ps
  BY <1>2, PreviewTypes DEF PreviewInv, Expired
<1>6. ASSUME NEW r \in previews, ~Expired(r) PROVE r \in ps
  BY <1>6
<1> HIDE DEF ps
<1>7. made + 1 \in Nat
  BY DEF PreviewInv
<1>8. /\ previews' \subseteq ps
      /\ IsFiniteSet(previews') /\ Cardinality(previews') <= MaxCached
  BY <1>3, <1>4, <1>7, PreviewTypes, NewestAreFew
<1>9. ASSUME NEW r \in ps, (made + 1) - r.id < MaxCached PROVE r \in previews'
  <2>1. r.id \in 0 .. made + 1
    BY <1>3, <1>7 DEF Named
  <2>2. /\ IsFiniteSet({t \in ps : t.id > r.id})
        /\ Cardinality({t \in ps : t.id > r.id}) <= (made + 1) - r.id
    BY <1>3, <1>7, <2>1, FewAbove
  <2>3. Cardinality({t \in ps : t.id > r.id}) < MaxCached
    BY <1>7, <1>9, <2>1, <2>2, PreviewTypes, FS_CardinalityType
  <2> QED BY <1>4, <2>3 DEF NewestOf
<1>10. ASSUME NEW s \in standing', Due(s)'
       PROVE  \E r \in previews' : r.id = s.id /\ r.at = s.at
  <2>1. CASE s = [id |-> made + 1, at |-> now]
    <3>1. (made + 1) - p.id < MaxCached
      BY <1>2, <1>7, PreviewTypes
    <3>2. p \in previews'
      BY <1>5, <1>9, <3>1
    <3> QED BY <1>2, <2>1, <3>2
  <2>2. CASE s \in standing
    <3>1. s.id \in Nat /\ s.at \in Nat /\ made \in Nat /\ now \in Nat
      BY <2>2 DEF PreviewInv
    <3>2. now < s.at + PreviewTTL /\ (made + 1) - s.id < MaxCached
      BY <1>1, <1>10 DEF Due
    <3>3. Due(s)
      BY <3>1, <3>2, PreviewTypes DEF Due
    <3>4. PICK r \in previews : r.id = s.id /\ r.at = s.at
      BY <2>2, <3>3 DEF PreviewInv
    <3>5. ~Expired(r)
      BY <3>1, <3>2, <3>4, PreviewTypes DEF Expired
    <3> QED BY <1>6, <1>9, <3>2, <3>4, <3>5
  <2> QED BY <2>1, <2>2
<1>11. /\ \A r \in previews' : r.id \in 1 .. made' /\ r.at \in Nat
       /\ \A r, t \in previews' : r.id = t.id => r = t
  BY <1>1, <1>3, <1>8 DEF Named
<1>12. \A s \in standing' : s.id \in 1 .. made' /\ s.at \in Nat
  BY <1>1 DEF PreviewInv
<1> QED BY <1>1, <1>7, <1>8, <1>10, <1>11, <1>12 DEF PreviewInv

LEMMA TimePasses ==
    ASSUME now \in Nat, [FeeNext]_vars
    PROVE  now' \in Nat /\ now <= now'
<1>1. CASE Tick
  BY <1>1 DEF Tick
<1>2. ASSUME UNCHANGED now PROVE now' \in Nat /\ now <= now'
  BY <1>2
<1>3. ASSUME NEW c \in Callers, NEW q \in Quotes, NEW monitors \in BOOLEAN,
             Compare(c, q, monitors)
      PROVE  UNCHANGED now
  BY <1>3 DEF Compare, FromCache, AtOnce, Asks, Ask, Pruned, wiseVars
<1>4. ASSUME NEW c \in Callers, NEW outcome \in Outcomes, HttpAnswer(c, outcome)
      PROVE  UNCHANGED now
  BY <1>4 DEF HttpAnswer, FallsAsleep, Ends, Done
<1>5. ASSUME NEW c \in Callers, Retry(c) \/ GivesUp(c) PROVE UNCHANGED now
  BY <1>5 DEF Retry, NextAttempt, GivesUp, Ends, Done
<1>6. ASSUME NEW c \in Callers, NEW q \in Quotes, CompareStatic(c, q) PROVE UNCHANGED now
  BY <1>6 DEF CompareStatic, wiseVars
<1>7. CASE UNCHANGED vars
  BY <1>2, <1>7 DEF vars, wiseVars
<1> QED BY <1>1, <1>2, <1>3, <1>4, <1>5, <1>6, <1>7 DEF FeeNext

LEMMA PreviewsKeep == PreviewInv /\ [MCNext]_mcVars => PreviewInv'
<1> SUFFICES ASSUME PreviewInv, [MCNext]_mcVars PROVE PreviewInv'
  OBVIOUS
<1> DEFINE Kept == {s \in standing : \/ \E p \in previews' : p.id = s.id
                                     \/ ~\E p \in previews : p.id = s.id}
<1>1. ASSUME [FeeNext]_vars, UNCHANGED previewVars, standing' \subseteq standing
      PROVE  PreviewInv'
  <2>1. now' \in Nat /\ now <= now'
    BY <1>1, TimePasses DEF PreviewInv
  <2> QED BY <1>1, <2>1, OtherStepKeeps DEF previewVars
<1>2. ASSUME PreviewNext,
             standing' = IF made' > made
                         THEN standing \cup {[id |-> made + 1, at |-> now]} ELSE Kept
      PROVE  PreviewInv'
  <2>1. CASE FeeNext /\ UNCHANGED previewVars
    <3>1. ~(made' > made)
      BY <2>1 DEF previewVars, PreviewInv
    <3> QED BY <1>1, <1>2, <2>1, <3>1
  <2>2. ASSUME NEW q \in Quotes, MakePreview(q) PROVE PreviewInv'
    <3>1. made' > made
      BY <2>2 DEF MakePreview, PreviewInv
    <3> QED BY <1>2, <2>2, <3>1, MakeKeeps
  <2>3. ASSUME NEW p \in previews, LookUp(p) \/ Invalidate(p) PROVE PreviewInv'
    <3>1. previews' = previews \ {p} /\ UNCHANGED <<now, made>> /\ ~(made' > made)
      BY <2>3 DEF LookUp, Invalidate, vars, wiseVars, PreviewInv
    <3> QED BY <1>2, <3>1, DropKeeps
  <2> QED BY <1>2, <2>1, <2>2, <2>3 DEF PreviewNext
<1>3. CASE UNCHANGED mcVars
  BY <1>1, <1>3 DEF mcVars, allVars
<1> QED BY <1>1, <1>2, <1>3 DEF MCNext, allVars

(* A preview is found until it expires, is invalidated or is crowded out   *)
(* by as many newer ones as the cache holds, and the cache never holds     *)
(* more: the expired are evicted before anything else.                     *)
THEOREM PreviewsCorrect == MCSpec => []PreviewsLastTheirTime
<1>1. PreviewInv => PreviewsLastTheirTime
  BY DEF PreviewInv, PreviewsLastTheirTime, Due
<1> QED BY <1>1, PreviewInitInv, PreviewsKeep, PTL DEF MCSpec

-----------------------------------------------------------------------------
(* The limit of requests *)

(* What was asked and is not among the timestamps is out of the window.    *)
Covers(r, a, t) ==
    /\ r \in Seq(Nat)
    /\ \E d \in 0 .. Len(a) : Suffix(r, a, d) /\ \A i \in 1 .. d : a[i] + Window <= t

(* The last requests, in the order of time and no more than the limit.     *)
Remembered(a, t) ==
    /\ a \in Seq(Nat) /\ Ordered(a) /\ Len(a) <= Limit
    /\ \A i \in 1 .. Len(a) : a[i] <= t

WindowInv ==
    /\ FeeInv
    /\ \A c \in Callers : c \in asleep => attempt[c] # 0
    /\ Remembered(asked, now) /\ Covers(calls, asked, now)

LimitInv == IF focus = "fees" THEN WindowInv ELSE asked = <<>>

LEMMA LimitTypes == Limit \in Nat /\ Limit > 0 /\ Window \in Nat
BY DEF WiseAssumption

LEMMA LastOfSuffix ==
    ASSUME NEW s \in Seq(Nat), Len(s) <= Limit + 1
    PROVE  /\ LastOf(s, Limit) \in Seq(Nat) /\ Len(LastOf(s, Limit)) <= Limit
           /\ Suffix(LastOf(s, Limit), s, IF Len(s) > Limit THEN 1 ELSE 0)
<1>1. Len(s) \in Nat
  OBVIOUS
<1>2. CASE Len(s) > Limit
  <2>1. Len(s) - Limit + 1 = 2 /\ Len(s) = Limit + 1
    BY <1>1, <1>2, LimitTypes
  <2>2. LastOf(s, Limit) = SubSeq(s, 2, Len(s))
    BY <1>2, <2>1 DEF LastOf
  <2>3. /\ SubSeq(s, 2, Len(s)) \in Seq(Nat) /\ Len(SubSeq(s, 2, Len(s))) = Len(s) - 1
        /\ \A i \in 1 .. Len(s) - 1 : SubSeq(s, 2, Len(s))[i] = s[1 + i]
    BY <1>1, <2>1, LimitTypes
  <2> QED BY <1>2, <2>1, <2>2, <2>3, LimitTypes DEF Suffix
<1>3. CASE ~(Len(s) > Limit)
  BY <1>1, <1>3, LimitTypes DEF LastOf, Suffix
<1> QED BY <1>2, <1>3

(* The places dropped from the front.                                      *)
LEMMA DroppedPlaces ==
    ASSUME NEW m \in Nat, NEW e \in Nat, NEW n \in Nat, m <= e, e <= n, NEW j \in 1 .. e - m
    PROVE  j \in 1 .. (n + 1) - m /\ m + j \in 1 .. e /\ m + j \in 1 .. n
<1>1. j \in Int /\ 1 <= j /\ j <= e - m
  OBVIOUS
<1>2. 1 <= m + j /\ m + j <= e /\ m + j <= n /\ j <= (n + 1) - m
  BY <1>1
<1> QED BY <1>1, <1>2

(* A request when there is room: the oldest it makes forgotten is out of   *)
(* the window.                                                             *)
LEMMA AskCovers ==
    ASSUME NEW t \in Nat, NEW a, Remembered(a, t), NEW r, Covers(r, a, t), Len(r) < Limit
    PROVE  /\ Remembered(LastOf(Append(a, t), Limit), t)
           /\ Covers(Append(r, t), LastOf(Append(a, t), Limit), t)
           /\ Len(a) < Limit \/ a[1] + Window <= t
<1>1. a \in Seq(Nat) /\ r \in Seq(Nat) /\ Ordered(a) /\ Len(a) <= Limit
  BY DEF Remembered, Covers
<1>2. PICK d \in 0 .. Len(a) : Suffix(r, a, d) /\ \A i \in 1 .. d : a[i] + Window <= t
  BY DEF Covers
<1> DEFINE s == Append(a, t)
           b == LastOf(s, Limit)
           k == IF Len(s) > Limit THEN 1 ELSE 0
<1>3. /\ s \in Seq(Nat) /\ Len(s) = Len(a) + 1 /\ s[Len(a) + 1] = t
      /\ \A i \in 1 .. Len(a) : s[i] = a[i]
  BY <1>1
<1>4. Len(a) \in Nat /\ Len(r) = Len(a) - d
  BY <1>1, <1>2 DEF Suffix
<1> HIDE DEF s
<1>5. b \in Seq(Nat) /\ Len(b) <= Limit /\ Suffix(b, s, k)
  <2>1. Len(s) <= Limit + 1
    BY <1>1, <1>3, <1>4, LimitTypes
  <2> QED BY <1>3, <2>1, LastOfSuffix
<1>6. k \in Nat /\ k <= d /\ (k = 1 <=> Len(a) >= Limit)
  BY <1>1, <1>3, <1>4, LimitTypes
<1>7. Ordered(s) /\ \A i \in 1 .. Len(s) : s[i] <= t
  <2>1. \A i \in 1 .. Len(s) : i \in 1 .. Len(a) \/ i = Len(a) + 1
    BY <1>3, <1>4
  <2>2. \A i \in 1 .. Len(a) : a[i] \in Nat /\ a[i] <= t
    BY <1>1 DEF Remembered
  <2>3. ASSUME NEW i \in 1 .. Len(s) PROVE s[i] <= t
    <3>1. CASE i \in 1 .. Len(a)
      BY <1>3, <2>2, <3>1
    <3>2. CASE i = Len(a) + 1
      BY <1>3, <3>2
    <3> QED BY <2>1, <3>1, <3>2
  <2>4. ASSUME NEW i \in 1 .. Len(s), NEW j \in 1 .. Len(s), i <= j PROVE s[i] <= s[j]
    <3>1. CASE j = Len(a) + 1
      BY <1>3, <2>3, <3>1
    <3>2. CASE j # Len(a) + 1
      <4>1. i \in 1 .. Len(a) /\ j \in 1 .. Len(a)
        BY <1>4, <2>1, <2>4, <3>2
      <4> QED BY <1>1, <1>3, <2>4, <4>1 DEF Ordered
    <3> QED BY <3>1, <3>2
  <2> QED BY <2>3, <2>4 DEF Ordered
<1> HIDE DEF b, k
<1>8. Remembered(b, t)
  <2>1. Len(b) = Len(s) - k /\ k \in 0 .. Len(s)
    BY <1>3, <1>4, <1>5, <1>6 DEF Suffix
  <2>2. Ordered(b)
    BY <1>3, <1>5, <1>7, <2>1, SuffixOrdered
  <2>3. ASSUME NEW i \in 1 .. Len(b) PROVE b[i] <= t
    <3>1. i \in 1 .. Len(s) - k /\ k + i \in 1 .. Len(s)
      BY <1>3, <1>4, <1>6, <2>1
    <3>2. b[i] = s[k + i]
      BY <1>5, <3>1 DEF Suffix
    <3> QED BY <1>7, <3>1, <3>2
  <2> QED BY <1>5, <2>2, <2>3 DEF Remembered
<1> DEFINE q == Append(r, t)
<1>9. /\ q \in Seq(Nat) /\ Len(q) = Len(r) + 1 /\ q[Len(r) + 1] = t
      /\ \A i \in 1 .. Len(r) : q[i] = r[i]
  BY <1>1
<1> HIDE DEF q
<1>10. Len(b) = Len(s) - k /\ d - k \in 0 .. Len(b) /\ Len(q) = Len(b) - (d - k)
  <2>1. Len(b) = Len(s) - k
    BY <1>5 DEF Suffix
  <2>2. Len(b) = Len(a) + 1 - k /\ Len(q) = Len(a) - d + 1
    BY <1>3, <1>4, <1>6, <1>9, <2>1
  <2> QED BY <1>4, <1>6, <2>1, <2>2
<1>11. ASSUME NEW i \in 1 .. Len(b) - (d - k) PROVE q[i] = b[(d - k) + i]
  <2>1. /\ (d - k) + i \in 1 .. Len(s) - k /\ k + ((d - k) + i) = d + i
        /\ i \in 1 .. Len(a) + 1 - d
    BY <1>3, <1>4, <1>6, <1>10
  <2>2. b[(d - k) + i] = s[d + i]
    BY <1>5, <2>1 DEF Suffix
  <2>3. CASE i = Len(a) + 1 - d
    <3>1. d + i = Len(a) + 1 /\ i = Len(r) + 1
      BY <1>4, <2>3
    <3> QED BY <1>3, <1>9, <2>2, <3>1
  <2>4. CASE i # Len(a) + 1 - d
    <3>1. i \in 1 .. Len(a) - d /\ i \in 1 .. Len(r) /\ d + i \in 1 .. Len(a)
      <4>1. \A n \in Nat : \A e \in 0 .. n : \A j \in 1 .. n + 1 - e :
               j # n + 1 - e => j \in 1 .. n - e /\ e + j \in 1 .. n
        OBVIOUS
      <4>2. i \in 1 .. Len(a) - d /\ d + i \in 1 .. Len(a)
        BY <1>4, <2>1, <2>4, <4>1
      <4> QED BY <1>4, <4>2
    <3>2. r[i] = a[d + i]
      BY <1>2, <3>1 DEF Suffix
    <3> QED BY <1>3, <1>9, <2>2, <3>1, <3>2
  <2> QED BY <2>3, <2>4
<1>12. ASSUME NEW i \in 1 .. d - k PROVE b[i] + Window <= t
  <2>1. i \in 1 .. Len(s) - k /\ k + i \in 1 .. d /\ k + i \in 1 .. Len(a)
    <3>1. Len(s) = Len(a) + 1 /\ d \in Nat /\ d <= Len(a)
      BY <1>3, <1>4
    <3> HIDE DEF s
    <3> QED BY <1>4, <1>6, <3>1, DroppedPlaces
  <2>2. b[i] = a[k + i]
    BY <1>3, <1>5, <2>1 DEF Suffix
  <2> QED BY <1>2, <2>1, <2>2
<1>13. Covers(q, b, t)
  BY <1>9, <1>10, <1>11, <1>12 DEF Covers, Suffix
<1>14. Len(a) < Limit \/ a[1] + Window <= t
  <2>1. Len(a) >= Limit => 1 \in 1 .. d
    BY <1>6
  <2> QED BY <1>1, <1>2, <1>4, <2>1, LimitTypes
<1> QED BY <1>8, <1>13, <1>14 DEF b, q, s

LEMMA RecentCovers ==
    ASSUME WindowInv
    PROVE  Covers(Recent, asked, now)
<1>1. calls \in Seq(Nat) /\ now \in Nat /\ asked \in Seq(Nat) /\ Ordered(asked)
  BY DEF WindowInv, Covers, Remembered, FeeInv, FeeTypeOK
<1>2. PICK d \in 0 .. Len(asked) :
           Suffix(calls, asked, d) /\ \A i \in 1 .. d : asked[i] + Window <= now
  BY DEF WindowInv, Covers
<1>3. Ordered(calls)
  BY <1>1, <1>2, SuffixOrdered
<1> DEFINE recent == CHOOSE f : f = [n \in 0 .. Len(calls) |-> Step(calls, now, f, n)]
<1>4. Recent = recent[Len(calls)]
  BY DEF Recent, Step
<1>5. recent = [n \in 0 .. Len(calls) |-> Step(calls, now, recent, n)]
  <2>1. PICK f \in [0 .. Len(calls) -> Seq(Nat)] :
                 \A n \in 0 .. Len(calls) : f[n] = Step(calls, now, f, n)
    BY <1>1, RecentExists
  <2>2. f = [n \in 0 .. Len(calls) |-> Step(calls, now, f, n)]
    BY <2>1
  <2> QED BY <2>2
<1> HIDE DEF recent
<1>6. /\ Recent \in Seq(Nat)
      /\ \E e \in 0 .. Len(calls) :
            Suffix(Recent, calls, e) /\ \A i \in 1 .. e : calls[i] + Window <= now
  BY <1>1, <1>3, <1>4, <1>5, RecentIsSuffix
<1>7. PICK e \in 0 .. Len(calls) :
           Suffix(Recent, calls, e) /\ \A i \in 1 .. e : calls[i] + Window <= now
  BY <1>6
<1>8. /\ d + e \in 0 .. Len(asked) /\ Suffix(Recent, asked, d + e)
      /\ \A i \in 1 .. d + e : i <= d \/ (i - d \in 1 .. e /\ calls[i - d] = asked[i])
  BY <1>1, <1>2, <1>6, <1>7, SuffixOfSuffix
<1>9. ASSUME NEW i \in 1 .. d + e PROVE asked[i] + Window <= now
  <2>1. i <= d => i \in 1 .. d
    OBVIOUS
  <2> QED BY <1>2, <1>7, <1>8, <2>1
<1> QED BY <1>6, <1>8, <1>9 DEF Covers

(* A step that asks nothing and forgets nothing of the window.             *)
LEMMA QuietKeeps ==
    ASSUME WindowInv, FeeInv', now' \in Nat, now <= now', asked' = asked,
           Covers(calls', asked, now),
           \A c \in Callers : c \in asleep' => attempt'[c] # 0
    PROVE  WindowInv'
<1>1. Remembered(asked, now) /\ now \in Nat
  BY DEF WindowInv, FeeInv, FeeTypeOK
<1>2. asked \in Seq(Nat) /\ \A i \in 1 .. Len(asked) : asked[i] \in Nat
  BY <1>1 DEF Remembered
<1>3. Remembered(asked, now')
  BY <1>1, <1>2 DEF Remembered
<1>4. Covers(calls', asked, now')
  <2>1. PICK d \in 0 .. Len(asked) :
             Suffix(calls', asked, d) /\ \A i \in 1 .. d : asked[i] + Window <= now
    BY DEF Covers
  <2>2. \A i \in 1 .. d : asked[i] + Window <= now'
    BY <1>1, <1>2, <2>1, LimitTypes
  <2> QED BY <2>1, <2>2 DEF Covers
<1> QED BY <1>3, <1>4 DEF WindowInv

LEMMA WindowStepKeeps ==
    ASSUME WindowInv, FeeNext,
           asked' = IF Begun THEN LastOf(Append(asked, now), Limit) ELSE asked
    PROVE  WindowInv' /\ (Begun => Len(asked) < Limit \/ asked[1] + Window <= now)
<1> DEFINE Goal == WindowInv' /\ (Begun => Len(asked) < Limit \/ asked[1] + Window <= now)
<1>1. FeeInv' /\ now \in Nat /\ attempt \in [Callers -> Nat]
  BY FeeStepKeeps DEF WindowInv, FeeInv, FeeTypeOK
<1>2. \A c \in Callers : c \in asleep => attempt[c] # 0
  BY DEF WindowInv
<1>3. ASSUME UNCHANGED attempt, UNCHANGED now,
             Covers(calls', asked, now),
             \A c \in Callers : c \in asleep' => attempt[c] # 0
      PROVE  Goal
  <2>1. ~Begun
    BY <1>3 DEF Begun
  <2>2. now' \in Nat /\ now <= now'
    BY <1>1, <1>3
  <2> QED BY <1>1, <1>3, <2>1, <2>2, QuietKeeps
<1>4. Covers(calls, asked, now)
  BY DEF WindowInv
<1>5. ASSUME NEW c \in Callers, NEW q \in Quotes, NEW monitors \in BOOLEAN,
             Compare(c, q, monitors)
      PROVE  Goal
  <2>1. CASE FromCache(c, q, monitors)
    BY <1>2, <1>3, <1>4, <2>1 DEF FromCache, wiseVars
  <2>2. CASE AtOnce(c, q, monitors)
    <3>1. UNCHANGED <<attempt, asleep, now>> /\ (calls' = Recent \/ UNCHANGED calls)
      BY <2>2 DEF AtOnce, Pruned
    <3>2. Covers(calls', asked, now)
      BY <1>4, <3>1, RecentCovers
    <3> QED BY <1>2, <1>3, <3>1, <3>2
  <2>3. CASE Asks(c, q, monitors)
    <3>1. /\ calls' = Append(Recent, now) /\ attempt' = [attempt EXCEPT ![c] = 1]
          /\ UNCHANGED <<asleep, now>>
      BY <2>3 DEF Asks, Ask
    <3>2. Len(Recent) < Limit
      BY <2>3 DEF Asks, Begins, HasRoom
    <3>3. attempt[c] = 0 /\ attempt'[c] = 1
      BY <1>1, <1>5, <3>1 DEF Compare, WindowInv, FeeInv, AskedPairs
    <3>4. asked' = LastOf(Append(asked, now), Limit)
      BY <3>3 DEF Begun
    <3>5. Remembered(asked, now) /\ Covers(Recent, asked, now)
      BY RecentCovers DEF WindowInv
    <3>6. /\ Remembered(LastOf(Append(asked, now), Limit), now)
          /\ Covers(Append(Recent, now), LastOf(Append(asked, now), Limit), now)
          /\ Len(asked) < Limit \/ asked[1] + Window <= now
      BY <1>1, <3>2, <3>5, AskCovers
    <3>7. Remembered(asked', now') /\ Covers(calls', asked', now')
      BY <3>1, <3>4, <3>6
    <3>8. \A b \in Callers : b \in asleep' => attempt'[b] # 0
      BY <1>1, <1>2, <3>1
    <3> QED BY <1>1, <3>6, <3>7, <3>8 DEF WindowInv
  <2> QED BY <1>5, <2>1, <2>2, <2>3 DEF Compare
<1>6. ASSUME NEW c \in Callers, attempt'[c] # 1,
             \A b \in Callers : b # c => attempt'[b] = attempt[b],
             asleep' = asleep \ {c}, UNCHANGED <<calls, now>>
      PROVE  Goal
  <2>1. ~Begun
    BY <1>1, <1>6 DEF Begun
  <2>2. \A b \in Callers : b \in asleep' => attempt'[b] # 0
    BY <1>1, <1>2, <1>6
  <2>3. now' \in Nat /\ now <= now' /\ Covers(calls', asked, now)
    BY <1>1, <1>4, <1>6
  <2> QED BY <1>1, <2>1, <2>2, <2>3, QuietKeeps
<1>7. ASSUME NEW c \in Callers, Done(c) PROVE Goal
  <2>1. attempt'[c] = 0 /\ \A b \in Callers : b # c => attempt'[b] = attempt[b]
    BY <1>1, <1>7 DEF Done
  <2>2. asleep' = asleep \ {c} /\ UNCHANGED <<calls, now>>
    BY <1>7 DEF Done
  <2> QED BY <1>6, <2>1, <2>2
<1>8. ASSUME NEW c \in Callers, NEW outcome \in Outcomes, HttpAnswer(c, outcome) PROVE Goal
  <2>1. CASE Sleeps(c, outcome)
    <3>1. UNCHANGED <<calls, attempt, now>> /\ asleep' = asleep \cup {c} /\ attempt[c] # 0
      BY <1>8, <2>1 DEF HttpAnswer, FallsAsleep, InFlight
    <3> QED BY <1>2, <1>3, <1>4, <3>1
  <2> QED BY <1>7, <1>8, <2>1 DEF HttpAnswer, Ends
<1>9. ASSUME NEW c \in Callers, GivesUp(c) PROVE Goal
  BY <1>7, <1>9 DEF GivesUp, Ends
<1>10. ASSUME NEW c \in Callers, Retry(c) PROVE Goal
  <2>1. /\ c \in asleep /\ attempt' = [attempt EXCEPT ![c] = @ + 1]
        /\ asleep' = asleep \ {c} /\ UNCHANGED <<calls, now>>
    BY <1>10 DEF Retry, NextAttempt
  <2>2. attempt'[c] # 1 /\ \A b \in Callers : b # c => attempt'[b] = attempt[b]
    BY <1>1, <1>2, <2>1
  <2> QED BY <1>6, <2>1, <2>2
<1>11. ASSUME NEW c \in Callers, NEW q \in Quotes, CompareStatic(c, q) PROVE Goal
  BY <1>2, <1>3, <1>4, <1>11 DEF CompareStatic, wiseVars
<1>12. CASE Tick
  <2>1. now' = now + 1 /\ UNCHANGED <<calls, attempt, asleep>>
    BY <1>12 DEF Tick
  <2>2. ~Begun
    BY <2>1 DEF Begun
  <2> QED BY <1>1, <1>2, <1>4, <2>1, <2>2, QuietKeeps
<1> QED BY <1>5, <1>8, <1>9, <1>10, <1>11, <1>12 DEF FeeNext

LEMMA LimitInitInv == MCInit => LimitInv
<1> SUFFICES ASSUME MCInit, focus = "fees" PROVE WindowInv
  BY DEF MCInit, LimitInv
<1>1. FeeInv /\ asked = <<>> /\ calls = <<>> /\ asleep = {} /\ now = 0
  BY FeeInitInv DEF MCInit, PreviewInit, FeeInit, WiseInit
<1>2. Remembered(asked, now) /\ Covers(calls, asked, now)
  BY <1>1, LimitTypes DEF Remembered, Covers, Ordered, Suffix
<1> QED BY <1>1, <1>2 DEF WindowInv

LEMMA LimitKeeps ==
    LimitInv /\ [MCNext]_mcVars
        => LimitInv' /\ (Begun => Len(asked) < Limit \/ asked[1] + Window <= now)
<1> SUFFICES ASSUME LimitInv, [MCNext]_mcVars
             PROVE  LimitInv' /\ (Begun => Len(asked) < Limit \/ asked[1] + Window <= now)
  OBVIOUS
<1>1. UNCHANGED focus
  BY DEF MCNext, mcVars
<1>2. CASE focus = "fees" /\ MCNext
  <2>1. WindowInv /\ FeeNext
    BY <1>2 DEF LimitInv, MCNext
  <2>2. asked' = IF Begun THEN LastOf(Append(asked, now), Limit) ELSE asked
    BY <1>2 DEF MCNext
  <2> QED BY <1>1, <1>2, <2>1, <2>2, WindowStepKeeps DEF LimitInv
<1>3. CASE focus # "fees" /\ MCNext
  <2>1. asked = <<>> /\ asked' = asked
    BY <1>3 DEF LimitInv, MCNext
  <2> QED BY <1>1, <1>3, <2>1, LimitTypes DEF LimitInv
<1>4. CASE focus = "fees" /\ UNCHANGED mcVars
  <2>1. WindowInv /\ asked' = asked /\ UNCHANGED vars
    BY <1>4 DEF LimitInv, mcVars, allVars
  <2>2. UNCHANGED <<calls, attempt, asleep, now>>
    BY <2>1 DEF vars, wiseVars
  <2>3. FeeInv' /\ now \in Nat
    BY <2>1, FeeStepKeeps DEF WindowInv, FeeInv, FeeTypeOK
  <2>4. WindowInv'
    BY <2>1, <2>2, <2>3, QuietKeeps DEF WindowInv
  <2>5. ~Begun
    BY <2>2 DEF Begun
  <2> QED BY <1>1, <1>4, <2>4, <2>5 DEF LimitInv
<1>5. CASE focus # "fees" /\ UNCHANGED mcVars
  <2>1. asked = <<>> /\ asked' = asked
    BY <1>5 DEF LimitInv, mcVars
  <2> QED BY <1>1, <1>5, <2>1, LimitTypes DEF LimitInv
<1> QED BY <1>2, <1>3, <1>4, <1>5

(* A request, retries apart, comes no sooner than a window behind the one  *)
(* the limit before it: however many callers and whatever ends their       *)
(* requests meet.                                                          *)
THEOREM LimitCorrect == MCSpec => CallsWithinWindow
<1>1. LimitInv /\ [MCNext]_mcVars => LimitInv'
  BY LimitKeeps
<1>2. LimitInv /\ [MCNext]_mcVars
          => [Begun => Len(asked) < Limit \/ asked[1] + Window <= now]_mcVars
  BY LimitKeeps
<1> QED BY <1>1, <1>2, LimitInitInv, PTL DEF MCSpec, CallsWithinWindow

-----------------------------------------------------------------------------
(* Routes.  Every currency that has a pool has one with USDm: so it is in  *)
(* MENTO_POOLS, and without it the detours tried would not be enough.      *)

Hubbed == \A pool \in Pools : \A c \in pool : c = USDm \/ {c, USDm} \in Pools

Linked(c) == c = USDm \/ {c, USDm} \in Pools

IsShortest(src, dst, path) ==
    IF path # <<>>
    THEN path \in Ways(Len(path), src, dst) /\ \A m \in 1 .. Len(path) - 1 : Ways(m, src, dst) = {}
    ELSE CutOff(src, dst)

LEMMA RouteFacts ==
    ASSUME NEW src \in Currencies, NEW dst \in Currencies, NEW p \in RoutesFor(src, dst)
    PROVE  /\ Len(p) \in Nat /\ 2 <= Len(p) /\ p # <<>> /\ p \in Ways(Len(p), src, dst)
           /\ p = <<src, dst>> \/ 3 <= Len(p)
           /\ (\E q \in Pools : src \in q) /\ (\E q \in Pools : dst \in q)
<1>1. p \in Tried(src, dst) /\ IsPath(p) /\ USDm \in Currencies /\ CELO \in Currencies
  BY RouteAssumption DEF RoutesFor
<1>2. CASE p = <<src, dst>>
  <2>1. {p[1], p[2]} \in Pools
    BY <1>1, <1>2 DEF IsPath
  <2> QED BY <1>1, <1>2, <2>1 DEF Ways
<1>3. ASSUME NEW via \in Currencies, p = <<src, via, dst>>
      PROVE  /\ Len(p) = 3 /\ p # <<>> /\ p \in Ways(Len(p), src, dst)
             /\ (\E q \in Pools : src \in q) /\ (\E q \in Pools : dst \in q)
  <2>1. Len(p) = 3 /\ p # <<>> /\ p \in [1 .. 3 -> Currencies] /\ p[1] = src /\ p[3] = dst
    BY <1>3
  <2>2. {p[1], p[2]} \in Pools /\ {p[2], p[3]} \in Pools
    <3>1. 1 \in 1 .. Len(p) - 1 /\ 2 \in 1 .. Len(p) - 1 /\ 1 + 1 = 2 /\ 2 + 1 = 3
      BY <2>1
    <3> QED BY <1>1, <3>1 DEF IsPath
  <2> QED BY <1>1, <2>1, <2>2 DEF Ways
<1>4. CASE p = <<src, CELO, USDm, dst>>
  <2>1. Len(p) = 4 /\ p # <<>> /\ p \in [1 .. 4 -> Currencies] /\ p[1] = src /\ p[4] = dst
    BY <1>1, <1>4
  <2>2. {p[1], p[2]} \in Pools /\ {p[3], p[4]} \in Pools
    <3>1. 1 \in 1 .. Len(p) - 1 /\ 3 \in 1 .. Len(p) - 1 /\ 1 + 1 = 2 /\ 3 + 1 = 4
      BY <2>1
    <3> QED BY <1>1, <3>1 DEF IsPath
  <2> QED BY <1>1, <2>1, <2>2 DEF Ways
<1>5. \/ p = <<src, dst>> \/ p = <<src, CELO, USDm, dst>>
      \/ \E via \in Currencies : p = <<src, via, dst>>
  BY <1>1 DEF Tried, Direct, Over, OverBoth
<1>6. CASE \E via \in Currencies : p = <<src, via, dst>>
  <2>1. /\ Len(p) = 3 /\ p # <<>> /\ p \in Ways(Len(p), src, dst)
        /\ (\E q \in Pools : src \in q) /\ (\E q \in Pools : dst \in q)
    BY <1>3, <1>6
  <2> QED BY <2>1
<1>7. CASE p = <<src, CELO, USDm, dst>>
  <2>1. Len(p) = 4
    BY <1>7
  <2> QED BY <1>4, <1>7, <2>1
<1> QED BY <1>2, <1>5, <1>6, <1>7

(* Of currencies linked to USDm, a way over one pool or two is tried.      *)
LEMMA LinkedRoutes ==
    ASSUME NEW src \in Currencies, NEW dst \in Currencies, src # dst
    PROVE  /\ {src, dst} \in Pools => <<src, dst>> \in RoutesFor(src, dst)
           /\ Linked(src) /\ Linked(dst) /\ {src, dst} \notin Pools
                 => <<src, USDm, dst>> \in RoutesFor(src, dst)
<1>1. ASSUME {src, dst} \in Pools PROVE <<src, dst>> \in RoutesFor(src, dst)
  <2> DEFINE p == <<src, dst>>
  <2>1. Len(p) = 2 /\ p[1] = src /\ p[2] = dst
    OBVIOUS
  <2>2. p \in Direct(src, dst)
    BY DEF Direct
  <2> HIDE DEF p
  <2>3. \A i \in 1 .. Len(p) - 1 : i = 1
    BY <2>1
  <2>4. IsPath(p)
    BY <1>1, <2>1, <2>3 DEF IsPath
  <2>5. p \in RoutesFor(src, dst)
    BY <2>2, <2>4 DEF RoutesFor, Tried
  <2> QED BY <2>5 DEF p
<1>2. ASSUME Linked(src), Linked(dst), {src, dst} \notin Pools
      PROVE  <<src, USDm, dst>> \in RoutesFor(src, dst)
  <2>1. {src, dst} = {dst, src}
    OBVIOUS
  <2>2. src # USDm /\ dst # USDm
    BY <1>2, <2>1 DEF Linked
  <2>3. {src, USDm} \in Pools /\ {USDm, dst} \in Pools
    <3>1. {dst, USDm} = {USDm, dst}
      OBVIOUS
    <3> QED BY <1>2, <2>2, <3>1 DEF Linked
  <2>4. IsPath(<<src, USDm, dst>>)
    <3> DEFINE p == <<src, USDm, dst>>
    <3>1. Len(p) = 3 /\ p[1] = src /\ p[2] = USDm /\ p[3] = dst
      OBVIOUS
    <3> HIDE DEF p
    <3>2. \A i \in 1 .. Len(p) - 1 : i = 1 \/ i = 2
      BY <3>1
    <3>3. \A i \in 1 .. Len(p) - 1 : {p[i], p[i + 1]} \in Pools
      <4> SUFFICES ASSUME NEW i \in 1 .. Len(p) - 1 PROVE {p[i], p[i + 1]} \in Pools
        OBVIOUS
      <4>1. CASE i = 1
        BY <2>3, <3>1, <4>1
      <4>2. CASE i = 2
        BY <2>3, <3>1, <4>2
      <4> QED BY <3>2, <4>1, <4>2
    <3>4. IsPath(p)
      BY <3>3 DEF IsPath
    <3> QED BY <3>4 DEF p
  <2> QED BY <2>2, <2>4 DEF RoutesFor, Tried, Over
<1> QED BY <1>1, <1>2

LEMMA NoShorterWay ==
    ASSUME NEW src, NEW dst, src # dst
    PROVE  /\ Ways(1, src, dst) = {}
           /\ {src, dst} \notin Pools => Ways(2, src, dst) = {}
<1>1. Ways(1, src, dst) = {}
  BY DEF Ways
<1>2. ASSUME {src, dst} \notin Pools, NEW p \in Ways(2, src, dst) PROVE FALSE
  <2>1. p \in [1 .. 2 -> Currencies] /\ p[1] = src /\ p[2] = dst /\ IsPath(p)
    BY DEF Ways
  <2>2. Len(p) = 2
    BY <2>1
  <2>3. {p[1], p[2]} \in Pools
    BY <2>1, <2>2 DEF IsPath
  <2> QED BY <1>2, <2>1, <2>3
<1> QED BY <1>1, <1>2

LEMMA ShortestOf ==
    ASSUME NEW R, NEW d \in R, \A p \in R : Len(p) \in Nat /\ Len(d) <= Len(p)
    PROVE  Shortest(R) \in R /\ Len(Shortest(R)) = Len(d)
<1> DEFINE best == {p \in R : \A r \in R : Len(p) <= Len(r)}
<1>1. Shortest(R) = IF best = {} THEN <<>>
                    ELSE IF \E p \in best : p[2] = USDm THEN CHOOSE p \in best : p[2] = USDm
                    ELSE CHOOSE p \in best : TRUE
  BY DEF Shortest
<1>2. d \in best
  OBVIOUS
<1>3. \A p \in best : p \in R /\ Len(p) = Len(d)
  <2> SUFFICES ASSUME NEW p \in best PROVE p \in R /\ Len(p) = Len(d)
    OBVIOUS
  <2>1. p \in R /\ Len(p) <= Len(d)
    OBVIOUS
  <2>2. Len(p) \in Nat /\ Len(d) \in Nat /\ Len(d) <= Len(p)
    BY <2>1
  <2> QED BY <2>1, <2>2
<1> HIDE DEF best
<1>4. Shortest(R) \in best
  BY <1>1, <1>2
<1> QED BY <1>3, <1>4

LEMMA ShortestIsShortest ==
    ASSUME Hubbed, NEW src \in Currencies, NEW dst \in Currencies, src # dst
    PROVE  IsShortest(src, dst, Shortest(RoutesFor(src, dst)))
<1> DEFINE R == RoutesFor(src, dst)
           path == Shortest(R)
<1>1. ASSUME R = {} PROVE IsShortest(src, dst, path)
  <2>1. path = <<>>
    BY <1>1 DEF Shortest
  <2>2. ~Linked(src) \/ ~Linked(dst)
    BY <1>1, LinkedRoutes
  <2>3. ASSUME NEW c \in Currencies, ~Linked(c), NEW pool \in Pools PROVE c \notin pool
    BY <2>3 DEF Hubbed, Linked
  <2>4. CASE ~Linked(src)
    <3> DEFINE S == {src}
    <3>1. S \in SUBSET Currencies /\ src \in S /\ dst \notin S
      OBVIOUS
    <3>2. \A pool \in Pools : pool \cap S = {}
      BY <2>3, <2>4
    <3> HIDE DEF S
    <3>3. CutOff(src, dst)
      BY <3>1, <3>2 DEF CutOff
    <3> QED BY <2>1, <3>3 DEF IsShortest
  <2>5. CASE ~Linked(dst)
    <3> DEFINE S == Currencies \ {dst}
    <3>1. S \in SUBSET Currencies /\ src \in S /\ dst \notin S
      OBVIOUS
    <3>2. \A pool \in Pools : pool \subseteq S
      BY <2>3, <2>5, RouteAssumption
    <3> HIDE DEF S
    <3>3. CutOff(src, dst)
      BY <3>1, <3>2 DEF CutOff
    <3> QED BY <2>1, <3>3 DEF IsShortest
  <2> QED BY <2>2, <2>4, <2>5
<1>2. ASSUME NEW r \in R PROVE IsShortest(src, dst, path)
  <2> DEFINE direct == <<src, dst>>
             via == <<src, USDm, dst>>
  <2>1. Linked(src) /\ Linked(dst)
    <3>1. (\E q \in Pools : src \in q) /\ (\E q \in Pools : dst \in q)
      BY RouteFacts
    <3> QED BY <3>1 DEF Hubbed, Linked
  <2>2. \A p \in R : Len(p) \in Nat /\ 2 <= Len(p) /\ (p = direct \/ 3 <= Len(p))
    BY RouteFacts
  <2>3. Len(direct) = 2 /\ Len(via) = 3
    OBVIOUS
  <2>0. Ways(1, src, dst) = {} /\ ({src, dst} \notin Pools => Ways(2, src, dst) = {})
    BY NoShorterWay
  <2>4. CASE {src, dst} \in Pools
    <3>1. direct \in R
      BY <2>4, LinkedRoutes
    <3> HIDE DEF R, direct
    <3>2. \A p \in R : Len(p) \in Nat /\ Len(direct) <= Len(p)
      BY <2>2, <2>3
    <3>3. path \in R /\ Len(path) = 2
      BY <2>3, <3>1, <3>2, ShortestOf
    <3> HIDE DEF path
    <3>4. path # <<>> /\ path \in Ways(Len(path), src, dst)
      BY <3>3, RouteFacts DEF R
    <3>5. \A m \in 1 .. Len(path) - 1 : m = 1
      BY <3>3
    <3>6. \A m \in 1 .. Len(path) - 1 : Ways(m, src, dst) = {}
      BY <2>0, <3>5
    <3> QED BY <3>4, <3>6 DEF IsShortest
  <2>5. CASE {src, dst} \notin Pools
    <3>1. via \in R
      BY <2>1, <2>5, LinkedRoutes
    <3>2. direct \notin R
      <4>1. ASSUME direct \in R PROVE FALSE
        <5>1. /\ IsPath(direct) /\ direct[1] = src /\ direct[1 + 1] = dst
              /\ 1 \in 1 .. Len(direct) - 1
          BY <2>3, <4>1 DEF RoutesFor
        <5> HIDE DEF direct
        <5>2. {src, dst} \in Pools
          BY <5>1 DEF IsPath
        <5> QED BY <2>5, <5>2
      <4> QED BY <4>1
    <3> HIDE DEF R, direct, via
    <3>3. \A p \in R : Len(p) \in Nat /\ Len(via) <= Len(p)
      BY <2>2, <2>3, <3>2
    <3>4. path \in R /\ Len(path) = 3
      BY <2>3, <3>1, <3>3, ShortestOf
    <3> HIDE DEF path
    <3>5. path # <<>> /\ path \in Ways(Len(path), src, dst)
      BY <3>4, RouteFacts DEF R
    <3>6. \A m \in 1 .. Len(path) - 1 : m = 1 \/ m = 2
      BY <3>4
    <3>7. \A m \in 1 .. Len(path) - 1 : Ways(m, src, dst) = {}
      BY <2>0, <2>5, <3>6
    <3> QED BY <3>5, <3>7 DEF IsShortest
  <2> QED BY <2>4, <2>5
<1> QED BY <1>1, <1>2

(* Every cached route, and the last one found, is a shortest.              *)
RouteEntry == [src : Currencies, dst : Currencies, path : Seq(Currencies), expires : Nat]

RoutesInv ==
    /\ clock \in Nat
    /\ routeCache \in Seq(RouteEntry)
    /\ \A i \in DOMAIN routeCache :
          IsShortest(routeCache[i].src, routeCache[i].dst, routeCache[i].path)
    /\ \/ found.src = found.dst /\ found.path = <<>>
       \/ IsShortest(found.src, found.dst, found.path)

LEMMA WithEntryKeeps ==
    ASSUME RoutesInv, NEW entry \in RouteEntry, IsShortest(entry.src, entry.dst, entry.path)
    PROVE  /\ WithEntry(entry) \in Seq(RouteEntry)
           /\ \A i \in DOMAIN WithEntry(entry) :
                 LET e == WithEntry(entry)[i] IN IsShortest(e.src, e.dst, e.path)
<1> DEFINE Sound == {e \in RouteEntry : IsShortest(e.src, e.dst, e.path)}
           old == {i \in DOMAIN routeCache : /\ routeCache[i].src = entry.src
                                             /\ routeCache[i].dst = entry.dst}
           others == IF old = {} THEN routeCache
                     ELSE RemoveAt(routeCache, CHOOSE i \in old : TRUE)
           all == Append(others, entry)
<1>1. WithEntry(entry) = IF Len(all) > MaxRoutes THEN SubSeq(all, RoutesDropped + 1, Len(all))
                         ELSE all
  BY DEF WithEntry
<1>2. routeCache \in Seq(Sound) /\ entry \in Sound
  <2>1. \A i \in DOMAIN routeCache : routeCache[i] \in Sound
    BY DEF RoutesInv
  <2>2. /\ routeCache \in Seq(RouteEntry) /\ Len(routeCache) \in Nat
        /\ DOMAIN routeCache = 1 .. Len(routeCache)
    BY DEF RoutesInv
  <2>3. routeCache \in [1 .. Len(routeCache) -> Sound]
    <3> HIDE DEF Sound
    <3> QED BY <2>1, <2>2
  <2> HIDE DEF Sound
  <2>4. routeCache \in Seq(Sound)
    BY <2>2, <2>3
  <2> QED BY <2>4 DEF Sound
<1>3. \A i \in DOMAIN routeCache : RemoveAt(routeCache, i) \in Seq(Sound)
  <2> HIDE DEF Sound
  <2> SUFFICES ASSUME NEW i \in DOMAIN routeCache PROVE RemoveAt(routeCache, i) \in Seq(Sound)
    OBVIOUS
  <2>1. i \in 1 .. Len(routeCache) /\ Len(routeCache) \in Nat
    BY <1>2
  <2>2. SubSeq(routeCache, 1, i - 1) \in Seq(Sound)
    <3>1. \A j \in 1 .. i - 1 : routeCache[j] \in Sound
      BY <1>2, <2>1
    <3> QED BY <1>2, <2>1, <3>1
  <2>3. SubSeq(routeCache, i + 1, Len(routeCache)) \in Seq(Sound)
    <3>1. \A j \in i + 1 .. Len(routeCache) : routeCache[j] \in Sound
      BY <1>2, <2>1
    <3> QED BY <1>2, <2>1, <3>1
  <2> QED BY <2>2, <2>3 DEF RemoveAt
<1>4. others \in Seq(Sound)
  <2>1. old # {} => (CHOOSE i \in old : TRUE) \in DOMAIN routeCache
    OBVIOUS
  <2> HIDE DEF old, Sound
  <2> QED BY <1>2, <1>3, <2>1
<1>5. all \in Seq(Sound) /\ Len(all) \in Nat
  <2> HIDE DEF others, Sound
  <2> QED BY <1>2, <1>4
<1>6. WithEntry(entry) \in Seq(Sound)
  <2> HIDE DEF all, Sound
  <2>1. CASE Len(all) > MaxRoutes
    <3>1. RoutesDropped \in Nat
      BY RouteAssumption
    <3>2. \A j \in RoutesDropped + 1 .. Len(all) : all[j] \in Sound
      BY <1>5, <3>1
    <3>3. SubSeq(all, RoutesDropped + 1, Len(all)) \in Seq(Sound)
      BY <1>5, <3>1, <3>2
    <3> QED BY <1>1, <2>1, <3>3
  <2>2. CASE ~(Len(all) > MaxRoutes)
    BY <1>1, <1>5, <2>2
  <2> QED BY <2>1, <2>2
<1>7. \A i \in DOMAIN WithEntry(entry) : WithEntry(entry)[i] \in Sound
  <2> HIDE DEF Sound
  <2> QED BY <1>6
<1>8. WithEntry(entry) \in Seq(RouteEntry)
  <2>1. Sound \subseteq RouteEntry
    OBVIOUS
  <2> HIDE DEF Sound
  <2> QED BY <1>6, <2>1
<1> QED BY <1>7, <1>8

LEMMA FindRoutesKeeps ==
    ASSUME Hubbed, RoutesInv, NEW from \in Currencies \cup Aliased,
           NEW to \in Currencies \cup Aliased, FindRoutes(from, to)
    PROVE  RoutesInv'
<1> DEFINE src == Canonical[from]
           dst == Canonical[to]
           path == Shortest(RoutesFor(src, dst))
<1>1. src \in Currencies /\ dst \in Currencies /\ src # dst /\ clock' = clock /\ clock \in Nat
  BY RouteAssumption DEF FindRoutes, RoutesInv
<1>2. CASE CachedRoute(src, dst) # {}
  <2>1. PICK i \in CachedRoute(src, dst) :
           found' = [src |-> src, dst |-> dst, path |-> routeCache[i].path]
    BY <1>2 DEF FindRoutes
  <2>2. i \in DOMAIN routeCache /\ routeCache[i].src = src /\ routeCache[i].dst = dst
    BY DEF CachedRoute
  <2>3. IsShortest(src, dst, routeCache[i].path)
    BY <2>2 DEF RoutesInv
  <2>4. routeCache' = routeCache
    BY <1>2 DEF FindRoutes
  <2> HIDE DEF src, dst
  <2>5. IsShortest(found'.src, found'.dst, found'.path)
    BY <2>1, <2>3
  <2> QED BY <1>1, <2>4, <2>5 DEF RoutesInv
<1>3. CASE CachedRoute(src, dst) = {}
  <2> DEFINE entry == [src |-> src, dst |-> dst, path |-> path, expires |-> clock + RouteTTL]
  <2>1. found' = [src |-> src, dst |-> dst, path |-> path] /\ routeCache' = WithEntry(entry)
    BY <1>3 DEF FindRoutes
  <2>2. IsShortest(src, dst, path)
    <3> HIDE DEF src, dst
    <3> QED BY <1>1, ShortestIsShortest
  <2>3. path \in Seq(Currencies)
    <3>1. CASE path = <<>>
      BY <3>1
    <3>2. CASE path # <<>>
      <4>1. path \in Ways(Len(path), src, dst)
        <5> HIDE DEF path
        <5> QED BY <2>2, <3>2 DEF IsShortest
      <4> HIDE DEF path
      <4>2. path \in [1 .. Len(path) -> Currencies]
        BY <4>1 DEF Ways
      <4> QED BY <4>2
    <3> QED BY <3>1, <3>2
  <2> HIDE DEF src, dst, path
  <2>4. entry \in RouteEntry /\ IsShortest(entry.src, entry.dst, entry.path)
    <3>1. clock + RouteTTL \in Nat
      BY <1>1, RouteAssumption
    <3> QED BY <1>1, <2>2, <2>3, <3>1 DEF RouteEntry
  <2> HIDE DEF entry
  <2>5. /\ routeCache' \in Seq(RouteEntry)
        /\ \A i \in DOMAIN routeCache' :
              IsShortest(routeCache'[i].src, routeCache'[i].dst, routeCache'[i].path)
    BY <2>1, <2>4, WithEntryKeeps
  <2>6. IsShortest(found'.src, found'.dst, found'.path)
    BY <2>1, <2>2
  <2> QED BY <1>1, <2>5, <2>6 DEF RoutesInv
<1> QED BY <1>2, <1>3

(* The recommended route is a way over existing pools and no other is      *)
(* shorter, and none is found only where the pools do not connect the two  *)
(* currencies: for any number of currencies, if every one that has a pool  *)
(* has one with USDm, and for any lifetime and size of the cache.          *)
THEOREM RoutesCorrect ==
    ASSUME Hubbed
    PROVE  MCSpec => []RecommendedIsShortest
<1>1. MCInit => RoutesInv
  BY DEF MCInit, RouteInit, RoutesInv
<1>2. RoutesInv /\ [MCNext]_mcVars => RoutesInv'
  <2> SUFFICES ASSUME RoutesInv, [MCNext]_mcVars PROVE RoutesInv'
    OBVIOUS
  <2>1. CASE UNCHANGED routeVars
    BY <2>1 DEF routeVars, RoutesInv
  <2>2. CASE RouteTick
    BY <2>2 DEF RouteTick, RoutesInv
  <2>3. CASE \E from, to \in Currencies \cup Aliased : FindRoutes(from, to)
    BY <2>3, FindRoutesKeeps
  <2> QED BY <2>1, <2>2, <2>3 DEF MCNext, RouteNext, mcVars
<1>3. RoutesInv => RecommendedIsShortest
  BY DEF RoutesInv, RecommendedIsShortest, IsShortest
<1> QED BY <1>1, <1>2, <1>3, PTL DEF MCSpec

=============================================================================
