----------------------- MODULE RemittanceTransferProofs -----------------------
(***************************************************************************)
(* Theorems of StatusStream and RemittanceTransfer, for any number of      *)
(* calls and connections, any size of the queues, any requests, funds,     *)
(* margin and slippage.                                                    *)
(*                                                                         *)
(* Every connection of the stream gets every event it is owed once, and a  *)
(* transfer uses the stream as the stream's own specification allows, so   *)
(* that holds here too, whatever the wallet and the chain do.  Two more    *)
(* invariants follow one call through the steps of the chain: what it      *)
(* answers is what became of its transfer, and it is short of funds only   *)
(* by a transaction that another call had given up on.                     *)
(***************************************************************************)
EXTENDS RemittanceTransfer, FiniteSetTheorems, TLAPS

-----------------------------------------------------------------------------
(* Sequences as the sets of their elements.                                *)

LEMMA AppendFacts ==
    ASSUME NEW S, NEW s \in Seq(S), NEW e \in S
    PROVE  /\ Append(s, e) \in Seq(S) /\ Len(Append(s, e)) = Len(s) + 1
           /\ Range(Append(s, e)) = Range(s) \cup {e}
           /\ IsInjective(s) /\ e \notin Range(s) => IsInjective(Append(s, e))
<1>1. /\ Append(s, e) \in Seq(S) /\ Len(Append(s, e)) = Len(s) + 1
      /\ DOMAIN s = 1 .. Len(s)
      /\ DOMAIN Append(s, e) = 1 .. Len(s) + 1
      /\ Len(s) \in Nat
      /\ \A i \in 1 .. Len(s) : Append(s, e)[i] = s[i]
      /\ Append(s, e)[Len(s) + 1] = e
  OBVIOUS
<1>2. Range(Append(s, e)) = Range(s) \cup {e}
  BY <1>1 DEF Range
<1>3. ASSUME IsInjective(s), e \notin Range(s) PROVE IsInjective(Append(s, e))
  <2> SUFFICES ASSUME NEW i \in 1 .. Len(s) + 1, NEW j \in 1 .. Len(s) + 1,
                      Append(s, e)[i] = Append(s, e)[j]
               PROVE  i = j
    BY <1>1 DEF IsInjective
  <2>1. CASE i \in 1 .. Len(s) /\ j \in 1 .. Len(s)
    BY <2>1, <1>1, <1>3 DEF IsInjective
  <2>2. CASE i \in 1 .. Len(s) /\ j = Len(s) + 1
    BY <2>2, <1>1, <1>3 DEF Range
  <2>3. CASE j \in 1 .. Len(s) /\ i = Len(s) + 1
    BY <2>3, <1>1, <1>3 DEF Range
  <2> QED
    BY <2>1, <2>2, <2>3, <1>1
<1> QED
  BY <1>1, <1>2, <1>3

LEMMA TailFacts ==
    ASSUME NEW S, NEW s \in Seq(S), s # <<>>
    PROVE  /\ Head(s) \in S /\ Tail(s) \in Seq(S) /\ Len(Tail(s)) = Len(s) - 1
           /\ Range(s) = {Head(s)} \cup Range(Tail(s))
           /\ IsInjective(s) => IsInjective(Tail(s)) /\ Head(s) \notin Range(Tail(s))
<1>1. /\ Head(s) \in S /\ Tail(s) \in Seq(S) /\ Len(Tail(s)) = Len(s) - 1
      /\ Len(s) \in Nat \ {0}
      /\ DOMAIN s = 1 .. Len(s) /\ DOMAIN Tail(s) = 1 .. Len(s) - 1
      /\ Head(s) = s[1]
      /\ \A i \in 1 .. Len(s) - 1 : Tail(s)[i] = s[i + 1]
  OBVIOUS
<1>2. Range(s) = {Head(s)} \cup Range(Tail(s))
  <2>1. ASSUME NEW i \in 1 .. Len(s) PROVE s[i] = Head(s) \/ \E j \in 1 .. Len(s) - 1 : s[i] = Tail(s)[j]
    <3>1. CASE i = 1
      BY <3>1, <1>1
    <3>2. CASE i # 1
      <4>1. i - 1 \in 1 .. Len(s) - 1 /\ s[i] = Tail(s)[i - 1]
        BY <3>2, <1>1
      <4> QED
        BY <4>1
    <3> QED
      BY <3>1, <3>2
  <2>2. ASSUME NEW j \in 1 .. Len(s) - 1 PROVE \E i \in 1 .. Len(s) : Tail(s)[j] = s[i]
    <3>1. j + 1 \in 1 .. Len(s)
      BY <1>1
    <3> QED
      BY <3>1, <1>1
  <2>3. Range(s) = {s[i] : i \in 1 .. Len(s)} /\ Range(Tail(s)) = {Tail(s)[j] : j \in 1 .. Len(s) - 1}
    BY <1>1 DEF Range
  <2>4. 1 \in 1 .. Len(s)
    BY <1>1
  <2> HIDE DEF Range
  <2> QED
    BY <2>1, <2>2, <2>3, <2>4, <1>1
<1>3. IsInjective(s) => IsInjective(Tail(s)) /\ Head(s) \notin Range(Tail(s))
  BY <1>1 DEF IsInjective, Range
<1> QED
  BY <1>1, <1>2, <1>3
-----------------------------------------------------------------------------
(* The inductive invariant.                                                *)

(* The walks pass each connection once, and only connections once open.    *)
WalksPassOnce ==
    \A t \in Tasks :
        /\ IsInjective(todo[t])
        /\ \A c \in Range(todo[t]) : conn[c] # "new"

(* Nothing has been given to a connection that is not made yet.            *)
NewIsBlank ==
    \A c \in Connections : conn[c] = "new" => queue[c] = <<>> /\ got[c] = {} /\ owed[c] = {}

(* Every event that is known has been broadcast.                           *)
NumbersArePast ==
    /\ \A c \in Connections : \A e \in owed[c] : e.no <= emitted[e.of]
    /\ \A i \in DOMAIN history : history[i].no <= emitted[history[i].of]
    /\ \A t \in Tasks : Broadcasting(t) => emitted[t] # 0

StreamInv == StreamTypeOK /\ WalksPassOnce /\ NewIsBlank /\ NumbersArePast /\ StatusDelivered

LEMMA RangeOfEmpty == Range(<<>>) = {} /\ IsInjective(<<>>)
BY DEF Range, IsInjective

LEMMA InitInv == StreamInit => StreamInv
<1> SUFFICES ASSUME StreamInit PROVE StreamInv
  OBVIOUS
<1>1. StreamTypeOK
  BY StreamAssumption DEF StreamInit, StreamTypeOK
<1>2. \A t \in Tasks : todo[t] = <<>>
  BY DEF StreamInit
<1>3. \A c \in Connections : queue[c] = <<>> /\ got[c] = {} /\ owed[c] = {}
  BY DEF StreamInit
<1>4. \A c \in Connections : InFlight(c) = {}
  BY <1>2, RangeOfEmpty DEF InFlight
<1>5. history = <<>>
  BY DEF StreamInit
<1>6. WalksPassOnce /\ NewIsBlank /\ StatusDelivered
  BY <1>2, <1>3, <1>4, RangeOfEmpty DEF WalksPassOnce, NewIsBlank, StatusDelivered
<1>7. NumbersArePast
  BY <1>2, <1>3, <1>5 DEF NumbersArePast, Broadcasting
<1> QED
  BY <1>1, <1>6, <1>7 DEF StreamInv

(* A connection whose queue, events and walks stay as they are keeps what  *)
(* it is owed.                                                             *)
Delivered(c) ==
    /\ owed[c] = got[c] \cup Range(queue[c]) \cup InFlight(c)
    /\ IsInjective(queue[c])
    /\ got[c] \cap Range(queue[c]) = {}
    /\ InFlight(c) \cap (got[c] \cup Range(queue[c])) = {}

LEMMA ConnectKeeps ==
    ASSUME StreamInv, NEW c \in Connections, Connect(c)
    PROVE  StreamInv'
<1> USE DEF StreamInv
<1>1. queue[c] = <<>> /\ got[c] = {} /\ owed[c] = {}
  BY DEF Connect, NewIsBlank
<1>2. InFlight(c) = {}
  BY DEF InFlight, Connect, WalksPassOnce
<1>3. history # <<>> => history[Len(history)] \in Event /\ Len(history) \in DOMAIN history
  BY DEF StreamTypeOK
<1>4. StreamTypeOK'
  <2>1. CASE history = <<>>
    BY <2>1 DEF Connect, StreamTypeOK
  <2>2. CASE history # <<>>
    <3> DEFINE e == history[Len(history)]
    <3>1. /\ queue' = [queue EXCEPT ![c] = <<e>>] /\ owed' = [owed EXCEPT ![c] = {e}]
          /\ conn' = [conn EXCEPT ![c] = "open"]
          /\ UNCHANGED <<got, emitted, todo, history>>
      BY <2>2 DEF Connect
    <3>2. e \in Event /\ <<e>> \in Seq(Event) /\ Len(<<e>>) <= QueueSize
      BY <2>2, <1>3, StreamAssumption
    <3> HIDE DEF e
    <3> QED
      BY <3>1, <3>2 DEF StreamTypeOK
  <2> QED
    BY <2>1, <2>2
<1>5. WalksPassOnce'
  BY DEF Connect, WalksPassOnce, StreamTypeOK
<1>6. NewIsBlank'
  BY DEF Connect, NewIsBlank, StreamTypeOK
<1>7. NumbersArePast'
  <2>1. UNCHANGED <<history, emitted, todo>>
    BY DEF Connect
  <2>2. ASSUME NEW d \in Connections, NEW e \in owed'[d] PROVE e.no <= emitted[e.of]
    <3>1. e \in owed[d] \/ (history # <<>> /\ e = history[Len(history)])
      <4>1. CASE history = <<>>
        BY <4>1 DEF Connect
      <4>2. CASE history # <<>>
        <5>1. owed' = [owed EXCEPT ![c] = {history[Len(history)]}]
          BY <4>2 DEF Connect
        <5>2. \A x \in Connections : owed'[x] = IF x = c THEN {history[Len(history)]} ELSE owed[x]
          BY <5>1 DEF StreamTypeOK
        <5> QED
          BY <4>2, <5>2
      <4> QED
        BY <4>1, <4>2
    <3> QED
      BY <3>1, <1>3 DEF NumbersArePast
  <2> QED
    BY <2>1, <2>2 DEF NumbersArePast, Broadcasting
<1>8. \A d \in Connections : InFlight(d)' = InFlight(d)
  BY DEF Connect, InFlight, LastEvent
<1>9. Delivered(c)'
  <2>1. CASE history = <<>>
    BY <2>1, <1>1, <1>2, <1>8, RangeOfEmpty DEF Connect, Delivered, StreamTypeOK
  <2>2. CASE history # <<>>
    <3> DEFINE e == history[Len(history)]
    <3>1. queue'[c] = <<e>> /\ owed'[c] = {e} /\ got'[c] = {}
      BY <2>2, <1>1 DEF Connect, StreamTypeOK
    <3>2. Range(<<e>>) = {e} /\ IsInjective(<<e>>)
      BY DEF Range, IsInjective
    <3> HIDE DEF e
    <3> QED
      BY <3>1, <3>2, <1>2, <1>8 DEF Delivered
  <2> QED
    BY <2>1, <2>2
<1>10. ASSUME NEW d \in Connections, d # c PROVE Delivered(d)'
  BY <1>8, <1>10 DEF Connect, Delivered, StatusDelivered, StreamTypeOK
<1> QED
  BY <1>4, <1>5, <1>6, <1>7, <1>9, <1>10 DEF StatusDelivered, Delivered

LEMMA ReadKeeps ==
    ASSUME StreamInv, NEW c \in Connections, Read(c)
    PROVE  StreamInv'
<1> USE DEF StreamInv
<1>1. /\ queue[c] \in Seq(Event) /\ queue[c] # <<>>
      /\ queue' = [queue EXCEPT ![c] = Tail(queue[c])]
      /\ got' = [got EXCEPT ![c] = got[c] \cup {Head(queue[c])}]
      /\ UNCHANGED <<conn, owed, emitted, todo, history>>
  BY DEF Read, StreamTypeOK
<1>2. /\ Head(queue[c]) \in Event /\ Tail(queue[c]) \in Seq(Event)
      /\ Len(Tail(queue[c])) = Len(queue[c]) - 1
      /\ Range(queue[c]) = {Head(queue[c])} \cup Range(Tail(queue[c]))
      /\ IsInjective(queue[c]) =>
            IsInjective(Tail(queue[c])) /\ Head(queue[c]) \notin Range(Tail(queue[c]))
  BY <1>1, TailFacts
<1>3. Len(queue[c]) <= QueueSize /\ Len(queue[c]) \in Nat
  BY <1>1 DEF StreamTypeOK
<1>4. StreamTypeOK'
  BY <1>1, <1>2, <1>3, StreamAssumption DEF StreamTypeOK
<1>5. WalksPassOnce' /\ NumbersArePast'
  BY <1>1 DEF WalksPassOnce, NumbersArePast, Broadcasting
<1>6. NewIsBlank'
  BY <1>1 DEF Read, NewIsBlank, StreamTypeOK
<1>7. \A d \in Connections : InFlight(d)' = InFlight(d)
  BY <1>1 DEF InFlight, LastEvent
<1>8. Delivered(c)'
  <2>1. Delivered(c)
    BY DEF Delivered, StatusDelivered
  <2>2. queue'[c] = Tail(queue[c]) /\ got'[c] = got[c] \cup {Head(queue[c])} /\ owed'[c] = owed[c]
    BY <1>1 DEF StreamTypeOK
  <2> QED
    BY <2>1, <2>2, <1>2, <1>7 DEF Delivered
<1>9. ASSUME NEW d \in Connections, d # c PROVE Delivered(d)'
  BY <1>1, <1>7, <1>9 DEF Delivered, StatusDelivered, StreamTypeOK
<1> QED
  BY <1>4, <1>5, <1>6, <1>8, <1>9 DEF StatusDelivered, Delivered

LEMMA DisconnectKeeps ==
    ASSUME StreamInv, NEW c \in Connections, Disconnect(c)
    PROVE  StreamInv'
<1> USE DEF StreamInv
<1>1. StreamTypeOK'
  BY DEF Disconnect, StreamTypeOK
<1>2. WalksPassOnce' /\ NewIsBlank' /\ NumbersArePast'
  BY DEF Disconnect, WalksPassOnce, NewIsBlank, NumbersArePast, StreamTypeOK, Broadcasting
<1>3. \A d \in Connections : InFlight(d)' = InFlight(d)
  BY DEF Disconnect, InFlight, LastEvent
<1>4. StatusDelivered'
  BY <1>3 DEF Disconnect, StatusDelivered
<1> QED
  BY <1>1, <1>2, <1>4

(* The events in flight of two calls are different, so the one of t joins  *)
(* or leaves the rest.                                                     *)
LEMMA StartBroadcastKeeps ==
    ASSUME StreamInv, NEW t \in Tasks, StartBroadcast(t)
    PROVE  StreamInv'
<1> USE DEF StreamInv
<1> DEFINE e == [of |-> t, no |-> emitted[t] + 1]
<1>1. /\ todo[t] = <<>>
      /\ emitted' = [emitted EXCEPT ![t] = emitted[t] + 1]
      /\ history' = Remembered(e)
      /\ owed' = [c \in Connections |-> IF c \in Subscribers THEN owed[c] \cup {e} ELSE owed[c]]
      /\ UNCHANGED <<conn, queue, got>>
  BY DEF StartBroadcast, Broadcasting, StreamTypeOK
<1>2. e \in Event /\ emitted[t] \in Nat
  BY DEF StreamTypeOK, Event
<1>3. PICK walk \in WalksOver(Subscribers) : todo' = [todo EXCEPT ![t] = walk]
  BY DEF StartBroadcast
<1>4. walk \in Seq(Connections) /\ Range(walk) = Subscribers /\ IsInjective(walk)
  <2>1. Cardinality(Subscribers) \in Nat
    BY StreamAssumption, FS_Subset, FS_CardinalityType DEF Subscribers
  <2>2. walk \in [1 .. Cardinality(Subscribers) -> Subscribers]
    BY DEF WalksOver, Bijection, Injection
  <2>3. Range(walk) = Subscribers
    BY <2>2 DEF WalksOver, Bijection, Surjection, Range
  <2>4. IsInjective(walk)
    BY <2>2 DEF WalksOver, Bijection, Injection, IsInjective
  <2>5. Subscribers \subseteq Connections
    BY DEF Subscribers
  <2>6. walk \in Seq(Connections)
    BY <2>1, <2>2, <2>5
  <2> QED
    BY <2>3, <2>4, <2>6
<1>5. history' \in Seq(Event) /\ \A i \in DOMAIN history' : history'[i] = e \/ \E j \in DOMAIN history : history'[i] = history[j]
  <2> DEFINE h == Append(history, e)
  <2>1. history \in Seq(Event)
    BY DEF StreamTypeOK
  <2>2. h \in Seq(Event) /\ h # <<>> /\ Range(h) = Range(history) \cup {e}
    BY <2>1, <1>2, AppendFacts
  <2>3. Tail(h) \in Seq(Event) /\ Range(Tail(h)) \subseteq Range(h)
    <3> HIDE DEF h
    <3> QED
      BY <2>2, TailFacts
  <2>4. history' \in {h, Tail(h)}
    BY <1>1 DEF Remembered
  <2>5. history' \in Seq(Event) /\ Range(history') \subseteq Range(history) \cup {e}
    BY <2>2, <2>3, <2>4
  <2> QED
    BY <2>5 DEF Range
<1>6. \A u \in Tasks : emitted'[u] = IF u = t THEN emitted[t] + 1 ELSE emitted[u]
  BY <1>1 DEF StreamTypeOK
<1>7. \A u \in Tasks : todo'[u] = IF u = t THEN walk ELSE todo[u]
  BY <1>3 DEF StreamTypeOK
<1>8. \A c \in Connections : owed'[c] = IF c \in Subscribers THEN owed[c] \cup {e} ELSE owed[c]
  BY <1>1
<1> HIDE DEF e
<1>9. StreamTypeOK'
  <2>1. \A c \in Connections : owed'[c] \subseteq Event
    BY <1>8, <1>2 DEF StreamTypeOK
  <2>2. owed' \in [Connections -> SUBSET Event]
    BY <1>1, <2>1
  <2>3. emitted' \in [Tasks -> Nat]
    BY <1>1, <1>2 DEF StreamTypeOK
  <2>4. todo' \in [Tasks -> Seq(Connections)]
    BY <1>3, <1>4 DEF StreamTypeOK
  <2> QED
    BY <1>1, <1>5, <2>2, <2>3, <2>4 DEF StreamTypeOK
<1>10. WalksPassOnce'
  BY <1>1, <1>4, <1>7 DEF WalksPassOnce, Subscribers
<1>11. NewIsBlank'
  BY <1>1, <1>8 DEF NewIsBlank, Subscribers
<1>12. \A d \in Event : d.no <= emitted[d.of] => d.no <= emitted'[d.of]
  <2> SUFFICES ASSUME NEW d \in Event, d.no <= emitted[d.of] PROVE d.no <= emitted'[d.of]
    OBVIOUS
  <2>1. d.of \in Tasks /\ d.no \in Nat
    BY DEF Event
  <2>2. emitted[d.of] \in Nat
    BY <2>1 DEF StreamTypeOK
  <2> QED
    BY <2>1, <2>2, <1>6
<1>13. e.of = t /\ e.no = emitted'[t] /\ e.no = emitted[t] + 1
  BY <1>6 DEF e
<1>14. NumbersArePast'
  <2>1. ASSUME NEW c \in Connections, NEW d \in owed'[c] PROVE d.no <= emitted'[d.of]
    <3>1. d = e \/ (d \in owed[c] /\ d \in Event)
      BY <1>8 DEF StreamTypeOK
    <3>2. e.no <= emitted'[e.of]
      BY <1>13, <1>2, <1>6
    <3> QED
      BY <3>1, <3>2, <1>12 DEF NumbersArePast
  <2>2. ASSUME NEW i \in DOMAIN history' PROVE history'[i].no <= emitted'[history'[i].of]
    <3>1. e.no <= emitted'[e.of]
      BY <1>13, <1>2, <1>6
    <3>2. \A j \in DOMAIN history : history[j] \in Event
      BY DEF StreamTypeOK
    <3> QED
      BY <1>5, <3>1, <3>2, <1>12 DEF NumbersArePast
  <2>3. ASSUME NEW u \in Tasks, todo'[u] # <<>> PROVE emitted'[u] # 0
    BY <2>3, <1>2, <1>6, <1>7 DEF NumbersArePast, Broadcasting
  <2> QED
    BY <2>1, <2>2, <2>3 DEF NumbersArePast, Broadcasting
<1>15. \A c \in Connections : e \notin owed[c]
  BY <1>13, <1>2 DEF NumbersArePast
<1>16. ASSUME NEW c \in Connections
       PROVE  InFlight(c)' = IF c \in Subscribers THEN InFlight(c) \cup {e} ELSE InFlight(c)
  <2>1. \A u \in Tasks \ {t} : LastEvent(u)' = LastEvent(u) /\ todo'[u] = todo[u]
    BY <1>6, <1>7 DEF LastEvent
  <2>2. LastEvent(t)' = e
    BY <1>6 DEF LastEvent, e
  <2>3. c \notin Range(todo[t]) /\ (c \in Range(todo'[t]) <=> c \in Subscribers)
    BY <1>1, <1>4, <1>7, RangeOfEmpty
  <2> QED
    BY <2>1, <2>2, <2>3 DEF InFlight
<1>17. ASSUME NEW c \in Connections PROVE Delivered(c)'
  <2>1. Delivered(c)
    BY DEF StatusDelivered, Delivered
  <2> QED
    BY <2>1, <1>1, <1>8, <1>15, <1>16 DEF Delivered
<1> QED
  BY <1>9, <1>10, <1>11, <1>14, <1>17 DEF StatusDelivered, Delivered

LEMMA PutKeeps ==
    ASSUME StreamInv, NEW t \in Tasks, Put(t)
    PROVE  StreamInv'
<1> USE DEF StreamInv
<1> DEFINE h == Head(todo[t])
           e == LastEvent(t)
<1>1. /\ todo[t] \in Seq(Connections) /\ todo[t] # <<>> /\ ~ Full(h)
      /\ queue' = [queue EXCEPT ![h] = Append(queue[h], e)]
      /\ todo' = [todo EXCEPT ![t] = Tail(todo[t])]
      /\ UNCHANGED <<conn, got, owed, emitted, history>>
  <2>1. todo[t] \in Seq(Connections) /\ todo[t] # <<>>
    BY DEF Put, Broadcasting, StreamTypeOK
  <2>2. h \in Connections
    BY <2>1
  <2> QED
    BY <2>1, <2>2 DEF Put, StreamTypeOK
<1>2. /\ h \in Connections /\ Tail(todo[t]) \in Seq(Connections)
      /\ Range(todo[t]) = {h} \cup Range(Tail(todo[t]))
      /\ IsInjective(Tail(todo[t])) /\ h \notin Range(Tail(todo[t]))
  BY <1>1, TailFacts DEF WalksPassOnce
<1>3. e \in Event /\ e.of = t
  BY <1>1 DEF LastEvent, Event, StreamTypeOK, NumbersArePast, Broadcasting
<1>4. queue[h] \in Seq(Event) /\ Len(queue[h]) <= QueueSize /\ Len(queue[h]) \in Nat
  BY <1>2 DEF StreamTypeOK
<1>5. /\ Append(queue[h], e) \in Seq(Event) /\ Len(Append(queue[h], e)) = Len(queue[h]) + 1
      /\ Range(Append(queue[h], e)) = Range(queue[h]) \cup {e}
      /\ IsInjective(queue[h]) /\ e \notin Range(queue[h]) => IsInjective(Append(queue[h], e))
  BY <1>3, <1>4, AppendFacts
<1>6. StreamTypeOK'
  <2>1. Len(Append(queue[h], e)) <= QueueSize
    BY <1>1, <1>4, <1>5, StreamAssumption DEF Full
  <2>2. queue' \in [Connections -> Seq(Event)]
    BY <1>1, <1>2, <1>5 DEF StreamTypeOK
  <2>3. \A c \in Connections : Len(queue'[c]) <= QueueSize
    BY <1>1, <1>2, <2>1 DEF StreamTypeOK
  <2>4. todo' \in [Tasks -> Seq(Connections)]
    BY <1>1, <1>2 DEF StreamTypeOK
  <2> QED
    BY <1>1, <2>2, <2>3, <2>4 DEF StreamTypeOK
<1>7. \A u \in Tasks : todo'[u] = IF u = t THEN Tail(todo[t]) ELSE todo[u]
  BY <1>1 DEF StreamTypeOK
<1>8. \A c \in Connections : queue'[c] = IF c = h THEN Append(queue[h], e) ELSE queue[c]
  BY <1>1, <1>2 DEF StreamTypeOK
<1>9. conn[h] # "new"
  BY <1>2 DEF WalksPassOnce
<1> HIDE DEF h
<1>10. WalksPassOnce'
  BY <1>1, <1>2, <1>7 DEF WalksPassOnce
<1>11. NewIsBlank'
  BY <1>1, <1>8, <1>9 DEF NewIsBlank
<1>12. NumbersArePast'
  BY <1>1, <1>7 DEF NumbersArePast, Broadcasting
<1>13. \A u \in Tasks : LastEvent(u)' = LastEvent(u) /\ (LastEvent(u) = e => u = t)
  BY <1>1 DEF LastEvent
<1>14. \A c \in Connections : InFlight(c)' = IF c = h THEN InFlight(c) \ {e} ELSE InFlight(c)
  BY <1>2, <1>7, <1>13 DEF InFlight
<1>15. e \in InFlight(h)
  BY <1>2 DEF InFlight
<1> HIDE DEF e
<1>16. ASSUME NEW c \in Connections PROVE Delivered(c)'
  <2>1. Delivered(c)
    BY DEF StatusDelivered, Delivered
  <2>2. CASE c = h
    BY <2>1, <2>2, <1>1, <1>5, <1>8, <1>14, <1>15 DEF Delivered
  <2>3. CASE c # h
    BY <2>1, <2>3, <1>1, <1>8, <1>14 DEF Delivered
  <2> QED
    BY <2>2, <2>3
<1> QED
  BY <1>6, <1>10, <1>11, <1>12, <1>16 DEF StatusDelivered, Delivered

LEMMA StreamInvIsInductive == StreamInv /\ [StreamNext]_streamVars => StreamInv'
<1> SUFFICES ASSUME StreamInv, [StreamNext]_streamVars PROVE StreamInv'
  OBVIOUS
<1>1. ASSUME NEW c \in Connections, Connect(c) PROVE StreamInv'
  BY <1>1, ConnectKeeps
<1>2. ASSUME NEW c \in Connections, Read(c) PROVE StreamInv'
  BY <1>2, ReadKeeps
<1>3. ASSUME NEW c \in Connections, Disconnect(c) PROVE StreamInv'
  BY <1>3, DisconnectKeeps
<1>4. ASSUME NEW t \in Tasks, StartBroadcast(t) PROVE StreamInv'
  BY <1>4, StartBroadcastKeeps
<1>5. ASSUME NEW t \in Tasks, Put(t) PROVE StreamInv'
  BY <1>5, PutKeeps
<1>6. CASE UNCHANGED streamVars
  BY <1>6 DEF streamVars, StreamInv, StreamTypeOK, WalksPassOnce, NewIsBlank, NumbersArePast,
      StatusDelivered, InFlight, LastEvent, Broadcasting
<1> QED
  BY <1>1, <1>2, <1>3, <1>4, <1>5, <1>6 DEF StreamNext

(* The inductive invariant holds of every run of the stream.               *)
LEMMA StreamInvHolds == StreamSpec => []StreamInv
BY InitInv, StreamInvIsInductive, PTL DEF StreamSpec

(* Queues stay within their size and hold events only.                     *)
THEOREM StreamTypeCorrect == StreamSpec => []StreamTypeOK
<1>1. StreamInv => StreamTypeOK
  BY DEF StreamInv
<1> QED
  BY <1>1, StreamInvHolds, PTL

(* However broadcasts, readers and departures of clients overlap, each     *)
(* connection gets what it is owed, once.                                  *)
THEOREM EveryStatusDelivered == StreamSpec => []StatusDelivered
<1>1. StreamInv => StatusDelivered
  BY DEF StreamInv
<1> QED
  BY <1>1, StreamInvHolds, PTL

-----------------------------------------------------------------------------
(* Every step of a call is a step of the stream, or none.                  *)
LEMMA CallStreams ==
    ASSUME NEW t \in Tasks, Call(t)
    PROVE  [StreamNext]_streamVars
<1>1. ASSUME NEW next, Emits(t, next) PROVE StreamNext
  BY <1>1 DEF Emits, StreamNext
<1>2. CASE Preflight(t)
  BY <1>1, <1>2 DEF Preflight
<1>3. CASE Quote(t)
  BY <1>1, <1>3 DEF Quote
<1>4. CASE AutoSwapped(t)
  BY <1>1, <1>4 DEF AutoSwapped
<1>5. CASE Transferred(t)
  BY <1>1, <1>5 DEF Transferred
<1>6. CASE PutStatus(t)
  BY <1>6 DEF PutStatus, StreamNext
<1>7. CASE Begin(t) \/ Screened(t) \/ ExecutePreflight(t) \/ Simulate(t) \/ Fund(t)
  BY <1>7 DEF Begin, Screened, ExecutePreflight, Simulate, Fund
<1>8. CASE Submit(t) \/ NodeFails(t) \/ TimesOut(t) \/ Approved(t) \/ Hop2(t) \/ Recheck(t)
  BY <1>8 DEF Submit, NodeFails, TimesOut, Approved, Hop2, Recheck
<1>9. CASE Executed(t) \/ Record(t) \/ Reward(t) \/ WaitForRoom(t) \/ StatusSent(t)
  BY <1>9 DEF Executed, Record, Reward, WaitForRoom, StatusSent
<1> QED
  BY <1>2, <1>3, <1>4, <1>5, <1>6, <1>7, <1>8, <1>9 DEF Call

LEMMA StepStreams == [Next]_vars => [StreamNext]_streamVars
<1> SUFFICES ASSUME [Next]_vars PROVE [StreamNext]_streamVars
  OBVIOUS
<1>1. ASSUME NEW t \in Tasks, Call(t) PROVE [StreamNext]_streamVars
  BY <1>1, CallStreams
<1>2. CASE Mine
  BY <1>2 DEF Mine
<1>3. ASSUME NEW c \in Connections, StreamReads(c) PROVE StreamNext
  BY <1>3 DEF StreamReads, StreamNext
<1>4. ASSUME NEW c \in Connections, StreamOpensOrCloses(c) PROVE StreamNext
  BY <1>4 DEF StreamOpensOrCloses, StreamNext
<1>5. CASE UNCHANGED vars
  BY <1>5 DEF vars
<1> QED
  BY <1>1, <1>2, <1>3, <1>4, <1>5 DEF Next

(* The transfers implement the specification of the stream: a transfer     *)
(* that waits for room, gives up the loop or ends breaks no broadcast.     *)
THEOREM TransfersUseTheStream == Spec => StreamSpec
<1>1. Init => StreamInit
  BY DEF Init
<1> QED
  BY <1>1, StepStreams, PTL DEF Spec, StreamSpec

(* The status events of transfers reach every connection they are owed to, *)
(* once.                                                                   *)
THEOREM TransferStatusDelivered == Spec => []StatusDelivered
BY TransfersUseTheStream, EveryStatusDelivered, PTL

-----------------------------------------------------------------------------
(* Type correctness, with the invariant of the stream.                     *)

Answer == {"none", "refused", "error", "insufficient", "reverted", "success"}
Hash == {"none", "mined", "simulated", "failed"}
Transaction == [of : Tasks, step : TxStep]

ControlOK ==
    /\ pc \in [Tasks -> Step] /\ then \in [Tasks -> Step]
    /\ loop \in Tasks \cup {Idle}
    /\ answer \in [Tasks -> Answer]
    /\ hash \in [Tasks -> Hash]

DataOK ==
    /\ request \in [Tasks -> Requests]
    /\ shortBy \in [Tasks -> Nat] /\ usdm \in [Tasks -> Nat]
    /\ wallet \in [Tokens -> Nat]
    /\ pending \in Seq(Transaction)
    /\ receipt \in [Tasks -> [TxStep -> Outcome \cup {"none"}]]
    /\ recorded \subseteq Tasks /\ rewarded \subseteq Tasks

TypeInv == StreamInv /\ ControlOK /\ DataOK

LEMMA RequestFacts ==
    ASSUME DataOK, NEW t \in Tasks
    PROVE  Token(t) \in Tokens /\ Amount(t) \in Nat \ {0} /\ request[t].buys \in Tokens
<1>1. request[t] \in RequestType
  BY TransferAssumption DEF DataOK
<1> QED
  BY <1>1 DEF RequestType, Token, Amount

LEMMA RangeOfPrepended ==
    ASSUME NEW S, NEW s \in Seq(S), NEW e \in S
    PROVE  Range(<<e>> \o s) = {e} \cup Range(s)
<1> DEFINE r == <<e>> \o s
<1>1. /\ Len(s) \in Nat /\ DOMAIN s = 1 .. Len(s) /\ DOMAIN r = 1 .. Len(s) + 1
      /\ r[1] = e /\ \A i \in 1 .. Len(s) : r[i + 1] = s[i]
  OBVIOUS
<1> HIDE DEF r
<1>2. ASSUME NEW i \in DOMAIN r PROVE r[i] = e \/ \E j \in DOMAIN s : r[i] = s[j]
  <2>1. CASE i = 1
    BY <2>1, <1>1
  <2>2. CASE i # 1
    <3>1. i - 1 \in 1 .. Len(s) /\ r[i] = s[i - 1]
      BY <2>2, <1>1
    <3> QED
      BY <3>1, <1>1
  <2> QED
    BY <2>1, <2>2
<1>3. ASSUME NEW j \in DOMAIN s PROVE j + 1 \in DOMAIN r /\ r[j + 1] = s[j]
  BY <1>1
<1>4. 1 \in DOMAIN r
  BY <1>1
<1>5. Range(r) = {r[i] : i \in DOMAIN r} /\ Range(s) = {s[j] : j \in DOMAIN s}
  BY DEF Range
<1>6. Range(r) \subseteq {e} \cup Range(s)
  BY <1>2, <1>5
<1>7. {e} \subseteq Range(r)
  BY <1>1, <1>4, <1>5
<1>8. Range(s) \subseteq Range(r)
  <2> SUFFICES ASSUME NEW j \in DOMAIN s
               PROVE  s[j] \in Range(r)
    BY <1>5
  <2> QED
    BY <1>3, <1>5
<1>9. Range(r) = {e} \cup Range(s)
  BY <1>6, <1>7, <1>8
<1> QED
  BY <1>9 DEF r

LEMMA EnqueuedFacts ==
    ASSUME NEW S, pending \in Seq(S), NEW tx \in S
    PROVE  /\ Enqueued(tx) \in Seq(S)
           /\ Range(Enqueued(tx)) \subseteq Range(pending) \cup {tx}
<1>1. CASE UsesLatestNonce(tx.step) /\ pending # <<>>
  <2>1. Tail(pending) \in Seq(S) /\ Range(Tail(pending)) \subseteq Range(pending)
    BY <1>1, TailFacts
  <2>2. <<tx>> \o Tail(pending) \in Seq(S)
    BY <2>1
  <2>3. Range(<<tx>> \o Tail(pending)) = {tx} \cup Range(Tail(pending))
    BY <2>1, RangeOfPrepended
  <2> QED
    BY <1>1, <2>1, <2>2, <2>3 DEF Enqueued
<1>2. CASE ~ (UsesLatestNonce(tx.step) /\ pending # <<>>)
  BY <1>2, AppendFacts DEF Enqueued
<1> QED
  BY <1>1, <1>2

(* Control: what a call may go to, answer and record.                      *)
LEMMA StepFacts ==
    /\ TxStep \subseteq Step /\ AutoSwap \subseteq TxStep /\ Execute \subseteq TxStep
    /\ "transfer" \in TxStep /\ "approveIn" \in TxStep /\ "swapIn" \in TxStep
    /\ "approveCelo" \in TxStep /\ "swapCelo" \in TxStep
    /\ "approveUsdm" \in TxStep /\ "swapUsdm" \in TxStep
    /\ "idle" \in Step /\ "screening" \in Step /\ "preflight" \in Step /\ "quote" \in Step
    /\ "fund" \in Step /\ "hop2" \in Step /\ "recheck" \in Step /\ "record" \in Step
    /\ "reward" \in Step /\ "done" \in Step /\ "emit" \in Step /\ "wait" \in Step
BY DEF Step, TxStep, AutoSwap, Execute

LEMMA GoesOnOK ==
    ASSUME ControlOK, NEW t \in Tasks, NEW s \in Step, GoesOn(t, s) \/ Yields(t, s),
           hash' \in [Tasks -> Hash]
    PROVE  ControlOK'
BY DEF ControlOK, GoesOn, Yields, Goes

LEMMA AnswersOK ==
    ASSUME ControlOK, NEW t \in Tasks, NEW a \in Answer, Answers(t, a),
           hash' \in [Tasks -> Hash]
    PROVE  ControlOK'
BY StepFacts DEF ControlOK, Answers, Goes

LEMMA EmitsOK ==
    ASSUME ControlOK, NEW t \in Tasks, NEW s \in Step, Emits(t, s),
           hash' \in [Tasks -> Hash]
    PROVE  ControlOK'
BY StepFacts DEF ControlOK, Emits, Goes

LEMMA FailsOK ==
    ASSUME ControlOK, NEW t \in Tasks, NEW a \in Answer, Fails(t, a)
    PROVE  ControlOK'
<1>1. "failed" \in Hash
  BY DEF Hash
<1>2. hash' \in [Tasks -> Hash]
  BY <1>1 DEF Fails, ControlOK
<1> QED
  BY <1>2, StepFacts, AnswersOK, GoesOnOK DEF Fails

LEMMA CallKeepsControl ==
    ASSUME ControlOK, NEW t \in Tasks, Call(t)
    PROVE  ControlOK'
<1>1. /\ "refused" \in Answer /\ "error" \in Answer /\ "insufficient" \in Answer
      /\ "reverted" \in Answer /\ "success" \in Answer /\ "mined" \in Hash /\ "simulated" \in Hash
  BY DEF Answer, Hash
<1>2. /\ hash' = hash => hash' \in [Tasks -> Hash]
      /\ hash' = [hash EXCEPT ![t] = "mined"] => hash' \in [Tasks -> Hash]
      /\ hash' = [hash EXCEPT ![t] = "simulated"] => hash' \in [Tasks -> Hash]
  BY <1>1 DEF ControlOK
<1>3. then[t] \in Step /\ pc[t] \in Step
  BY DEF ControlOK
<1>4. CASE Begin(t)
  BY <1>4, <1>1, <1>2, StepFacts, AnswersOK, GoesOnOK DEF Begin
<1>5. CASE Screened(t)
  <2>1. CASE Answers(t, "refused")
    BY <1>5, <2>1, <1>1, <1>2, AnswersOK DEF Screened
  <2>2. CASE Goes(t, "preflight") /\ loop' = t /\ UNCHANGED <<then, answer>>
    BY <1>5, <2>2, StepFacts DEF Screened, Goes, ControlOK
  <2> QED
    BY <1>5, <2>1, <2>2 DEF Screened
<1>6. CASE ExecutePreflight(t)
  BY <1>6, <1>1, <1>2, StepFacts, GoesOnOK, FailsOK DEF ExecutePreflight
<1>7. CASE Simulate(t)
  BY <1>7, <1>2, StepFacts, GoesOnOK DEF Simulate
<1>8. CASE Preflight(t)
  BY <1>8, <1>2, StepFacts, GoesOnOK, EmitsOK DEF Preflight
<1>9. CASE Quote(t)
  BY <1>9, <1>1, <1>2, StepFacts, AnswersOK, EmitsOK DEF Quote
<1>10. CASE Fund(t)
  BY <1>10, <1>1, <1>2, StepFacts, AnswersOK, GoesOnOK DEF Fund
<1>11. CASE Submit(t)
  BY <1>11, <1>3, StepFacts DEF Submit, Goes, ControlOK
<1>12. CASE NodeFails(t) \/ TimesOut(t)
  BY <1>12, <1>1, FailsOK DEF NodeFails, TimesOut, Raises
<1>13. CASE Approved(t)
  BY <1>13, <1>1, <1>2, StepFacts, AnswersOK, GoesOnOK DEF Approved
<1>14. CASE AutoSwapped(t)
  BY <1>14, <1>1, <1>2, StepFacts, AnswersOK, EmitsOK DEF AutoSwapped
<1>15. CASE Hop2(t)
  BY <1>15, <1>1, <1>2, StepFacts, AnswersOK, GoesOnOK DEF Hop2
<1>16. CASE Recheck(t)
  BY <1>16, <1>1, <1>2, StepFacts, AnswersOK, GoesOnOK DEF Recheck
<1>17. CASE Transferred(t)
  BY <1>17, <1>1, <1>2, StepFacts, AnswersOK, EmitsOK DEF Transferred
<1>18. CASE Executed(t)
  BY <1>18, <1>1, <1>2, StepFacts, FailsOK, GoesOnOK DEF Executed
<1>19. CASE Record(t)
  BY <1>19, <1>1, <1>2, StepFacts, AnswersOK, GoesOnOK DEF Record
<1>20. CASE Reward(t)
  BY <1>20, <1>1, <1>2, AnswersOK DEF Reward
<1>21. CASE PutStatus(t) \/ WaitForRoom(t)
  BY <1>21 DEF PutStatus, WaitForRoom, callVars, ControlOK
<1>22. CASE StatusSent(t)
  BY <1>22, <1>2, <1>3, GoesOnOK DEF StatusSent
<1> QED
  BY <1>4, <1>5, <1>6, <1>7, <1>8, <1>9, <1>10, <1>11, <1>12, <1>13, <1>14, <1>15, <1>16, <1>17,
     <1>18, <1>19, <1>20, <1>21, <1>22 DEF Call

(* The amounts, transactions and books of a call.                          *)
LEMMA CallKeepsData ==
    ASSUME ControlOK, DataOK, NEW t \in Tasks, Call(t)
    PROVE  DataOK'
<1>1. CASE Begin(t) \/ Screened(t) \/ ExecutePreflight(t) \/ Simulate(t) \/ Fund(t) \/ Recheck(t)
  BY <1>1 DEF Begin, Screened, ExecutePreflight, Simulate, Fund, Recheck, chainVars, bookVars, DataOK
<1>2. CASE Preflight(t)
  <2>1. ~ (wallet[Token(t)] >= Amount(t)) => Amount(t) - wallet[Token(t)] \in Nat
    BY RequestFacts DEF DataOK
  <2>2. shortBy' \in [Tasks -> Nat]
    BY <1>2, <2>1 DEF Preflight, DataOK
  <2> QED
    BY <1>2, <2>2 DEF Preflight, chainVars, bookVars, DataOK
<1>3. CASE Quote(t)
  <2>1. shortBy[t] + Margin \in Nat
    BY TransferAssumption DEF DataOK
  <2>2. usdm' \in [Tasks -> Nat]
    BY <1>3, <2>1 DEF Quote, DataOK
  <2> QED
    BY <1>3, <2>2 DEF Quote, chainVars, bookVars, DataOK
<1>4. CASE Submit(t)
  <2>1. Tx(t, pc[t]) \in Transaction
    BY <1>4 DEF Submit, Tx, Transaction
  <2>2. pending' \in Seq(Transaction)
    BY <1>4, <2>1, EnqueuedFacts DEF Submit, DataOK
  <2> QED
    BY <1>4, <2>2 DEF Submit, bookVars, DataOK
<1>5. CASE NodeFails(t) \/ TimesOut(t) \/ Approved(t) \/ AutoSwapped(t) \/ Transferred(t) \/ Executed(t)
  BY <1>5 DEF NodeFails, TimesOut, Approved, AutoSwapped, Transferred, Executed, chainVars, bookVars, DataOK
<1>6. CASE Hop2(t)
  <2>1. wallet["USDm"] \in Nat
    BY TransferAssumption DEF DataOK
  <2>2. usdm' \in [Tasks -> Nat]
    BY <1>6, <2>1 DEF Hop2, DataOK
  <2> QED
    BY <1>6, <2>2 DEF Hop2, chainVars, bookVars, DataOK
<1>7. CASE Record(t) \/ Reward(t)
  BY <1>7 DEF Record, Reward, chainVars, DataOK
<1>8. CASE PutStatus(t) \/ WaitForRoom(t) \/ StatusSent(t)
  BY <1>8 DEF PutStatus, WaitForRoom, StatusSent, callVars, chainVars, bookVars, DataOK
<1> QED
  BY <1>1, <1>2, <1>3, <1>4, <1>5, <1>6, <1>7, <1>8 DEF Call

(* The chain moves what the wallet holds.                                  *)
LEMMA MineKeepsTypes ==
    ASSUME DataOK, Mine
    PROVE  DataOK'
<1> DEFINE tx == Head(pending)
<1>1. tx \in Transaction /\ Tail(pending) \in Seq(Transaction)
  BY TailFacts DEF Mine, DataOK
<1>2. tx.of \in Tasks /\ tx.step \in TxStep
  BY <1>1 DEF Transaction
<1>3. /\ Token(tx.of) \in Tokens /\ Amount(tx.of) \in Nat /\ request[tx.of].buys \in Tokens
      /\ "CELO" \in Tokens /\ "USDm" \in Tokens
  BY <1>2, RequestFacts, TransferAssumption
<1>4. PICK o \in Outcome : receipt' = [receipt EXCEPT ![tx.of][tx.step] = o]
  BY DEF Mine, Outcome
<1>5. receipt' \in [Tasks -> [TxStep -> Outcome \cup {"none"}]]
  BY <1>2, <1>4 DEF DataOK
<1> HIDE DEF tx
<1>6. CeloIn(tx.of) \in Nat /\ usdm[tx.of] \in Nat
  BY <1>2, TransferAssumption DEF CeloIn, DataOK
<1>7. Sells(tx).token \in Tokens /\ Sells(tx).amount \in Nat /\ Buys(tx) \in Tokens
  BY <1>3, <1>6 DEF Sells, Buys
<1>8. ASSUME Covered(tx), NEW slip \in 0 .. MaxSlip, slip <= Sells(tx).amount
      PROVE  Applied(tx, slip) \in [Tokens -> Nat]
  <2>1. CASE ~ MovesTokens(tx)
    BY <2>1 DEF Applied, MovesTokens, DataOK
  <2>2. CASE MovesTokens(tx)
    <3> DEFINE sold == Sells(tx)
               left == [wallet EXCEPT ![sold.token] = wallet[sold.token] - sold.amount]
    <3>1. left \in [Tokens -> Nat]
      BY <2>2, <1>7, <1>8 DEF Covered, DataOK
    <3>2. sold.amount - slip \in Nat
      BY <1>7, <1>8, TransferAssumption
    <3>3. [left EXCEPT ![Buys(tx)] = left[Buys(tx)] + (sold.amount - slip)] \in [Tokens -> Nat]
      BY <3>1, <3>2, <1>7
    <3>4. CASE tx.step = "transfer"
      BY <2>2, <3>1, <3>4 DEF Applied
    <3>5. CASE tx.step # "transfer"
      <4>1. Applied(tx, slip) = [left EXCEPT ![Buys(tx)] = left[Buys(tx)] + (sold.amount - slip)]
        BY <2>2, <3>5 DEF Applied
      <4> QED
        BY <3>3, <4>1
    <3> QED
      BY <3>4, <3>5
  <2> QED
    BY <2>1, <2>2
<1>9. wallet' \in [Tokens -> Nat]
  BY <1>8 DEF Mine, tx, DataOK
<1> QED
  BY <1>1, <1>5, <1>9 DEF Mine, DataOK, callVars, bookVars

LEMMA InitTypes == Init => TypeInv
<1> SUFFICES ASSUME Init PROVE TypeInv
  OBVIOUS
<1>1. StreamInv
  BY InitInv DEF Init
<1>2. ControlOK /\ DataOK
  BY TransferAssumption, StepFacts DEF Init, ControlOK, DataOK, Answer, Hash
<1> QED
  BY <1>1, <1>2 DEF TypeInv

LEMMA TypesAreInductive == TypeInv /\ [Next]_vars => TypeInv'
<1> SUFFICES ASSUME TypeInv, [Next]_vars PROVE TypeInv'
  OBVIOUS
<1>1. StreamInv'
  BY StepStreams, StreamInvIsInductive DEF TypeInv
<1>2. ASSUME NEW t \in Tasks, Call(t) PROVE ControlOK' /\ DataOK'
  BY <1>2, CallKeepsControl, CallKeepsData DEF TypeInv
<1>3. ASSUME Mine PROVE ControlOK' /\ DataOK'
  BY <1>3, MineKeepsTypes DEF TypeInv, Mine, callVars, ControlOK
<1>4. ASSUME NEW c \in Connections, StreamReads(c) \/ StreamOpensOrCloses(c)
      PROVE  ControlOK' /\ DataOK'
  BY <1>4 DEF TypeInv, ControlOK, DataOK, Answer, Hash, Transaction, StreamReads, StreamOpensOrCloses, callVars, chainVars, bookVars
<1>5. ASSUME UNCHANGED vars PROVE ControlOK' /\ DataOK'
  BY <1>5 DEF TypeInv, ControlOK, DataOK, Answer, Hash, Transaction, vars, callVars, chainVars, bookVars
<1>6. ControlOK' /\ DataOK'
  BY <1>1, <1>2, <1>3, <1>4, <1>5 DEF Next
<1> QED
  BY <1>1, <1>6 DEF TypeInv

(* Balances stay natural numbers and every call at a step of its program,  *)
(* for any requests, funds, margin and slippage.                           *)
THEOREM TransferTypesCorrect == Spec => []TypeOK
<1>1. TypeInv => TypeOK
  BY DEF TypeInv, StreamInv, ControlOK, DataOK, Answer, Hash, Transaction, TypeOK
<1>2. Spec => []TypeInv
  BY InitTypes, TypesAreInductive, PTL DEF Spec
<1> QED
  BY <1>1, <1>2, PTL

-----------------------------------------------------------------------------
(* What send_token answers.  The invariant follows a call from the steps   *)
(* before its transfer, when it can be refused, to the receipt: it sends   *)
(* its transfer once, and what it records of it is what the receipt says.  *)

Once(x, q) == \A i, j \in DOMAIN q : q[i] = x /\ q[j] = x => i = j
Transfer(t) == Tx(t, "transfer")
Sent(t) == Out(t) \/ receipt[t]["transfer"] # "none"

Early == {"idle", "screening", "preflight", "quote", "fund", "hop2", "recheck", "transfer"} \cup AutoSwap
Late == {"record", "reward", "done"}
BeforeTransfer(t) ==
    \/ pc[t] \in Early
    \/ pc[t] = "emit" /\ then[t] \in Early
    \/ pc[t] = "wait" /\ then[t] \in AutoSwap
AfterTransfer(t) == pc[t] \in {"record", "reward"} \/ (pc[t] = "emit" /\ then[t] = "record")

OnItsWay(t) ==
    /\ pc[t] \in Early \cup Late \cup {"emit", "wait"}
    /\ pc[t] = "emit" => then[t] \in Early \cup {"record"}
    /\ pc[t] = "wait" => then[t] \in AutoSwap \cup {"transfer"}

Honest(t) ==
    /\ Once(Transfer(t), pending)
    /\ Out(t) => receipt[t]["transfer"] = "none"
    /\ OnItsWay(t)
    /\ BeforeTransfer(t) => ~ Sent(t)
    /\ pc[t] # "done" => answer[t] = "none"
    /\ hash[t] = "mined" => receipt[t]["transfer"] = "ok"
    /\ AfterTransfer(t) \/ t \in rewarded => hash[t] \in {"mined", "simulated"}
    /\ answer[t] = "reverted" => receipt[t]["transfer"] \in {"reverted", "short"}
    /\ answer[t] \in {"refused", "insufficient"} => ~ Sent(t)

HonestInv == TypeInv /\ \A t \in Tasks : Sends(t) => Honest(t)

LEMMA OutIsInPending == \A t : Out(t) <=> Transfer(t) \in Range(pending)
BY DEF Out, Transfer, Range

(* A transaction that is out once, or is the new one and was not out, is   *)
(* out once afterwards.                                                    *)
LEMMA EnqueuedOnce ==
    ASSUME NEW S, pending \in Seq(S), NEW tx \in S, NEW x, Once(x, pending),
           x # tx \/ x \notin Range(pending)
    PROVE  Once(x, Enqueued(tx))
<1>1. CASE UsesLatestNonce(tx.step) /\ pending # <<>>
  <2> DEFINE r == Tail(pending)
             q == <<tx>> \o r
  <2>1. /\ r \in Seq(S) /\ Len(r) \in Nat /\ Len(pending) = Len(r) + 1
        /\ DOMAIN pending = 1 .. Len(r) + 1 /\ DOMAIN r = 1 .. Len(r)
        /\ \A i \in 1 .. Len(r) : r[i] = pending[i + 1]
    BY <1>1
  <2>2. /\ DOMAIN q = 1 .. Len(r) + 1 /\ q[1] = tx
        /\ \A i \in 2 .. Len(r) + 1 : q[i] = r[i - 1]
    BY <2>1
  <2> HIDE DEF r, q
  <2>3. \A i \in 2 .. Len(r) + 1 : i - 1 \in 1 .. Len(r) /\ (i - 1) + 1 = i
    BY <2>1
  <2>4. \A i \in 2 .. Len(r) + 1 : q[i] = pending[i] /\ i \in DOMAIN pending
    BY <2>1, <2>2, <2>3
  <2>5. \A i \in DOMAIN q : q[i] = x => (q[i] = pending[i] /\ i \in DOMAIN pending) \/ x = tx
    BY <2>2, <2>4
  <2>6. CASE x = tx
    <3>1. \A i \in DOMAIN q : q[i] = x => i = 1
      BY <2>1, <2>2, <2>4, <2>6 DEF Range
    <3> QED
      BY <3>1, <1>1 DEF Once, Enqueued, q, r
  <2>7. CASE x # tx
    <3>1. Once(x, q)
      BY <2>5, <2>7 DEF Once
    <3> QED
      BY <3>1, <1>1 DEF Enqueued, q, r
  <2> QED
    BY <2>6, <2>7
<1>2. CASE ~ (UsesLatestNonce(tx.step) /\ pending # <<>>)
  <2> DEFINE q == Append(pending, tx)
  <2>1. /\ Len(pending) \in Nat /\ DOMAIN pending = 1 .. Len(pending)
        /\ DOMAIN q = 1 .. Len(pending) + 1 /\ q[Len(pending) + 1] = tx
        /\ \A i \in 1 .. Len(pending) : q[i] = pending[i]
    OBVIOUS
  <2> HIDE DEF q
  <2>2. CASE x = tx
    <3>1. \A i \in DOMAIN q : q[i] = x => i = Len(pending) + 1
      BY <2>1, <2>2 DEF Range
    <3> QED
      BY <3>1, <1>2 DEF Once, Enqueued, q
  <2>3. CASE x # tx
    <3>1. Once(x, q)
      BY <2>1, <2>3 DEF Once
    <3> QED
      BY <3>1, <1>2 DEF Enqueued, q
  <2> QED
    BY <2>2, <2>3
<1> QED
  BY <1>1, <1>2

LEMMA TailOnce ==
    ASSUME NEW S, NEW s \in Seq(S), s # <<>>, NEW x, Once(x, s)
    PROVE  Once(x, Tail(s)) /\ (Head(s) = x => x \notin Range(Tail(s)))
<1>1. /\ Len(s) \in Nat \ {0} /\ Head(s) = s[1]
      /\ DOMAIN s = 1 .. Len(s) /\ DOMAIN Tail(s) = 1 .. Len(s) - 1
      /\ \A i \in 1 .. Len(s) - 1 : Tail(s)[i] = s[i + 1]
  OBVIOUS
<1>2. \A i \in 1 .. Len(s) - 1 : i + 1 \in DOMAIN s /\ i + 1 # 1
  BY <1>1
<1>3. Once(x, Tail(s))
  BY <1>1, <1>2 DEF Once
<1>4. Head(s) = x => x \notin Range(Tail(s))
  BY <1>1, <1>2 DEF Once, Range
<1> QED
  BY <1>3, <1>4

(* The moves of a call, at the call.                                       *)
LEMMA Moves ==
    ASSUME ControlOK, NEW t \in Tasks
    PROVE  /\ \A s : GoesOn(t, s) \/ Yields(t, s) =>
                    pc'[t] = s /\ then'[t] = then[t] /\ answer'[t] = answer[t]
           /\ \A a : Answers(t, a) => pc'[t] = "done" /\ answer'[t] = a
           /\ \A s : Emits(t, s) => pc'[t] = "emit" /\ then'[t] = s /\ answer'[t] = answer[t]
BY DEF GoesOn, Yields, Answers, Emits, Goes, ControlOK

(* A call moves nothing of another call.                                   *)
LEMMA CallIsItsOwn ==
    ASSUME ControlOK, NEW t \in Tasks, NEW u \in Tasks \ {t}, Call(t)
    PROVE  /\ pc'[u] = pc[u] /\ then'[u] = then[u] /\ answer'[u] = answer[u] /\ hash'[u] = hash[u]
           /\ u \in rewarded' <=> u \in rewarded
<1>1. /\ \A s : GoesOn(t, s) \/ Yields(t, s) =>
                pc'[u] = pc[u] /\ then'[u] = then[u] /\ answer'[u] = answer[u]
      /\ \A a : Answers(t, a) => pc'[u] = pc[u] /\ then'[u] = then[u] /\ answer'[u] = answer[u]
      /\ \A s : Emits(t, s) => pc'[u] = pc[u] /\ then'[u] = then[u] /\ answer'[u] = answer[u]
  BY DEF GoesOn, Yields, Answers, Emits, Goes, ControlOK
<1>2. \A a : Fails(t, a) => /\ pc'[u] = pc[u] /\ then'[u] = then[u] /\ answer'[u] = answer[u]
                            /\ hash'[u] = hash[u]
  BY <1>1 DEF Fails, ControlOK
<1>3. CASE Begin(t) \/ Fund(t) \/ Recheck(t) \/ Hop2(t) \/ Approved(t)
  BY <1>3, <1>1 DEF Begin, Fund, Recheck, Hop2, Approved, bookVars
<1>4. CASE Screened(t)
  BY <1>4, <1>1 DEF Screened, bookVars, Goes, ControlOK
<1>5. CASE ExecutePreflight(t) \/ NodeFails(t) \/ TimesOut(t)
  BY <1>5, <1>1, <1>2 DEF ExecutePreflight, NodeFails, TimesOut, Raises, bookVars
<1>6. CASE Simulate(t) \/ Executed(t)
  BY <1>6, <1>1, <1>2 DEF Simulate, Executed, bookVars, ControlOK
<1>7. CASE Preflight(t) \/ Quote(t) \/ AutoSwapped(t)
  BY <1>7, <1>1 DEF Preflight, Quote, AutoSwapped, bookVars
<1>8. CASE Submit(t)
  BY <1>8 DEF Submit, Goes, bookVars, ControlOK
<1>9. CASE Transferred(t)
  BY <1>9, <1>1 DEF Transferred, bookVars, ControlOK
<1>10. CASE Record(t) \/ Reward(t)
  BY <1>10, <1>1 DEF Record, Reward
<1>11. CASE PutStatus(t) \/ WaitForRoom(t)
  BY <1>11 DEF PutStatus, WaitForRoom, callVars, bookVars
<1>12. CASE StatusSent(t)
  BY <1>12, <1>1 DEF StatusSent, bookVars
<1> QED
  BY <1>3, <1>4, <1>5, <1>6, <1>7, <1>8, <1>9, <1>10, <1>11, <1>12 DEF Call

LEMMA CallKeepsRequest == \A t \in Tasks : Call(t) => request' = request
BY DEF Call, Begin, Screened, ExecutePreflight, Simulate, Preflight, Quote, Fund, Submit, NodeFails,
       TimesOut, Approved, AutoSwapped, Hop2, Recheck, Transferred, Executed, Record, Reward,
       PutStatus, WaitForRoom, StatusSent, callVars

LEMMA CallKeepsChain ==
    \A t \in Tasks : Call(t) /\ ~ Submit(t) => UNCHANGED <<pending, receipt>>
BY DEF Call, Begin, Screened, ExecutePreflight, Simulate, Preflight, Quote, Fund, NodeFails,
       TimesOut, Approved, AutoSwapped, Hop2, Recheck, Transferred, Executed, Record, Reward,
       PutStatus, WaitForRoom, StatusSent, chainVars

(* While nothing is sent or mined, a call is honest by where it goes.      *)
LEMMA HonestByControl ==
    ASSUME NEW t \in Tasks, Honest(t), UNCHANGED <<pending, receipt>>,
           OnItsWay(t)', BeforeTransfer(t)' => BeforeTransfer(t),
           pc'[t] # "done" => answer'[t] = "none",
           hash'[t] = "mined" => receipt[t]["transfer"] = "ok",
           AfterTransfer(t)' \/ t \in rewarded' => hash'[t] \in {"mined", "simulated"},
           answer'[t] = "reverted" => receipt[t]["transfer"] \in {"reverted", "short"},
           answer'[t] \in {"refused", "insufficient"} => ~ Sent(t)
    PROVE  Honest(t)'
<1>1. /\ Once(Transfer(t), pending)' /\ (Out(t)' <=> Out(t)) /\ (Sent(t)' <=> Sent(t))
      /\ receipt' = receipt
  BY DEF Honest, Once, Transfer, Tx, Out, Sent
<1> QED
  BY <1>1 DEF Honest

(* A call that waits for its transfer goes on to "record" with the receipt *)
(* of it, or ends.                                                         *)
LEMMA OwnStepHonest ==
    ASSUME TypeInv, NEW t \in Tasks, Sends(t), Honest(t), Call(t), ~ Submit(t)
    PROVE  Honest(t)'
<1> USE DEF TypeInv
<1> DEFINE Same == UNCHANGED <<pending, receipt, rewarded>>
<1>1. ASSUME Same, hash' = hash, BeforeTransfer(t), pc'[t] \in Early, answer'[t] = answer[t]
      PROVE  Honest(t)'
  BY <1>1, HonestByControl DEF Honest, OnItsWay, BeforeTransfer, AfterTransfer, Early, AutoSwap, Late
<1>2. ASSUME Same, hash' = hash, BeforeTransfer(t), pc'[t] = "emit", then'[t] \in Early,
             answer'[t] = answer[t]
      PROVE  Honest(t)'
  BY <1>2, HonestByControl DEF Honest, OnItsWay, BeforeTransfer, AfterTransfer, Early, AutoSwap
<1>3. ASSUME Same, hash' = hash, BeforeTransfer(t), NEW a \in {"refused", "error", "insufficient"},
             Answers(t, a)
      PROVE  Honest(t)'
  <2>1. pc'[t] = "done" /\ answer'[t] = a
    BY <1>3, Moves
  <2> QED
    BY <1>3, <2>1, HonestByControl
       DEF Honest, OnItsWay, BeforeTransfer, AfterTransfer, Early, AutoSwap, Late
<1>4. CASE Begin(t) \/ Screened(t)
  <2>1. Same /\ hash' = hash /\ pc[t] \in {"idle", "screening"}
    BY <1>4 DEF Begin, Screened, chainVars, bookVars
  <2>2. BeforeTransfer(t)
    BY <2>1 DEF BeforeTransfer, Early
  <2>3. Answers(t, "refused") \/ (pc'[t] \in {"screening", "preflight"} /\ answer'[t] = answer[t])
    BY <1>4, Moves DEF Begin, Screened, Goes, ControlOK
  <2> QED
    BY <2>1, <2>2, <2>3, <1>1, <1>3 DEF Early
<1>5. CASE Preflight(t) \/ Quote(t) \/ Fund(t) \/ Hop2(t) \/ Recheck(t)
  <2>1. Same /\ hash' = hash /\ pc[t] \in {"preflight", "quote", "fund", "hop2", "recheck"}
    BY <1>5 DEF Preflight, Quote, Fund, Hop2, Recheck, Runs, chainVars, bookVars
  <2>2. BeforeTransfer(t)
    BY <2>1 DEF BeforeTransfer, Early
  <2>3. \/ GoesOn(t, "transfer") \/ GoesOn(t, "approveCelo") \/ GoesOn(t, "approveUsdm")
        \/ Emits(t, "quote") \/ Emits(t, "approveCelo") \/ Emits(t, "fund")
        \/ Answers(t, "error") \/ Answers(t, "insufficient")
    BY <1>5 DEF Preflight, Quote, Fund, Hop2, Recheck
  <2>4. \/ pc'[t] \in Early /\ answer'[t] = answer[t]
        \/ pc'[t] = "emit" /\ then'[t] \in Early /\ answer'[t] = answer[t]
        \/ Answers(t, "error") \/ Answers(t, "insufficient")
    BY <2>3, Moves DEF Early, AutoSwap
  <2> QED
    BY <2>1, <2>2, <2>4, <1>1, <1>2, <1>3
<1>6. CASE Approved(t) \/ AutoSwapped(t)
  <2>1. Same /\ hash' = hash /\ pc[t] = "wait"
    BY <1>6 DEF Approved, AutoSwapped, Mined, Runs, chainVars, bookVars
  <2>2. then[t] \in AutoSwap \cup {"transfer"}
    BY <2>1 DEF Honest, OnItsWay
  <2>3. then[t] \in {"approveCelo", "approveUsdm", "approveIn", "swapCelo", "swapUsdm"}
    BY <1>6 DEF Approved, AutoSwapped, Mined
  <2>4. BeforeTransfer(t) /\ then[t] # "approveIn"
    BY <2>1, <2>2, <2>3 DEF BeforeTransfer, AutoSwap
  <2>5. \/ GoesOn(t, "swapCelo") \/ GoesOn(t, "swapUsdm")
        \/ Emits(t, "hop2") \/ Emits(t, "recheck") \/ Answers(t, "error")
    BY <1>6, <2>4 DEF Approved, AutoSwapped, Mined
  <2>6. \/ pc'[t] \in Early /\ answer'[t] = answer[t]
        \/ pc'[t] = "emit" /\ then'[t] \in Early /\ answer'[t] = answer[t]
        \/ Answers(t, "error")
    BY <2>5, Moves DEF Early, AutoSwap
  <2> QED
    BY <2>1, <2>4, <2>6, <1>1, <1>2, <1>3
<1>7. CASE NodeFails(t) \/ TimesOut(t)
  <2>1. Same /\ hash' = hash /\ (Answers(t, "error") \/ Answers(t, "insufficient"))
    BY <1>7 DEF NodeFails, TimesOut, Raises, Fails, chainVars, bookVars
  <2>2. CASE BeforeTransfer(t)
    BY <2>1, <2>2, <1>3
  <2>3. CASE ~ BeforeTransfer(t)
    <3>1. Answers(t, "error")
      <4>1. CASE NodeFails(t)
        <5>1. pc[t] \in Early
          BY <4>1 DEF NodeFails, Honest, OnItsWay, Late, TxStep, Execute, InAutoSwap, AutoSwap, Early
        <5> QED
          BY <5>1, <2>3 DEF BeforeTransfer
      <4>2. CASE TimesOut(t)
        <5>1. pc[t] = "wait" /\ then[t] = "transfer"
          BY <4>2, <2>3 DEF TimesOut, Runs, Honest, OnItsWay, BeforeTransfer
        <5> QED
          BY <4>2, <5>1 DEF TimesOut, Raises, Fails, InAutoSwap, AutoSwap
      <4> QED
        BY <1>7, <4>1, <4>2
    <3>2. pc'[t] = "done" /\ answer'[t] = "error"
      BY <3>1, Moves
    <3> QED
      BY <2>1, <3>2, HonestByControl
         DEF Honest, OnItsWay, BeforeTransfer, AfterTransfer, Early, AutoSwap, Late
  <2> QED
    BY <2>2, <2>3
<1>8. CASE Simulate(t)
  <2>1. Same /\ hash'[t] = "simulated" /\ pc[t] = "preflight"
    BY <1>8 DEF Simulate, Runs, chainVars, bookVars, ControlOK
  <2>2. pc'[t] = "record" /\ answer'[t] = answer[t]
    BY <1>8, Moves DEF Simulate
  <2> QED
    BY <2>1, <2>2, HonestByControl
       DEF Honest, OnItsWay, BeforeTransfer, AfterTransfer, Early, AutoSwap, Late
<1>9. CASE Transferred(t)
  <2>1. Same /\ pc[t] = "wait" /\ then[t] = "transfer" /\ receipt[t]["transfer"] # "none"
    BY <1>9 DEF Transferred, Mined, Runs, chainVars, bookVars
  <2>2. CASE Succeeded(t, "transfer")
    <3>1. hash'[t] = "mined" /\ receipt[t]["transfer"] = "ok"
      BY <1>9, <2>2 DEF Transferred, Succeeded, ControlOK
    <3>2. pc'[t] = "emit" /\ then'[t] = "record" /\ answer'[t] = answer[t]
      BY <1>9, <2>2, Moves DEF Transferred
    <3> QED
      BY <2>1, <3>1, <3>2, HonestByControl
         DEF Honest, OnItsWay, BeforeTransfer, AfterTransfer, Early, AutoSwap
  <2>3. CASE ~ Succeeded(t, "transfer")
    <3>1. hash' = hash /\ pc'[t] = "done" /\ answer'[t] = "reverted"
      BY <1>9, <2>3, Moves DEF Transferred
    <3>2. receipt[t]["transfer"] \in {"reverted", "short"}
      BY <2>1, <2>3 DEF Succeeded, DataOK, Outcome, TxStep
    <3> QED
      BY <2>1, <3>1, <3>2, HonestByControl
         DEF Honest, OnItsWay, BeforeTransfer, AfterTransfer, Early, AutoSwap, Late
  <2> QED
    BY <2>2, <2>3
<1>10. CASE Record(t)
  <2>1. Same /\ hash' = hash /\ pc[t] = "record" /\ Yields(t, "reward")
    BY <1>10 DEF Record, Runs, chainVars
  <2>2. pc'[t] = "reward" /\ answer'[t] = answer[t]
    BY <2>1, Moves
  <2> QED
    BY <2>1, <2>2, HonestByControl
       DEF Honest, OnItsWay, BeforeTransfer, AfterTransfer, Early, AutoSwap, Late
<1>11. CASE Reward(t)
  <2>1. /\ UNCHANGED <<pending, receipt, hash>> /\ pc[t] = "reward"
        /\ pc'[t] = "done" /\ answer'[t] = "success"
    BY <1>11, Moves DEF Reward, chainVars
  <2> QED
    BY <2>1, HonestByControl
       DEF Honest, OnItsWay, BeforeTransfer, AfterTransfer, Early, AutoSwap, Late
<1>12. CASE PutStatus(t) \/ WaitForRoom(t)
  <2>1. Same /\ UNCHANGED <<pc, then, hash, answer>>
    BY <1>12 DEF PutStatus, WaitForRoom, callVars, chainVars, bookVars
  <2> QED
    BY <2>1, HonestByControl DEF Honest, OnItsWay, BeforeTransfer, AfterTransfer
<1>13. CASE StatusSent(t)
  <2>1. Same /\ hash' = hash /\ pc[t] = "emit"
    BY <1>13 DEF StatusSent, Runs, chainVars, bookVars
  <2>2. pc'[t] = then[t] /\ then'[t] = then[t] /\ answer'[t] = answer[t]
    BY <1>13, Moves DEF StatusSent
  <2> QED
    BY <2>1, <2>2, HonestByControl
       DEF Honest, OnItsWay, BeforeTransfer, AfterTransfer, Early, AutoSwap, Late
<1>14. ~ ExecutePreflight(t)
  BY DEF ExecutePreflight
<1>15. ~ Executed(t)
  BY DEF Executed, Mined, Runs, Honest, OnItsWay, AutoSwap
<1> QED
  BY <1>4, <1>5, <1>6, <1>7, <1>8, <1>9, <1>10, <1>11, <1>12, <1>13, <1>14, <1>15 DEF Call

(* A call sends its transfer from the one step that does.                  *)
LEMMA SubmitHonest ==
    ASSUME TypeInv, NEW t \in Tasks, Submit(t), NEW u \in Tasks, Sends(u), Honest(u)
    PROVE  Honest(u)'
<1> DEFINE tx == Tx(t, pc[t])
           x == Transfer(u)
<1>1. /\ pc[t] \in TxStep /\ pending' = Enqueued(tx) /\ pc'[t] = "wait" /\ then'[t] = pc[t]
      /\ \A v \in Tasks \ {t} : pc'[v] = pc[v] /\ then'[v] = then[v]
      /\ UNCHANGED <<receipt, hash, answer, rewarded>>
  BY DEF Submit, Goes, TypeInv, ControlOK, bookVars
<1>2. tx \in Transaction /\ pending \in Seq(Transaction)
  BY <1>1 DEF Tx, Transaction, TypeInv, DataOK
<1>3. x = tx <=> u = t /\ pc[t] = "transfer"
  BY DEF Transfer, Tx
<1>4. x = tx => ~ Sent(u)
  BY <1>3 DEF Honest, BeforeTransfer, Early
<1>5. x # tx \/ x \notin Range(pending)
  BY <1>4, OutIsInPending DEF Sent
<1>6. Once(x, pending')
  BY <1>1, <1>2, <1>5, EnqueuedOnce DEF Honest
<1>7. x \in Range(pending') => x \in Range(pending) \/ x = tx
  BY <1>1, <1>2, EnqueuedFacts
<1>8. Once(Transfer(u), pending)' /\ (Out(u)' => Out(u) \/ x = tx)
  <2>1. Transfer(u)' = x
    BY DEF Transfer, Tx
  <2>2. Out(u)' <=> x \in Range(pending')
    BY DEF Out, Transfer, Range
  <2> QED
    BY <1>6, <1>7, <2>1, <2>2, OutIsInPending DEF Once
<1> HIDE DEF x, tx
<1>9. CASE u # t
  BY <1>1, <1>3, <1>8, <1>9 DEF Honest, Sent, OnItsWay, BeforeTransfer, AfterTransfer
<1>10. CASE u = t
  <2>1. pc[t] \in AutoSwap \cup {"transfer"}
    BY <1>1, <1>10 DEF Honest, OnItsWay, TxStep, Execute, Early, AutoSwap, Late
  <2>2. BeforeTransfer(t) /\ answer[t] = "none" /\ ~ Sent(t)
    BY <1>10, <2>1 DEF Honest, BeforeTransfer, Early, AutoSwap
  <2>3. ~ AfterTransfer(t)' /\ OnItsWay(t)'
    BY <1>1, <2>1 DEF AfterTransfer, OnItsWay
  <2>4. BeforeTransfer(t)' => x # tx
    BY <1>1, <1>3 DEF BeforeTransfer, Early, AutoSwap
  <2> QED
    BY <1>1, <1>8, <1>10, <2>2, <2>3, <2>4 DEF Honest, Sent
<1> QED
  BY <1>9, <1>10

(* The receipt of a transfer comes once, and only of one that is out.      *)
LEMMA MineHonest ==
    ASSUME TypeInv, Mine, NEW t \in Tasks, Sends(t), Honest(t)
    PROVE  Honest(t)'
<1> DEFINE tx == Head(pending)
           x == Transfer(t)
<1>1. /\ pending \in Seq(Transaction) /\ pending # <<>> /\ pending' = Tail(pending)
      /\ UNCHANGED <<pc, then, answer, hash, rewarded>>
  BY DEF Mine, TypeInv, DataOK, callVars, bookVars
<1>2. PICK o \in Outcome : receipt' = [receipt EXCEPT ![tx.of][tx.step] = o]
  BY DEF Mine, Outcome
<1>3. tx \in Transaction /\ tx.of \in Tasks /\ tx.step \in TxStep
  <2>1. tx \in Transaction
    BY <1>1, TailFacts
  <2> QED
    BY <2>1 DEF Transaction
<1>4. x = tx <=> tx.of = t /\ tx.step = "transfer"
  BY <1>3 DEF Transfer, Tx, Transaction
<1>5. receipt'[t]["transfer"] = IF x = tx THEN o ELSE receipt[t]["transfer"]
  BY <1>2, <1>3, <1>4, StepFacts DEF TypeInv, DataOK
<1>6. Once(x, Tail(pending)) /\ (tx = x => x \notin Range(Tail(pending)))
  BY <1>1, TailOnce DEF Honest
<1>7. Range(pending) = {tx} \cup Range(Tail(pending))
  BY <1>1, TailFacts
<1>8. Transfer(t)' = x /\ (Out(t)' <=> x \in Range(Tail(pending)))
  BY <1>1 DEF Transfer, Tx, Out, Range
<1>9. o # "none"
  BY DEF Outcome
<1> HIDE DEF x, tx
<1>10. /\ Once(Transfer(t), pending)' /\ (Out(t)' => Out(t) /\ x # tx) /\ (x = tx => Out(t))
  BY <1>1, <1>6, <1>7, <1>8, OutIsInPending DEF Once, x
<1>11. /\ OnItsWay(t)' /\ (BeforeTransfer(t)' <=> BeforeTransfer(t)) /\ (AfterTransfer(t)' <=> AfterTransfer(t))
       /\ (Sent(t)' => Sent(t))
  BY <1>1, <1>5, <1>10 DEF Honest, OnItsWay, BeforeTransfer, AfterTransfer, Sent
<1> QED
  BY <1>1, <1>5, <1>10, <1>11 DEF Honest

LEMMA HonestIsInductive == HonestInv /\ [Next]_vars => HonestInv'
<1> SUFFICES ASSUME HonestInv, [Next]_vars, NEW t \in Tasks, Sends(t)' PROVE Honest(t)'
  BY TypesAreInductive DEF HonestInv
<1> USE DEF HonestInv
<1>1. request' = request
  <2>1. ASSUME NEW u \in Tasks, Call(u) PROVE request' = request
    BY <2>1, CallKeepsRequest
  <2> QED
    BY <2>1 DEF Next, Mine, StreamReads, StreamOpensOrCloses, callVars, vars
<1>2. Sends(t) /\ Honest(t)
  BY <1>1 DEF Sends
<1>3. ASSUME NEW u \in Tasks, Call(u) PROVE Honest(t)'
  <2>1. CASE Submit(u)
    BY <2>1, <1>2, SubmitHonest
  <2>2. CASE ~ Submit(u) /\ u = t
    BY <2>2, <1>2, <1>3, OwnStepHonest
  <2>3. CASE ~ Submit(u) /\ u # t
    <3>1. UNCHANGED <<pending, receipt>>
      BY <2>3, <1>3, CallKeepsChain
    <3>2. /\ pc'[t] = pc[t] /\ then'[t] = then[t] /\ answer'[t] = answer[t] /\ hash'[t] = hash[t]
          /\ t \in rewarded' <=> t \in rewarded
      BY <2>3, <1>3, CallIsItsOwn DEF TypeInv
    <3> QED
      BY <3>1, <3>2, <1>2, HonestByControl DEF Honest, OnItsWay, BeforeTransfer, AfterTransfer
  <2> QED
    BY <2>1, <2>2, <2>3
<1>4. CASE Mine
  BY <1>4, <1>2, MineHonest
<1>5. ASSUME UNCHANGED <<callVars, chainVars, bookVars>> PROVE Honest(t)'
  BY <1>5, <1>2, HonestByControl
     DEF callVars, chainVars, bookVars, Honest, OnItsWay, BeforeTransfer, AfterTransfer
<1>6. CASE UNCHANGED vars
  BY <1>6, <1>5 DEF vars
<1>7. ASSUME NEW c \in Connections, StreamReads(c) \/ StreamOpensOrCloses(c) PROVE Honest(t)'
  BY <1>7, <1>5 DEF StreamReads, StreamOpensOrCloses
<1> QED
  BY <1>3, <1>4, <1>6, <1>7 DEF Next

(* What send_token tells of a transfer, a refusal, a shortage, a revert or *)
(* a paid transfer, is what the chain did with it, and only a transfer     *)
(* that was paid or simulated is rewarded: however the calls overlap and   *)
(* whatever the node does with their nonces.                               *)
THEOREM AnswersAreTrue == Spec => []AnswersMatchChain
<1>1. Init => HonestInv
  <2> SUFFICES ASSUME Init, NEW t \in Tasks PROVE Honest(t)
    BY InitTypes DEF HonestInv
  <2>1. /\ pc[t] = "idle" /\ hash[t] = "none" /\ answer[t] = "none" /\ t \notin rewarded
        /\ receipt[t]["transfer"] = "none" /\ pending = <<>>
    BY StepFacts DEF Init
  <2>2. ~ Out(t) /\ Once(Transfer(t), pending)
    BY <2>1 DEF Out, Once
  <2> QED
    BY <2>1, <2>2 DEF Honest, OnItsWay, BeforeTransfer, AfterTransfer, Sent, Early
<1>2. HonestInv => AnswersMatchChain
  BY DEF HonestInv, Honest, AnswersMatchChain, Sent
<1> QED
  BY <1>1, <1>2, HonestIsInductive, PTL DEF Spec

-----------------------------------------------------------------------------
(* Sends without the funds.  A transfer takes the first nonce, so nothing  *)
(* is mined between its submission and its own turn; between the last look *)
(* at the balance and the submission only transactions are that others     *)
(* have given up on, because a call that still waits holds the loop.       *)

(* The transactions a call may still send from a step on.                  *)
AheadOf(s) ==
    CASE s = "swapCelo" -> TxStep \ {"approveCelo"}
      [] s \in {"hop2", "approveUsdm"} -> {"approveUsdm", "swapUsdm", "transfer"}
      [] s = "swapUsdm" -> {"swapUsdm", "transfer"}
      [] s \in {"recheck", "transfer"} -> {"transfer"}
      [] s = "approveIn" -> {"approveIn", "swapIn"}
      [] s = "swapIn" -> {"swapIn"}
      [] s \in {"record", "reward", "done"} -> {}
      [] OTHER -> TxStep
Unsent(t) ==
    CASE pc[t] = "emit" -> AheadOf(then[t])
      [] pc[t] = "wait" -> AheadOf(then[t]) \ {then[t]}
      [] OTHER -> AheadOf(pc[t])

Waits(t) == pc[t] = "wait" /\ loop = t
GaveUp(t) ==
    \/ pc[t] = "done" /\ (answer[t] # "success" \/ hash[t] = "failed")
    \/ pc[t] = "record" /\ hash[t] = "failed" /\ loop = t /\ ~ Sends(t)

Funded(t) == wallet[Token(t)] >= Amount(t) \/ \E u \in Tasks \ {t} : MinedLate(u)

(* What is out is what its call waits for, or gave up waiting for.         *)
QueueOrder ==
    \A x \in Range(pending) :
        /\ receipt[x.of][x.step] = "none" /\ then[x.of] = x.step
        /\ Waits(x.of) \/ GaveUp(x.of)
        /\ Once(x, pending)
        /\ x.step = "transfer" => Head(pending) = x

Orderly(t) ==
    /\ \A s \in Unsent(t) : receipt[t][s] = "none"
    /\ pc[t] = "emit" => then[t] # "transfer"
    /\ pc[t] = "transfer" => loop = t
    /\ pc[t] = "transfer" \/ Out(t) => Funded(t)
    /\ receipt[t]["transfer"] = "short" => \E u \in Tasks \ {t} : MinedLate(u)

ShortInv == TypeInv /\ QueueOrder /\ \A t \in Tasks : Orderly(t)

LEMMA AheadFacts ==
    /\ \A s \in TxStep : s \in AheadOf(s)
    /\ \A s : AheadOf(s) \subseteq TxStep
    /\ AheadOf("done") = {} /\ AheadOf("record") = {} /\ AheadOf("reward") = {}
    /\ \A s \in {"idle", "screening", "preflight", "quote", "fund", "approveCelo"} : AheadOf(s) = TxStep
    /\ AheadOf("swapCelo") = TxStep \ {"approveCelo"}
    /\ AheadOf("hop2") = {"approveUsdm", "swapUsdm", "transfer"}
    /\ AheadOf("approveUsdm") = {"approveUsdm", "swapUsdm", "transfer"}
    /\ AheadOf("swapUsdm") = {"swapUsdm", "transfer"}
    /\ AheadOf("recheck") = {"transfer"} /\ AheadOf("transfer") = {"transfer"}
    /\ AheadOf("approveIn") = {"approveIn", "swapIn"} /\ AheadOf("swapIn") = {"swapIn"}
BY DEF AheadOf, TxStep, AutoSwap, Execute

LEMMA CallKeepsWallet == \A t \in Tasks : Call(t) => UNCHANGED <<wallet, receipt>>
BY DEF Call, Begin, Screened, ExecutePreflight, Simulate, Preflight, Quote, Fund, Submit, NodeFails,
       TimesOut, Approved, AutoSwapped, Hop2, Recheck, Transferred, Executed, Record, Reward,
       PutStatus, WaitForRoom, StatusSent, chainVars

(* A call runs when it holds the loop or nobody does, and is not over.     *)
LEMMA CallHoldsLoop ==
    ASSUME NEW t \in Tasks, Call(t)
    PROVE  loop \in {Idle, t} /\ pc[t] # "done"
BY DEF Call, Begin, Screened, ExecutePreflight, Simulate, Preflight, Quote, Fund, Submit, NodeFails,
       TimesOut, Approved, AutoSwapped, Hop2, Recheck, Transferred, Executed, Record, Reward,
       PutStatus, WaitForRoom, StatusSent, Runs, Mined, TxStep, AutoSwap, Execute, InAutoSwap

LEMMA LateStays ==
    ASSUME ControlOK, NEW t \in Tasks, Call(t), NEW u \in Tasks, MinedLate(u)
    PROVE  MinedLate(u)'
<1>1. u # t
  BY CallHoldsLoop DEF MinedLate
<1>2. receipt' = receipt
  BY CallKeepsWallet
<1> QED
  BY <1>1, <1>2, CallIsItsOwn DEF MinedLate

(* A call goes forward only.                                               *)
LEMMA UnsentShrinks ==
    ASSUME ControlOK, NEW t \in Tasks, Call(t)
    PROVE  Unsent(t)' \subseteq Unsent(t)
<1>1. ASSUME NEW s, GoesOn(t, s) \/ Yields(t, s), AheadOf(s) \subseteq Unsent(t), s # "emit", s # "wait"
      PROVE  Unsent(t)' \subseteq Unsent(t)
  BY <1>1, Moves DEF Unsent
<1>2. ASSUME NEW s, Emits(t, s), AheadOf(s) \subseteq Unsent(t)
      PROVE  Unsent(t)' \subseteq Unsent(t)
  BY <1>2, Moves DEF Unsent
<1>3. ASSUME NEW a, Answers(t, a) PROVE Unsent(t)' \subseteq Unsent(t)
  BY <1>3, Moves, AheadFacts DEF Unsent
<1>4. ASSUME NEW a, Fails(t, a) PROVE Unsent(t)' \subseteq Unsent(t)
  BY <1>1, <1>3, <1>4, AheadFacts DEF Fails
<1>5. CASE Begin(t) \/ Screened(t)
  <2>1. Unsent(t) = TxStep
    BY <1>5, AheadFacts DEF Begin, Screened, Unsent
  <2>2. Unsent(t)' \subseteq TxStep
    BY AheadFacts DEF Unsent
  <2> QED
    BY <2>1, <2>2
<1>6. CASE ExecutePreflight(t) \/ Simulate(t) \/ Preflight(t) \/ Quote(t) \/ Fund(t)
  <2>1. Unsent(t) = TxStep
    BY <1>6, AheadFacts DEF ExecutePreflight, Simulate, Preflight, Quote, Fund, Runs, Unsent
  <2>2. Unsent(t)' \subseteq TxStep
    BY AheadFacts DEF Unsent
  <2> QED
    BY <2>1, <2>2
<1>7. CASE Submit(t)
  <2>1. pc[t] \in TxStep /\ pc'[t] = "wait" /\ then'[t] = pc[t]
    BY <1>7 DEF Submit, Goes, ControlOK
  <2>2. Unsent(t) = AheadOf(pc[t])
    BY <2>1 DEF Unsent, TxStep, AutoSwap, Execute
  <2> QED
    BY <2>1, <2>2 DEF Unsent
<1>8. CASE NodeFails(t) \/ TimesOut(t)
  BY <1>4, <1>8 DEF NodeFails, TimesOut, Raises
<1>9. CASE Approved(t)
  <2>1. pc[t] = "wait" /\ Unsent(t) = AheadOf(then[t]) \ {then[t]}
    BY <1>9 DEF Approved, Mined, Runs, Unsent
  <2>2. \/ then[t] = "approveCelo" /\ (GoesOn(t, "swapCelo") \/ Answers(t, "error"))
        \/ then[t] = "approveUsdm" /\ (GoesOn(t, "swapUsdm") \/ Answers(t, "error"))
        \/ then[t] = "approveIn" /\ GoesOn(t, "swapIn")
    BY <1>9 DEF Approved, Mined
  <2> QED
    BY <1>1, <1>3, <2>1, <2>2, AheadFacts
<1>10. CASE AutoSwapped(t)
  <2>1. pc[t] = "wait" /\ Unsent(t) = AheadOf(then[t]) \ {then[t]}
    BY <1>10 DEF AutoSwapped, Mined, Runs, Unsent
  <2>2. /\ then[t] \in {"swapCelo", "swapUsdm"}
        /\ \/ Emits(t, "hop2") /\ then[t] = "swapCelo"
           \/ Emits(t, "recheck")
           \/ Answers(t, "error")
    BY <1>10 DEF AutoSwapped, Mined
  <2>3. "approveUsdm" \in TxStep /\ "swapUsdm" \in TxStep /\ "transfer" \in TxStep
    BY StepFacts
  <2> QED
    BY <1>2, <1>3, <2>1, <2>2, <2>3, AheadFacts
<1>11. CASE Hop2(t) \/ Recheck(t)
  BY <1>1, <1>3, <1>11, AheadFacts DEF Hop2, Recheck, Runs, Unsent
<1>12. CASE Transferred(t) \/ Executed(t)
  BY <1>1, <1>2, <1>3, <1>4, <1>12, AheadFacts DEF Transferred, Executed
<1>13. CASE Record(t) \/ Reward(t)
  BY <1>1, <1>3, <1>13, AheadFacts DEF Record, Reward
<1>14. CASE PutStatus(t) \/ WaitForRoom(t)
  BY <1>14 DEF PutStatus, WaitForRoom, callVars, Unsent
<1>15. CASE StatusSent(t)
  <2>1. pc[t] = "emit" /\ pc'[t] = then[t] /\ then'[t] = then[t]
    BY <1>15, Moves DEF StatusSent, Runs
  <2> QED
    BY <2>1 DEF Unsent
<1> QED
  BY <1>5, <1>6, <1>7, <1>8, <1>9, <1>10, <1>11, <1>12, <1>13, <1>14, <1>15 DEF Call

(* A call that waits for what is out can only give up, and a call that     *)
(* gave up can only end.                                                   *)
LEMMA GivesUp ==
    ASSUME ControlOK, NEW t \in Tasks, Call(t),
           (pc[t] = "wait" /\ receipt[t][then[t]] = "none") \/ GaveUp(t)
    PROVE  then'[t] = then[t] /\ GaveUp(t)'
<1>1. CASE pc[t] = "wait" /\ receipt[t][then[t]] = "none"
  <2>1. TimesOut(t)
    BY <1>1 DEF Call, Begin, Screened, ExecutePreflight, Simulate, Preflight, Quote, Fund, Submit,
       NodeFails, Approved, AutoSwapped, Hop2, Recheck, Transferred, Executed, Record, Reward,
       PutStatus, WaitForRoom, StatusSent, Runs, Mined, TxStep, AutoSwap, Execute, InAutoSwap
  <2>2. PICK a \in {"insufficient", "error"} : Fails(t, a)
    BY <2>1 DEF TimesOut, Raises
  <2>3. CASE Sends(t)
    BY <2>2, <2>3, Moves DEF Fails, Answers, GaveUp
  <2>4. CASE ~ Sends(t)
    <3>1. pc'[t] = "record" /\ then'[t] = then[t] /\ hash'[t] = "failed" /\ loop' = loop
      BY <2>2, <2>4, Moves DEF Fails, GoesOn, ControlOK
    <3>2. loop = t /\ request' = request
      BY <2>1 DEF TimesOut, Runs
    <3> QED
      BY <2>4, <3>1, <3>2 DEF GaveUp, Sends
  <2> QED
    BY <2>3, <2>4
<1>2. CASE GaveUp(t)
  <2>1. pc[t] = "record" /\ hash[t] = "failed" /\ ~ Sends(t)
    BY <1>2, CallHoldsLoop DEF GaveUp
  <2>2. Record(t)
    BY <2>1 DEF Call, Begin, Screened, ExecutePreflight, Simulate, Preflight, Quote, Fund, Submit,
       NodeFails, TimesOut, Approved, AutoSwapped, Hop2, Recheck, Transferred, Executed, Reward,
       PutStatus, WaitForRoom, StatusSent, Runs, Mined, TxStep, AutoSwap, Execute, InAutoSwap
  <2> QED
    BY <2>1, <2>2, Moves DEF Record, Answers, GaveUp
<1> QED
  BY <1>1, <1>2

(* A call comes to its transfer from a look at the balance.                *)
LEMMA ReadyWithFunds ==
    ASSUME ControlOK, DataOK, NEW t \in Tasks, Call(t), pc[t] = "emit" => then[t] # "transfer"
    PROVE  /\ pc'[t] = "emit" => then'[t] # "transfer"
           /\ pc'[t] = "transfer" => loop' = t /\ wallet[Token(t)] >= Amount(t)
<1> DEFINE Goal == /\ pc'[t] = "emit" => then'[t] # "transfer"
                   /\ pc'[t] = "transfer" => loop' = t /\ wallet[Token(t)] >= Amount(t)
<1>1. ASSUME NEW s, GoesOn(t, s) \/ Yields(t, s), s # "transfer", s # "emit" PROVE Goal
  BY <1>1, Moves
<1>2. ASSUME NEW s, Emits(t, s), s # "transfer" PROVE Goal
  BY <1>2, Moves
<1>3. ASSUME NEW a, Answers(t, a) PROVE Goal
  BY <1>3, Moves
<1>4. ASSUME NEW a, Fails(t, a) PROVE Goal
  BY <1>1, <1>3, <1>4 DEF Fails
<1>5. CASE Begin(t) \/ Fund(t) \/ Hop2(t) \/ Approved(t)
  BY <1>1, <1>3, <1>5 DEF Begin, Fund, Hop2, Approved
<1>6. CASE Screened(t)
  BY <1>3, <1>6 DEF Screened, Goes, ControlOK
<1>7. CASE ExecutePreflight(t) \/ Simulate(t) \/ Executed(t) \/ Record(t) \/ Reward(t)
  BY <1>1, <1>3, <1>4, <1>7 DEF ExecutePreflight, Simulate, Executed, Record, Reward
<1>8. CASE Preflight(t)
  <2>1. CASE wallet[Token(t)] >= Amount(t)
    BY <1>8, <2>1, Moves DEF Preflight, GoesOn, Runs
  <2>2. CASE ~ (wallet[Token(t)] >= Amount(t))
    BY <1>2, <1>8, <2>2 DEF Preflight
  <2> QED
    BY <2>1, <2>2
<1>9. CASE Quote(t) \/ AutoSwapped(t) \/ Transferred(t)
  BY <1>2, <1>3, <1>9 DEF Quote, AutoSwapped, Transferred
<1>10. CASE Submit(t)
  BY <1>10 DEF Submit, Goes, ControlOK
<1>11. CASE NodeFails(t) \/ TimesOut(t)
  BY <1>4, <1>11 DEF NodeFails, TimesOut, Raises
<1>12. CASE Recheck(t)
  <2>1. wallet[Token(t)] \in Nat /\ Amount(t) \in Nat
    BY RequestFacts DEF DataOK
  <2>2. CASE wallet[Token(t)] < Amount(t)
    BY <1>3, <1>12, <2>2 DEF Recheck
  <2>3. CASE wallet[Token(t)] >= Amount(t)
    BY <1>12, <2>1, <2>3, Moves DEF Recheck, GoesOn, Runs
  <2> QED
    BY <2>1, <2>2, <2>3
<1>13. CASE PutStatus(t) \/ WaitForRoom(t)
  <2>1. pc[t] = "emit" /\ pc' = pc /\ then' = then
    BY <1>13 DEF PutStatus, WaitForRoom, Runs, callVars
  <2> QED
    BY <2>1
<1>14. CASE StatusSent(t)
  <2>1. pc[t] = "emit" /\ pc'[t] = then[t] /\ then'[t] = then[t]
    BY <1>14, Moves DEF StatusSent, Runs
  <2> QED
    BY <2>1
<1> QED
  BY <1>5, <1>6, <1>7, <1>8, <1>9, <1>10, <1>11, <1>12, <1>13, <1>14 DEF Call

LEMMA PendingAreTransactions ==
    ASSUME pending \in Seq(Transaction), NEW x \in Range(pending)
    PROVE  x \in Transaction /\ x.of \in Tasks /\ x.step \in TxStep
<1>1. PICK i \in DOMAIN pending : x = pending[i]
  BY DEF Range
<1>2. DOMAIN pending = 1 .. Len(pending)
  OBVIOUS
<1>3. x \in Transaction
  BY <1>1, <1>2
<1> QED
  BY <1>3 DEF Transaction

LEMMA HeadOfPrepended ==
    ASSUME NEW S, NEW s \in Seq(S), NEW e \in S
    PROVE  Head(<<e>> \o s) = e
<1> DEFINE r == <<e>> \o s
<1>1. r \in Seq(S) /\ Len(r) = Len(s) + 1 /\ r[1] = e /\ Len(s) \in Nat
  OBVIOUS
<1> HIDE DEF r
<1>2. Head(r) = r[1]
  BY <1>1
<1> QED
  BY <1>1, <1>2 DEF r

(* What a step of another call leaves of a call.                           *)
LEMMA OthersStay ==
    ASSUME ControlOK, NEW t \in Tasks, Call(t), NEW u \in Tasks \ {t}
    PROVE  /\ loop # u /\ Unsent(u)' = Unsent(u)
           /\ then'[u] = then[u] /\ pc'[u] = pc[u]
           /\ GaveUp(u) => GaveUp(u)'
<1>1. loop \in {Idle, t}
  BY CallHoldsLoop
<1>2. loop # u
  BY <1>1, TransferAssumption
<1>3. /\ pc'[u] = pc[u] /\ then'[u] = then[u] /\ answer'[u] = answer[u] /\ hash'[u] = hash[u]
  BY CallIsItsOwn
<1> QED
  BY <1>2, <1>3 DEF Unsent, GaveUp

(* A step of a call that sends nothing.                                    *)
LEMMA CallKeepsOrder ==
    ASSUME ShortInv, NEW t \in Tasks, Call(t), ~ Submit(t)
    PROVE  QueueOrder' /\ \A u \in Tasks : Orderly(u)'
<1>1. ControlOK /\ DataOK /\ pending \in Seq(Transaction)
  BY DEF ShortInv, TypeInv, DataOK
<1>2. /\ pending' = pending /\ receipt' = receipt /\ wallet' = wallet /\ request' = request
  BY CallKeepsChain, CallKeepsWallet, CallKeepsRequest
<1>3. ASSUME NEW x \in Range(pending)
      PROVE  then'[x.of] = x.step /\ (Waits(x.of)' \/ GaveUp(x.of)')
  <2>1. x.of \in Tasks
    BY <1>1, PendingAreTransactions
  <2>2. receipt[x.of][x.step] = "none" /\ then[x.of] = x.step /\ (Waits(x.of) \/ GaveUp(x.of))
    BY DEF ShortInv, QueueOrder
  <2>3. CASE x.of = t
    BY <1>1, <2>2, <2>3, GivesUp DEF Waits
  <2>4. CASE x.of # t
    BY <1>1, <2>1, <2>2, <2>4, OthersStay DEF Waits
  <2> QED
    BY <2>3, <2>4
<1>4. QueueOrder'
  BY <1>2, <1>3 DEF ShortInv, QueueOrder, Range, Once
<1>5. ASSUME NEW u \in Tasks PROVE Orderly(u)'
  <2>1. /\ \A s \in Unsent(u)' : receipt'[u][s] = "none"
        /\ Out(u)' <=> Out(u)
        /\ Funded(u) => Funded(u)'
        /\ (\E v \in Tasks \ {u} : MinedLate(v)) => (\E v \in Tasks \ {u} : MinedLate(v)')
    <3>1. Unsent(u)' \subseteq Unsent(u)
      BY <1>1, UnsentShrinks, OthersStay
    <3>2. \A v \in Tasks : MinedLate(v) => MinedLate(v)'
      BY <1>1, LateStays
    <3>3. Token(u)' = Token(u) /\ Amount(u)' = Amount(u)
      BY <1>2 DEF Token, Amount
    <3> QED
      BY <1>2, <3>1, <3>2, <3>3 DEF ShortInv, Orderly, Out, Tx, Funded
  <2>2. /\ pc'[u] = "emit" => then'[u] # "transfer"
        /\ pc'[u] = "transfer" => loop' = u /\ Funded(u)'
    <3>1. CASE u = t
      <4>1. /\ pc'[t] = "emit" => then'[t] # "transfer"
            /\ pc'[t] = "transfer" => loop' = t /\ wallet[Token(t)] >= Amount(t)
        BY <1>1, ReadyWithFunds DEF ShortInv, Orderly
      <4> QED
        BY <1>2, <3>1, <4>1 DEF Funded, Token, Amount
    <3>2. CASE u # t
      <4>1. loop # u /\ pc'[u] = pc[u] /\ then'[u] = then[u]
        BY <1>1, <3>2, OthersStay
      <4> QED
        BY <4>1 DEF ShortInv, Orderly
    <3> QED
      BY <3>1, <3>2
  <2> QED
    BY <1>2, <2>1, <2>2 DEF ShortInv, Orderly
<1> QED
  BY <1>4, <1>5

(* A transaction goes out, and a transfer before all others.               *)
LEMMA SubmitKeepsOrder ==
    ASSUME ShortInv, NEW t \in Tasks, Submit(t)
    PROVE  QueueOrder' /\ \A u \in Tasks : Orderly(u)'
<1> DEFINE tx == Tx(t, pc[t])
<1>1. ControlOK /\ DataOK /\ pending \in Seq(Transaction) /\ Call(t)
  BY DEF ShortInv, TypeInv, DataOK, Call
<1>2. /\ pc[t] \in TxStep /\ loop = t /\ pending' = Enqueued(tx)
      /\ pc'[t] = "wait" /\ then'[t] = pc[t] /\ loop' = loop
      /\ UNCHANGED <<wallet, receipt, request>>
  BY <1>1 DEF Submit, Goes, ControlOK
<1>3. tx \in Transaction /\ tx.of = t /\ tx.step = pc[t]
  BY <1>2 DEF Tx, Transaction
<1>4. \A x \in Range(pending) : x.of \in Tasks \ {t} /\ GaveUp(x.of)
  <2> SUFFICES ASSUME NEW x \in Range(pending) PROVE x.of \in Tasks \ {t} /\ GaveUp(x.of)
    OBVIOUS
  <2>1. x.of \in Tasks /\ (Waits(x.of) \/ GaveUp(x.of))
    BY <1>1, PendingAreTransactions DEF ShortInv, QueueOrder
  <2>2. x.of # t
    BY <1>2, <2>1 DEF Waits, GaveUp, TxStep, AutoSwap, Execute
  <2> QED
    BY <1>2, <2>1, <2>2 DEF Waits
<1>5. tx \notin Range(pending)
  BY <1>3, <1>4
<1>6. Range(pending') \subseteq Range(pending) \cup {tx}
  BY <1>1, <1>2, <1>3, EnqueuedFacts
<1>7. receipt[t][pc[t]] = "none"
  <2>1. Unsent(t) = AheadOf(pc[t])
    BY <1>2 DEF Unsent, TxStep, AutoSwap, Execute
  <2> QED
    BY <1>2, <2>1, AheadFacts DEF ShortInv, Orderly
<1>8. ASSUME NEW x \in Range(pending')
      PROVE  /\ receipt'[x.of][x.step] = "none" /\ then'[x.of] = x.step
             /\ Waits(x.of)' \/ GaveUp(x.of)'
  <2>1. CASE x = tx
    BY <1>2, <1>3, <1>7, <2>1 DEF Waits
  <2>2. CASE x \in Range(pending)
    <3>1. x.of \in Tasks \ {t} /\ GaveUp(x.of)
      BY <1>4, <2>2
    <3>2. then'[x.of] = then[x.of] /\ GaveUp(x.of)'
      BY <1>1, <3>1, OthersStay
    <3> QED
      BY <1>2, <2>2, <3>2 DEF ShortInv, QueueOrder
  <2> QED
    BY <1>6, <2>1, <2>2
<1>9. ASSUME NEW x \in Range(pending') PROVE Once(x, pending')
  <2>1. Once(x, pending)
    <3>1. CASE x \in Range(pending)
      BY <3>1 DEF ShortInv, QueueOrder
    <3>2. CASE x \notin Range(pending)
      BY <3>2 DEF Once, Range
    <3> QED
      BY <3>1, <3>2
  <2>2. x # tx \/ x \notin Range(pending)
    BY <1>5
  <2> QED
    BY <1>1, <1>2, <1>3, <2>1, <2>2, EnqueuedOnce
<1>10. ASSUME NEW x \in Range(pending'), x.step = "transfer" PROVE Head(pending') = x
  <2>1. CASE UsesLatestNonce(pc[t]) /\ pending # <<>>
    <3>1. pending' = <<tx>> \o Tail(pending) /\ Tail(pending) \in Seq(Transaction)
      BY <1>1, <1>2, <1>3, <2>1 DEF Enqueued
    <3>2. Head(pending') = tx /\ Range(pending') = {tx} \cup Range(Tail(pending))
      BY <1>3, <3>1, RangeOfPrepended, HeadOfPrepended
    <3>3. CASE x \in Range(Tail(pending))
      <4>1. x \in Range(pending)
        BY <1>1, <2>1, <3>3, TailFacts
      <4>2. Head(pending) = x /\ Once(x, pending)
        BY <1>10, <4>1 DEF ShortInv, QueueOrder
      <4> QED
        BY <1>1, <2>1, <3>3, <4>2, TailOnce
    <3> QED
      BY <3>2, <3>3
  <2>2. CASE pending = <<>>
    <3>1. pending' = <<tx>>
      BY <1>2, <2>2 DEF Enqueued
    <3> QED
      BY <3>1 DEF Range
  <2>3. CASE ~ UsesLatestNonce(pc[t]) /\ pending # <<>>
    <3>1. pending' = Append(pending, tx)
      BY <1>2, <1>3, <2>3 DEF Enqueued
    <3>2. Head(pending') = Head(pending)
      BY <1>1, <1>3, <2>3, <3>1
    <3>3. x # tx
      BY <1>3, <1>10, <2>3 DEF UsesLatestNonce, AutoSwap
    <3> QED
      BY <1>6, <1>10, <3>2, <3>3 DEF ShortInv, QueueOrder
  <2> QED
    BY <2>1, <2>2, <2>3
<1>11. QueueOrder'
  BY <1>8, <1>9, <1>10 DEF QueueOrder, Range, Once
<1>12. ASSUME NEW u \in Tasks PROVE Orderly(u)'
  <2>1. /\ \A s \in Unsent(u)' : receipt'[u][s] = "none"
        /\ Funded(u) => Funded(u)'
        /\ (\E v \in Tasks \ {u} : MinedLate(v)) => (\E v \in Tasks \ {u} : MinedLate(v)')
    <3>1. Unsent(u)' \subseteq Unsent(u)
      BY <1>1, UnsentShrinks, OthersStay
    <3>2. \A v \in Tasks : MinedLate(v) => MinedLate(v)'
      BY <1>1, LateStays
    <3>3. Token(u)' = Token(u) /\ Amount(u)' = Amount(u)
      BY <1>2 DEF Token, Amount
    <3> QED
      BY <1>2, <3>1, <3>2, <3>3 DEF ShortInv, Orderly, Funded
  <2>2. Out(u)' => Out(u) \/ (u = t /\ pc[t] = "transfer")
    <3>1. Out(u)' => Transfer(u) \in Range(pending')
      BY DEF Out, Transfer, Tx, Range
    <3>2. Transfer(u) = tx => u = t /\ pc[t] = "transfer"
      BY DEF Transfer, Tx
    <3> QED
      BY <1>6, <3>1, <3>2, OutIsInPending
  <2>3. /\ pc'[u] = "emit" => then'[u] # "transfer"
        /\ pc'[u] # "transfer"
    <3>1. CASE u = t
      BY <1>2, <3>1
    <3>2. CASE u # t
      BY <1>1, <1>2, <3>2, OthersStay DEF ShortInv, Orderly
    <3> QED
      BY <3>1, <3>2
  <2> QED
    BY <1>2, <2>1, <2>2, <2>3 DEF ShortInv, Orderly
<1> QED
  BY <1>11, <1>12

(* The chain: what it mines was given up on, or its call waits for it and  *)
(* no other call is on the loop.                                           *)
LEMMA MineKeepsOrder ==
    ASSUME ShortInv, Mine
    PROVE  QueueOrder' /\ \A u \in Tasks : Orderly(u)'
<1> DEFINE tx == Head(pending)
           c == tx.of
<1>1. /\ ControlOK /\ DataOK /\ pending \in Seq(Transaction) /\ pending # <<>>
      /\ pending' = Tail(pending)
      /\ UNCHANGED <<request, pc, then, answer, hash, loop>>
  BY DEF ShortInv, TypeInv, DataOK, Mine, callVars
<1>2. tx \in Range(pending) /\ Range(pending) = {tx} \cup Range(Tail(pending))
  BY <1>1, TailFacts
<1>3. c \in Tasks /\ tx.step \in TxStep
  BY <1>1, <1>2, PendingAreTransactions
<1>4. /\ receipt[c][tx.step] = "none" /\ then[c] = tx.step /\ (Waits(c) \/ GaveUp(c))
      /\ tx \notin Range(Tail(pending))
  <2>1. /\ receipt[c][tx.step] = "none" /\ then[c] = tx.step /\ (Waits(c) \/ GaveUp(c))
        /\ Once(tx, pending)
    BY <1>2 DEF ShortInv, QueueOrder
  <2> QED
    BY <1>1, <2>1, TailOnce
<1>5. PICK o \in Outcome :
        /\ receipt' = [receipt EXCEPT ![c][tx.step] = o]
        /\ o # "ok" => wallet' = wallet
        /\ o = "short" => ~ Covered(tx)
  BY DEF Mine, Outcome
<1>6. o # "none"
  BY DEF Outcome
<1>7. \A u \in Tasks, s \in TxStep :
        receipt'[u][s] = IF u = c /\ s = tx.step THEN o ELSE receipt[u][s]
  BY <1>1, <1>3, <1>5 DEF DataOK
<1> HIDE DEF tx, c
<1>8. \A x \in Range(Tail(pending)) : x.of # c \/ x.step # tx.step
  <2> SUFFICES ASSUME NEW x \in Range(Tail(pending)), x.of = c, x.step = tx.step PROVE FALSE
    OBVIOUS
  <2>1. x \in Transaction /\ tx \in Transaction
    BY <1>1, <1>2, PendingAreTransactions
  <2>2. x = tx
    BY <2>1 DEF Transaction, c
  <2> QED
    BY <1>4, <2>2
<1>9. QueueOrder'
  <2> SUFFICES ASSUME NEW x \in Range(Tail(pending))
               PROVE  /\ receipt'[x.of][x.step] = "none" /\ then'[x.of] = x.step
                      /\ Waits(x.of)' \/ GaveUp(x.of)'
                      /\ Once(x, Tail(pending))
                      /\ x.step # "transfer"
    BY <1>1 DEF QueueOrder, Range, Once
  <2>1. x \in Range(pending) /\ x.of \in Tasks /\ x.step \in TxStep
    BY <1>1, <1>2, PendingAreTransactions
  <2>2. /\ receipt[x.of][x.step] = "none" /\ then[x.of] = x.step
        /\ Waits(x.of) \/ GaveUp(x.of)
        /\ Once(x, pending) /\ (x.step = "transfer" => tx = x)
    BY <2>1 DEF ShortInv, QueueOrder, tx
  <2>3. Once(x, Tail(pending))
    BY <1>1, <2>2, TailOnce
  <2>4. x.step # "transfer"
    BY <1>4, <2>2
  <2>5. receipt'[x.of][x.step] = "none"
    BY <1>7, <1>8, <2>1, <2>2
  <2> QED
    BY <1>1, <2>2, <2>3, <2>4, <2>5 DEF Waits, GaveUp, Sends
<1>10. \A v \in Tasks : MinedLate(v) => MinedLate(v)'
  BY <1>1, <1>4, <1>7 DEF MinedLate
<1>11. \A u \in Tasks : ~ Out(u)'
  <2> SUFFICES ASSUME NEW u \in Tasks, Out(u)' PROVE FALSE
    OBVIOUS
  <2>1. Transfer(u) \in Range(Tail(pending))
    BY <1>1 DEF Out, Transfer, Tx, Range
  <2>2. Transfer(u) \in Range(pending) /\ Transfer(u).step = "transfer"
    BY <1>2, <2>1 DEF Transfer, Tx
  <2>3. tx = Transfer(u)
    BY <2>2 DEF ShortInv, QueueOrder, tx
  <2> QED
    BY <1>4, <2>1, <2>3
<1>12. ASSUME NEW u \in Tasks, pc[u] = "transfer" PROVE Funded(u)'
  <2>1. Funded(u) /\ loop = u
    BY <1>12 DEF ShortInv, Orderly
  <2>2. Token(u)' = Token(u) /\ Amount(u)' = Amount(u)
    BY <1>1 DEF Token, Amount
  <2>3. CASE \E v \in Tasks \ {u} : MinedLate(v)
    BY <1>10, <2>3 DEF Funded
  <2>4. CASE wallet[Token(u)] >= Amount(u) /\ o # "ok"
    BY <1>5, <2>2, <2>4 DEF Funded
  <2>5. CASE o = "ok"
    <3>1. c # u /\ pc[c] = "done" /\ GaveUp(c)
      BY <1>4, <1>12, <2>1 DEF Waits, GaveUp
    <3>2. PICK d \in Tasks : d = c
      BY <1>3
    <3>3. receipt'[d][tx.step] = "ok" /\ then'[d] = tx.step /\ pc'[d] = "done"
      BY <1>1, <1>3, <1>4, <1>7, <2>5, <3>1, <3>2
    <3>4. answer'[d] # "success" \/ hash'[d] = "failed"
      BY <1>1, <3>1, <3>2 DEF GaveUp
    <3>5. MinedLate(d)'
      BY <1>3, <3>3, <3>4 DEF MinedLate
    <3> QED
      BY <3>1, <3>2, <3>5 DEF Funded
  <2> QED
    BY <2>1, <2>3, <2>4, <2>5 DEF Funded
<1>13. ASSUME NEW u \in Tasks, receipt'[u]["transfer"] = "short"
       PROVE  \E v \in Tasks \ {u} : MinedLate(v)'
  <2>1. CASE receipt[u]["transfer"] = "short"
    BY <1>10, <2>1 DEF ShortInv, Orderly
  <2>2. CASE receipt[u]["transfer"] # "short"
    <3>1. u = c /\ tx.step = "transfer" /\ o = "short"
      BY <1>7, <1>13, <2>2, StepFacts
    <3>2. tx = Transfer(u)
      <4>1. tx \in Transaction
        BY <1>1, <1>2, PendingAreTransactions
      <4> QED
        BY <3>1, <4>1 DEF Transaction, Transfer, Tx, c
    <3>3. Funded(u)
      BY <1>2, <3>2, OutIsInPending DEF ShortInv, Orderly
    <3>4. ~ (wallet[Token(u)] >= Amount(u))
      BY <1>5, <3>1, <3>2 DEF Covered, MovesTokens, Sells, Transfer, Tx
    <3> QED
      BY <1>10, <3>3, <3>4 DEF Funded
  <2> QED
    BY <2>1, <2>2
<1>14. ASSUME NEW u \in Tasks, NEW s \in Unsent(u) PROVE receipt'[u][s] = "none"
  <2>1. receipt[u][s] = "none"
    BY DEF ShortInv, Orderly
  <2>2. s \in TxStep
    BY AheadFacts DEF Unsent
  <2>3. u # c \/ s # tx.step
    BY <1>4, AheadFacts DEF Unsent, Waits, GaveUp
  <2> QED
    BY <1>7, <2>1, <2>2, <2>3
<1>15. ASSUME NEW u \in Tasks PROVE Orderly(u)'
  <2>1. Unsent(u)' = Unsent(u)
    BY <1>1 DEF Unsent
  <2> QED
    BY <1>1, <1>11, <1>12, <1>13, <1>14, <2>1 DEF ShortInv, Orderly
<1> QED
  BY <1>9, <1>15

LEMMA ShortIsInductive == ShortInv /\ [Next]_vars => ShortInv'
<1> SUFFICES ASSUME ShortInv, [Next]_vars PROVE QueueOrder' /\ \A u \in Tasks : Orderly(u)'
  BY TypesAreInductive DEF ShortInv
<1>1. ASSUME NEW t \in Tasks, Call(t) PROVE QueueOrder' /\ \A u \in Tasks : Orderly(u)'
  BY <1>1, CallKeepsOrder, SubmitKeepsOrder
<1>2. CASE Mine
  BY <1>2, MineKeepsOrder
<1>3. CASE UNCHANGED <<callVars, loop, chainVars>>
  BY <1>3 DEF callVars, chainVars, ShortInv, QueueOrder, Orderly, Waits, GaveUp, Unsent, Out, Tx,
     Funded, MinedLate, Once, Range, Sends, Token, Amount
<1> QED
  BY <1>1, <1>2, <1>3 DEF Next, StreamReads, StreamOpensOrCloses, vars

(* A transfer finds the wallet short only when a transaction another call  *)
(* had given up on was mined after all: for any number of calls and any    *)
(* requests, however the calls, the chain and the nonces interleave.       *)
THEOREM ShortCorrect == Spec => []ShortOnlyByLateSpend
<1>1. Init => ShortInv
  <2> SUFFICES ASSUME Init PROVE QueueOrder /\ \A t \in Tasks : Orderly(t)
    BY InitTypes DEF ShortInv
  <2>1. pending = <<>> /\ Range(pending) = {}
    BY DEF Init, Range
  <2>2. ASSUME NEW t \in Tasks PROVE Orderly(t)
    <3>1. pc[t] = "idle" /\ ~ Out(t) /\ \A s \in TxStep : receipt[t][s] = "none"
      BY <2>1 DEF Init, Out
    <3>2. Unsent(t) \subseteq TxStep /\ "transfer" \in TxStep
      BY AheadFacts, StepFacts DEF Unsent
    <3> QED
      BY <3>1, <3>2 DEF Orderly
  <2> QED
    BY <2>1, <2>2 DEF QueueOrder
<1>2. ShortInv => ShortOnlyByLateSpend
  BY DEF ShortInv, Orderly, ShortOnlyByLateSpend
<1> QED
  BY <1>1, <1>2, ShortIsInductive, PTL DEF Spec

=============================================================================
