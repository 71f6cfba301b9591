---------------------------- MODULE StatusStream ----------------------------
(***************************************************************************)
(* services/real_time_status.py and the SSE endpoint status_stream of      *)
(* server.py: tasks broadcast status events, each open connection has a    *)
(* bounded asyncio.Queue and a generator that empties it.                  *)
(*                                                                         *)
(* broadcast_status walks over a snapshot of the subscribers and awaits    *)
(* queue.put for each: a put into a full queue waits, it raises nothing.   *)
(* So a broadcast is one step that starts it and one step per subscriber.  *)
(* The queue of a closed connection is out of the set of subscribers and   *)
(* still in the snapshots taken before.                                    *)
(*                                                                         *)
(* An event is named by the task that sent it and its number among that    *)
(* task's events.  Heartbeats and the greeting, which repeats the current  *)
(* event besides its place in the queue, change no state.  The log         *)
(* handler is left out: start_monitoring attaches it to loggers such as    *)
(* "remittance_tools", and the modules log under "tools.remittance_tools". *)
(***************************************************************************)
EXTENDS Naturals, Sequences, FiniteSets, Functions

CONSTANTS Tasks,        \* the calls that broadcast
          Connections,  \* the connections to /status/stream, each made once
          QueueSize,    \* maxsize of a subscriber's queue, 100
          MaxHistory    \* maxlen of _status_history, 1000

ASSUME StreamAssumption ==
    /\ IsFiniteSet(Connections)
    /\ QueueSize \in Nat \ {0} /\ MaxHistory \in Nat \ {0}

VARIABLES conn,         \* connection -> "new", "open" (subscribed), "closed"
          queue,        \* connection -> what is in its queue
          got,          \* connection -> the queued events its generator has sent on
          owed,         \* connection -> the events of the snapshots it was in, for the properties
          emitted,      \* task -> number of events it has broadcast
          todo,         \* task -> the rest of the snapshot its broadcast walks over
          history       \* _status_history; its last element is _current_operation

streamVars == <<conn, queue, got, owed, emitted, todo, history>>

Event == [of : Tasks, no : Nat \ {0}]
LastEvent(t) == [of |-> t, no |-> emitted[t]]
Broadcasting(t) == todo[t] # <<>>

Subscribers == {c \in Connections : conn[c] = "open"}

Full(c) == Len(queue[c]) = QueueSize

StreamTypeOK ==
    /\ conn \in [Connections -> {"new", "open", "closed"}]
    /\ queue \in [Connections -> Seq(Event)]
    /\ \A c \in Connections : Len(queue[c]) <= QueueSize
    /\ got \in [Connections -> SUBSET Event]
    /\ owed \in [Connections -> SUBSET Event]
    /\ emitted \in [Tasks -> Nat]
    /\ todo \in [Tasks -> Seq(Connections)]
    /\ history \in Seq(Event)

StreamInit ==
    /\ conn = [c \in Connections |-> "new"]
    /\ queue = [c \in Connections |-> <<>>]
    /\ got = [c \in Connections |-> {}]
    /\ owed = [c \in Connections |-> {}]
    /\ emitted = [t \in Tasks |-> 0]
    /\ todo = [t \in Tasks |-> <<>>]
    /\ history = <<>>

-----------------------------------------------------------------------------
(* Mutant: the walk leaves one subscriber out.                             *)
WalksOverAllButOne(S) ==
    UNION {Bijection(1 .. Cardinality(S) - 1, S \ {c}) : c \in S} \cup Bijection({}, S)

(* The orders in which a loop may walk over a Python set.                  *)
WalksOver(S) == Bijection(1 .. Cardinality(S), S)

Remembered(e) == LET h == Append(history, e)
                 IN  IF Len(h) > MaxHistory THEN Tail(h) ELSE h

(* subscribe: the current status, when there is one, is the first in the   *)
(* new queue.                                                              *)
Connect(c) ==
    /\ conn[c] = "new"
    /\ conn' = [conn EXCEPT ![c] = "open"]
    /\ IF history = <<>>
       THEN UNCHANGED <<queue, owed>>
       ELSE LET current == history[Len(history)]
            IN  /\ queue' = [queue EXCEPT ![c] = <<current>>]
                /\ owed' = [owed EXCEPT ![c] = {current}]
    /\ UNCHANGED <<got, emitted, todo, history>>

(* event_generator gets an event from the queue and sends it.              *)
Read(c) ==
    /\ conn[c] = "open" /\ queue[c] # <<>>
    /\ got' = [got EXCEPT ![c] = @ \cup {Head(queue[c])}]
    /\ queue' = [queue EXCEPT ![c] = Tail(@)]
    /\ UNCHANGED <<conn, owed, emitted, todo, history>>

(* The client goes away: unsubscribe.                                      *)
Disconnect(c) ==
    /\ conn[c] = "open"
    /\ conn' = [conn EXCEPT ![c] = "closed"]
    /\ UNCHANGED <<queue, got, owed, emitted, todo, history>>

(* broadcast_status up to its loop.                                        *)
StartBroadcast(t) ==
    /\ ~ Broadcasting(t)
    /\ emitted' = [emitted EXCEPT ![t] = @ + 1]
    /\ LET e == [of |-> t, no |-> emitted[t] + 1]
       IN  /\ history' = Remembered(e)
           /\ owed' = [c \in Connections |->
                          IF c \in Subscribers THEN owed[c] \cup {e} ELSE owed[c]]
    /\ \E walk \in WalksOver(Subscribers) : todo' = [todo EXCEPT ![t] = walk]
    /\ UNCHANGED <<conn, queue, got>>

(* await queue.put, once there is room.                                    *)
Put(t) ==
    /\ Broadcasting(t) /\ ~ Full(Head(todo[t]))
    /\ queue' = [queue EXCEPT ![Head(todo[t])] = Append(@, LastEvent(t))]
    /\ todo' = [todo EXCEPT ![t] = Tail(@)]
    /\ UNCHANGED <<conn, got, owed, emitted, history>>

StreamNext ==
    \/ \E c \in Connections : Connect(c) \/ Read(c) \/ Disconnect(c)
    \/ \E t \in Tasks : StartBroadcast(t) \/ Put(t)

StreamSpec == StreamInit /\ [][StreamNext]_streamVars

-----------------------------------------------------------------------------
InFlight(c) == {LastEvent(t) : t \in {t \in Tasks : c \in Range(todo[t])}}

(* A connection gets every event of the broadcasts that found it           *)
(* subscribed, and the one that was current when it subscribed, exactly    *)
(* once through its queue: each is sent on, in the queue or still carried  *)
(* by its broadcast, and in one of these places only, whoever waits.       *)
StatusDelivered ==
    \A c \in Connections :
        /\ owed[c] = got[c] \cup Range(queue[c]) \cup InFlight(c)
        /\ IsInjective(queue[c])
        /\ got[c] \cap Range(queue[c]) = {}
        /\ InFlight(c) \cap (got[c] \cup Range(queue[c])) = {}

=============================================================================
