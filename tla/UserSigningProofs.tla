------------------------- MODULE UserSigningProofs -------------------------
(***************************************************************************)
(* A prepared transfer is sent at most once, and never if it was rejected, *)
(* for every number of users and requests, every length of the minute and  *)
(* every expiry of at least one minute.                                    *)
(***************************************************************************)
EXTENDS MCUserSigning, TLAPS

(* The minutes of a clock.                                                 *)
LEMMA MinuteMonotone ==
    ASSUME NEW s \in Nat, NEW t \in Nat, s <= t
    PROVE  s \div Minute \in Nat /\ s \div Minute <= t \div Minute
<1>1. Minute \in Nat /\ Minute > 0
  BY SigningAssumption
<1> QED BY <1>1, Z3

(* An entry that expires does so after the minute in its id.               *)
LEMMA ExpiredMinuteIsOver ==
    ASSUME NEW s \in Nat, NEW t \in Nat, t > s + Expiry
    PROVE  s \div Minute < t \div Minute
<1>1. Minute \in Nat /\ Minute > 0 /\ Expiry \in Nat /\ t >= s + Minute
  BY SigningAssumption
<1> QED BY <1>1, Z3

-----------------------------------------------------------------------------
(* Types.                                                                  *)

LEMMA IdTypes ==
    ASSUME TypeOK, NEW u \in Users, NEW r \in Requests
    PROVE  TransferId(u, r) \in TransferIds
<1>1. now \in Nat /\ MaxTime \in Nat /\ now <= MaxTime
  BY SigningAssumption DEF TypeOK
<1>2. now \div Minute \in Nat /\ now \div Minute <= MaxTime \div Minute
  BY <1>1, MinuteMonotone
<1>3. MaxTime \div Minute \in Nat
  BY <1>1, MinuteMonotone
<1> QED BY <1>2, <1>3 DEF TransferId, TransferIds

LEMMA CleanedTypes ==
    ASSUME TypeOK
    PROVE  /\ CleanedUp \in [TransferIds -> Entry \cup {NoEntry}]
           /\ \A id \in TransferIds : Cleaned(id) \in Entry \cup {NoEntry}
BY DEF TypeOK, CleanedUp, Cleaned

LEMMA SettledTypes ==
    ASSUME TypeOK, NEW id \in TransferIds, Executable(id),
           NEW status \in Status, NEW hash \in Hash, Settled(id, status, hash)
    PROVE  pending' \in [TransferIds -> Entry \cup {NoEntry}]
<1>1. CleanedUp[id] \in Entry
  BY CleanedTypes DEF Executable, CleanedUp
<1>2. [CleanedUp[id] EXCEPT !.status = status, !.hash = hash] \in Entry
  BY <1>1 DEF Entry
<1> QED BY <1>2, CleanedTypes DEF Settled

LEMMA SignedNonceType ==
    ASSUME TypeOK, NEW id \in TransferIds, Executable(id)
    PROVE  SignedNonce(id) \in Nat
<1>1. Cleaned(id) \in Entry
  BY CleanedTypes DEF Executable
<1>2. nonce[id.user] \in Nat
  BY DEF TypeOK, TransferIds
<1> QED BY <1>1, <1>2 DEF SignedNonce, Entry

(* A transaction mined takes the next nonce of its user.                   *)
LEMMA MinedTypes ==
    ASSUME TypeOK, NEW id \in TransferIds, NEW n \in Nat, NEW succeeded \in BOOLEAN,
           nonce' = [nonce EXCEPT ![id.user] = @ + 1],
           mined' = mined \cup {[id |-> id, nonce |-> n, succeeded |-> succeeded]}
    PROVE  nonce' \in [Users -> Nat] /\ mined' \subseteq MinedTx
BY DEF TypeOK, TransferIds, MinedTx

LEMMA ExecuteTypes ==
    ASSUME TypeOK, NEW id \in TransferIds, Execute(id)
    PROVE  TypeOK'
<1>1. CASE ExecuteSimulated(id)
  <2>1. pending' \in [TransferIds -> Entry \cup {NoEntry}]
    BY <1>1, SettledTypes DEF ExecuteSimulated, Status, Hash
  <2> QED BY <1>1, <2>1 DEF ExecuteSimulated, TypeOK, chainVars
<1>2. CASE ExecuteRefused(id)
  <2>1. pending' \in [TransferIds -> Entry \cup {NoEntry}]
    BY <1>2, SettledTypes DEF ExecuteRefused, Status, Hash
  <2> QED BY <1>2, <2>1 DEF ExecuteRefused, TypeOK, chainVars
<1>3. ASSUME NEW succeeded \in BOOLEAN, ExecuteMined(id, succeeded)
      PROVE  TypeOK'
  <2>1. (IF succeeded THEN "confirmed" ELSE "failed") \in Status /\ "real" \in Hash
    BY DEF Status, Hash
  <2>2. pending' \in [TransferIds -> Entry \cup {NoEntry}]
    BY <1>3, <2>1, SettledTypes DEF ExecuteMined
  <2>3. nonce' \in [Users -> Nat] /\ mined' \subseteq MinedTx
    BY <1>3, MinedTypes, SignedNonceType DEF ExecuteMined
  <2> QED BY <1>3, <2>2, <2>3 DEF ExecuteMined, TypeOK
<1>4. CASE ExecuteTimedOut(id)
  <2>1. pending' \in [TransferIds -> Entry \cup {NoEntry}]
    BY <1>4, SettledTypes DEF ExecuteTimedOut, Status, Hash
  <2>2. mempool' \subseteq Tx
    BY <1>4, SignedNonceType DEF ExecuteTimedOut, TypeOK, Tx
  <2> QED BY <1>4, <2>1, <2>2 DEF ExecuteTimedOut, TypeOK
<1> QED BY <1>1, <1>2, <1>3, <1>4 DEF Execute

LEMMA StepTypes == TypeOK /\ [Next]_vars => TypeOK'
<1> SUFFICES ASSUME TypeOK, [Next]_vars
             PROVE  TypeOK'
  OBVIOUS
<1>1. ASSUME NEW u \in Users, NEW r \in Requests, Prepare(u, r)
      PROVE  TypeOK'
  <2>1. [status |-> "pending", createdAt |-> now, nonce |-> NextNonce(u), hash |-> "none"]
           \in Entry
    BY DEF TypeOK, NextNonce, Entry, Status, Hash
  <2>2. pending' \in [TransferIds -> Entry \cup {NoEntry}]
    BY <1>1, <2>1, IdTypes, CleanedTypes DEF Prepare
  <2> QED BY <1>1, <2>2 DEF Prepare, TypeOK, chainVars
<1>2. ASSUME NEW id \in TransferIds, Execute(id)
      PROVE  TypeOK'
  BY <1>2, ExecuteTypes
<1>3. ASSUME NEW id \in TransferIds, Reject(id)
      PROVE  TypeOK'
  <2>1. [pending[id] EXCEPT !.status = "rejected"] \in Entry
    BY <1>3 DEF Reject, TypeOK, Entry, Status
  <2> QED BY <1>3, <2>1 DEF Reject, TypeOK, chainVars
<1>4. CASE CleanUp
  BY <1>4, CleanedTypes DEF CleanUp, TypeOK, chainVars
<1>5. ASSUME NEW x \in mempool, NEW succeeded \in BOOLEAN, MineLate(x, succeeded)
      PROVE  TypeOK'
  <2>1. x.id \in TransferIds /\ x.nonce \in Nat
    BY DEF TypeOK, Tx
  <2>2. nonce' \in [Users -> Nat] /\ mined' \subseteq MinedTx
    BY <1>5, <2>1, MinedTypes DEF MineLate
  <2> QED BY <1>5, <2>2 DEF MineLate, TypeOK
<1>6. ASSUME NEW u \in Users, MineOther(u)
      PROVE  TypeOK'
  BY <1>6 DEF MineOther, TypeOK
<1>7. CASE Reconnect
  BY <1>7 DEF Reconnect, TypeOK, chainVars
<1>8. CASE Tick
  BY <1>8, SigningAssumption DEF Tick, TypeOK, chainVars
<1>9. CASE UNCHANGED vars
  BY <1>9 DEF vars, chainVars, TypeOK
<1> QED BY <1>1, <1>2, <1>3, <1>4, <1>5, <1>6, <1>7, <1>8, <1>9
        DEF Next, Handlers, Environment

(* Every variable keeps its type: no entry is left in the middle of a      *)
(* broadcast.                                                              *)
THEOREM TypeCorrect == Spec => []TypeOK
<1>1. Init => TypeOK
  BY SigningAssumption DEF Init, TypeOK
<1> QED BY <1>1, StepTypes, PTL DEF Spec

-----------------------------------------------------------------------------
(* A transfer is sent at most once.                                        *)

(* An entry lives in the minute its id names.                              *)
EntryInItsMinute ==
    \A id \in TransferIds :
        pending[id] # NoEntry =>
            /\ pending[id].createdAt <= now
            /\ pending[id].createdAt \div Minute = id.minute

(* The id of a sent transfer is known until its minute is over: that is    *)
(* what keeps Prepare from offering it a second time.                      *)
SentIsKnown ==
    \A x \in Sent : pending[x.id] = NoEntry => x.id.minute < now \div Minute

IInv == TypeOK /\ EntryInItsMinute /\ SentIsKnown /\ SentAtMostOnce

LEMMA SentTypes ==
    ASSUME TypeOK
    PROVE  \A x \in Sent : x \in Tx /\ x.id \in TransferIds /\ x.id.minute \in Nat
<1>1. mempool \subseteq Tx /\ mined \subseteq MinedTx
  BY DEF TypeOK
<1>2. \A x \in Sent : x \in Tx
  BY <1>1 DEF Sent, Tx, MinedTx
<1> QED BY <1>2 DEF Tx, TransferIds

(* Cleaning up forgets a sent transfer only after its minute.              *)
LEMMA CleanedKeepsSent ==
    ASSUME IInv, NEW x \in Sent, Cleaned(x.id) = NoEntry
    PROVE  x.id.minute < now \div Minute
<1>1. x.id \in TransferIds /\ now \in Nat
  BY SentTypes, SigningAssumption DEF IInv, TypeOK
<1>2. CASE pending[x.id] = NoEntry
  BY <1>2 DEF IInv, SentIsKnown
<1>3. CASE pending[x.id] # NoEntry /\ IsExpired(pending[x.id])
  <2>1. pending[x.id] \in Entry
    BY <1>1, <1>3 DEF IInv, TypeOK
  <2>2. pending[x.id].createdAt \in Nat /\ now > pending[x.id].createdAt + Expiry
    BY <1>3, <2>1 DEF IsExpired, Entry
  <2>3. pending[x.id].createdAt \div Minute < now \div Minute
    BY <1>1, <2>2, ExpiredMinuteIsOver
  <2> QED BY <1>1, <1>3, <2>3 DEF IInv, EntryInItsMinute
<1> QED BY <1>2, <1>3 DEF Cleaned

(* A handler that only cleans up, or changes the status of one entry that  *)
(* is not forgotten to something else than pending.                        *)
LEMMA CleanUpKeepsInv ==
    ASSUME IInv, UNCHANGED <<connected, now, chainVars>>, pending' = CleanedUp, TypeOK'
    PROVE  IInv'
<1>1. Sent' = Sent
  BY DEF Sent, chainVars
<1>2. \A id \in TransferIds : pending'[id] = Cleaned(id)
  BY DEF CleanedUp
<1>3. EntryInItsMinute'
  BY <1>2 DEF EntryInItsMinute, IInv, Cleaned
<1>4. SentIsKnown'
  BY <1>1, <1>2, CleanedKeepsSent, SentTypes DEF SentIsKnown, IInv
<1>5. SentAtMostOnce'
  BY <1>1, <1>2, SentTypes DEF SentAtMostOnce, IInv, Cleaned
<1> QED BY <1>3, <1>4, <1>5 DEF IInv

LEMMA PrepareKeepsInv ==
    ASSUME IInv, NEW u \in Users, NEW r \in Requests, Prepare(u, r), TypeOK'
    PROVE  IInv'
<1> DEFINE id == TransferId(u, r)
<1>1. id \in TransferIds /\ id.minute = now \div Minute /\ now \in Nat
  BY IdTypes, SigningAssumption DEF IInv, TypeOK, TransferId
<1>2. CASE Known(id)
  BY <1>2, CleanUpKeepsInv DEF Prepare
<1>3. CASE ~Known(id)
  <2>1. Sent' = Sent /\ now' = now
    BY DEF Prepare, Sent, chainVars
  <2>2. now \div Minute \in Nat
    BY <1>1, MinuteMonotone
  <2>3. \A x \in Sent : x.id # id
    BY <1>1, <1>3, <2>2, CleanedKeepsSent DEF Known
  <2>4. \A i \in TransferIds : i # id => pending'[i] = Cleaned(i)
    BY <1>1, <1>3 DEF Prepare, CleanedUp
  <2>5. pending'[id].createdAt = now
    BY <1>1, <1>3 DEF Prepare, CleanedUp
  <2>6. EntryInItsMinute'
    <3> SUFFICES ASSUME NEW i \in TransferIds, pending'[i] # NoEntry
                 PROVE  /\ pending'[i].createdAt <= now
                        /\ pending'[i].createdAt \div Minute = i.minute
      BY <2>1 DEF EntryInItsMinute
    <3>1. CASE i = id
      BY <3>1, <1>1, <2>5
    <3>2. CASE i # id
      BY <3>2, <2>4 DEF IInv, EntryInItsMinute, Cleaned
    <3> QED BY <3>1, <3>2
  <2>7. SentIsKnown'
    BY <2>1, <2>3, <2>4, CleanedKeepsSent, SentTypes DEF SentIsKnown, IInv
  <2>8. SentAtMostOnce'
    BY <2>1, <2>3, <2>4, SentTypes DEF SentAtMostOnce, IInv, Cleaned
  <2> QED BY <2>6, <2>7, <2>8 DEF IInv
<1> QED BY <1>2, <1>3

(* What every branch of execute_signed_transfer does to the invariant: one *)
(* pending entry is settled and at most its own transaction goes out.      *)
LEMMA ExecuteKeepsInv ==
    ASSUME IInv, NEW id \in TransferIds, Execute(id), TypeOK'
    PROVE  IInv'
<1>1. Executable(id) /\ now' = now
  BY DEF Execute, ExecuteSimulated, ExecuteRefused, ExecuteMined, ExecuteTimedOut
<1>2. PICK status \in Status \ {"pending"}, hash \in Hash : Settled(id, status, hash)
  BY DEF Execute, ExecuteSimulated, ExecuteRefused, ExecuteMined, ExecuteTimedOut, Status, Hash
<1>3. Sent' = Sent \/ \E n \in Nat : Sent' = Sent \cup {[id |-> id, nonce |-> n]}
  <2>1. SignedNonce(id) \in Nat
    BY <1>1, SignedNonceType DEF IInv
  <2>2. CASE UNCHANGED chainVars
    BY <2>2 DEF Sent, chainVars
  <2>3. ASSUME NEW succeeded \in BOOLEAN, ExecuteMined(id, succeeded)
        PROVE  Sent' = Sent \cup {[id |-> id, nonce |-> SignedNonce(id)]}
    <3> DEFINE t == [id |-> id, nonce |-> SignedNonce(id)]
               m == [id |-> id, nonce |-> SignedNonce(id), succeeded |-> succeeded]
    <3>1. mempool' = mempool /\ mined' = mined \cup {m}
      BY <2>3 DEF ExecuteMined
    <3>2. m.id = id /\ m.nonce = SignedNonce(id)
      OBVIOUS
    <3> HIDE DEF m
    <3>3. {[id |-> x.id, nonce |-> x.nonce] : x \in mined'}
            = {[id |-> x.id, nonce |-> x.nonce] : x \in mined} \cup {t}
      BY <3>1, <3>2
    <3> QED BY <3>1, <3>3 DEF Sent
  <2>4. CASE ExecuteTimedOut(id)
    <3>1. Sent' = Sent \cup {[id |-> id, nonce |-> SignedNonce(id)]}
      BY <2>4 DEF ExecuteTimedOut, Sent
    <3> QED BY <2>1, <3>1
  <2> QED BY <2>1, <2>2, <2>3, <2>4 DEF Execute, ExecuteSimulated, ExecuteRefused
<1>4. /\ pending[id] # NoEntry /\ pending[id] \in Entry /\ pending[id].status = "pending"
      /\ Cleaned(id) = pending[id]
  BY <1>1 DEF Executable, Cleaned, IInv, TypeOK
<1>5. \A x \in Sent : x.id # id
  BY <1>4 DEF IInv, SentAtMostOnce
<1>6. \A i \in TransferIds : i # id => pending'[i] = Cleaned(i)
  BY <1>2 DEF Settled, CleanedUp
<1>7. pending'[id] = [pending[id] EXCEPT !.status = status, !.hash = hash]
  BY <1>2, <1>4 DEF Settled, CleanedUp
<1>8. /\ pending'[id] \in Entry /\ pending'[id] # NoEntry
      /\ pending'[id].status = status /\ pending'[id].createdAt = pending[id].createdAt
  BY <1>4, <1>7, NoEntryAssumption DEF Entry
<1>9. EntryInItsMinute'
  <2> SUFFICES ASSUME NEW i \in TransferIds, pending'[i] # NoEntry
               PROVE  /\ pending'[i].createdAt <= now
                      /\ pending'[i].createdAt \div Minute = i.minute
    BY <1>1 DEF EntryInItsMinute
  <2>1. CASE i = id
    BY <2>1, <1>4, <1>8 DEF IInv, EntryInItsMinute
  <2>2. CASE i # id
    BY <2>2, <1>6 DEF IInv, EntryInItsMinute, Cleaned
  <2> QED BY <2>1, <2>2
<1>10. SentIsKnown'
  <2> SUFFICES ASSUME NEW x \in Sent', pending'[x.id] = NoEntry
               PROVE  x.id.minute < now \div Minute
    BY <1>1 DEF SentIsKnown
  <2>1. x \in Sent
    BY <1>3, <1>8
  <2> QED BY <2>1, <1>5, <1>6, SentTypes, CleanedKeepsSent DEF IInv
<1>11. SentAtMostOnce'
  <2>1. \A x, y \in Sent' : x.id = y.id => x = y
    BY <1>3, <1>5 DEF IInv, SentAtMostOnce
  <2>2. ASSUME NEW x \in Sent', pending'[x.id] # NoEntry
        PROVE  pending'[x.id].status # "pending"
    <3>1. CASE x.id = id
      BY <3>1, <1>2, <1>8
    <3>2. CASE x.id # id
      <4>1. x \in Sent
        BY <3>2, <1>3
      <4> QED BY <4>1, <3>2, <2>2, <1>6, SentTypes DEF IInv, SentAtMostOnce, Cleaned
    <3> QED BY <3>1, <3>2
  <2> QED BY <2>1, <2>2 DEF SentAtMostOnce
<1> QED BY <1>9, <1>10, <1>11 DEF IInv

LEMMA RejectKeepsInv ==
    ASSUME IInv, NEW id \in TransferIds, Reject(id), TypeOK'
    PROVE  IInv'
<1>1. Sent' = Sent /\ now' = now
  BY DEF Reject, Sent, chainVars
<1>2. \A i \in TransferIds : i # id => pending'[i] = pending[i]
  BY DEF Reject, IInv, TypeOK
<1>3. pending[id] \in Entry /\ pending'[id] = [pending[id] EXCEPT !.status = "rejected"]
  BY DEF Reject, IInv, TypeOK
<1>4. /\ pending[id] # NoEntry /\ pending'[id] # NoEntry /\ pending'[id].status = "rejected"
      /\ pending'[id].createdAt = pending[id].createdAt
  BY <1>3, NoEntryAssumption DEF Entry, Status, Reject
<1>5. EntryInItsMinute'
  BY <1>1, <1>2, <1>4 DEF IInv, EntryInItsMinute
<1>6. SentIsKnown'
  BY <1>1, <1>2, <1>4, SentTypes DEF IInv, SentIsKnown
<1>7. SentAtMostOnce'
  BY <1>1, <1>2, <1>4, SentTypes DEF IInv, SentAtMostOnce
<1> QED BY <1>5, <1>6, <1>7 DEF IInv

(* The chain moves transactions among Sent or drops them.                  *)
LEMMA EnvironmentKeepsInv ==
    ASSUME IInv, Environment, TypeOK'
    PROVE  IInv'
<1>1. pending' = pending
  BY DEF Environment, MineLate, MineOther, Reconnect, Tick
<1>2. Sent' \subseteq Sent
  <2>1. ASSUME NEW x \in mempool, NEW succeeded \in BOOLEAN, MineLate(x, succeeded)
        PROVE  Sent' \subseteq Sent
    <3>1. x = [id |-> x.id, nonce |-> x.nonce]
      BY DEF IInv, TypeOK, Tx
    <3> QED BY <2>1, <3>1 DEF MineLate, Sent
  <2>2. ASSUME NEW u \in Users, MineOther(u)
        PROVE  Sent' \subseteq Sent
    BY <2>2 DEF MineOther, Sent
  <2>3. CASE UNCHANGED chainVars
    BY <2>3 DEF Sent, chainVars
  <2> QED BY <2>1, <2>2, <2>3 DEF Environment, Reconnect, Tick
<1>3. now \in Nat /\ now' \in Nat /\ now <= now'
  BY SigningAssumption DEF IInv, TypeOK, Environment, MineLate, MineOther, Reconnect, Tick
<1>4. now \div Minute \in Nat /\ now' \div Minute \in Nat
      /\ now \div Minute <= now' \div Minute
  BY <1>3, MinuteMonotone
<1>5. EntryInItsMinute'
  <2> SUFFICES ASSUME NEW id \in TransferIds, pending[id] # NoEntry
               PROVE  /\ pending[id].createdAt <= now'
                      /\ pending[id].createdAt \div Minute = id.minute
    BY <1>1 DEF EntryInItsMinute
  <2>1. pending[id].createdAt \in Nat /\ pending[id].createdAt <= now
    BY DEF IInv, TypeOK, Entry, EntryInItsMinute
  <2> QED BY <1>3, <2>1 DEF IInv, EntryInItsMinute
<1>6. SentIsKnown'
  BY <1>1, <1>2, <1>4, SentTypes DEF IInv, SentIsKnown
<1>7. SentAtMostOnce'
  BY <1>1, <1>2 DEF IInv, SentAtMostOnce
<1> QED BY <1>5, <1>6, <1>7 DEF IInv

LEMMA InitInv == Init => IInv
BY SigningAssumption DEF Init, IInv, TypeOK, EntryInItsMinute, SentIsKnown, SentAtMostOnce, Sent

LEMMA StepKeepsInv == IInv /\ [Next]_vars => IInv'
<1> SUFFICES ASSUME IInv, [Next]_vars
             PROVE  IInv'
  OBVIOUS
<1>1. TypeOK'
  BY StepTypes DEF IInv
<1>2. CASE Handlers
  <2>1. CASE CleanUp
    BY <2>1, <1>1, CleanUpKeepsInv DEF CleanUp
  <2> QED BY <1>1, <1>2, <2>1, PrepareKeepsInv, ExecuteKeepsInv, RejectKeepsInv DEF Handlers
<1>3. CASE Environment
  BY <1>1, <1>3, EnvironmentKeepsInv
<1>4. CASE UNCHANGED vars
  BY <1>4 DEF vars, chainVars, IInv, TypeOK, EntryInItsMinute, SentIsKnown, SentAtMostOnce, Sent
<1> QED BY <1>2, <1>3, <1>4 DEF Next

(* However a user prepares, signs, retries and rejects, and however late   *)
(* the chain mines, one transfer id stands for at most one transaction.    *)
THEOREM SentOnceCorrect == Spec => []SentAtMostOnce
<1>1. IInv => SentAtMostOnce
  BY DEF IInv
<1> QED BY <1>1, InitInv, StepKeepsInv, PTL DEF Spec

-----------------------------------------------------------------------------
(* A rejected transfer is not sent.                                        *)

(* What is true of an id that is sent holds of one that is rejected, too.  *)
Over(id) ==
    /\ \A x \in Sent : x.id # id
    /\ pending[id] # NoEntry => pending[id].status # "pending"
    /\ pending[id] = NoEntry => id.minute < now \div Minute

RefusedInv == IInv /\ refused \subseteq TransferIds /\ \A id \in refused : Over(id)

(* What becomes of the entry of an id in a step.                           *)
Stays(id) == pending'[id] = pending[id]
Cleans(id) == pending'[id] = Cleaned(id)
Prepares(id) ==
    /\ id.minute = now \div Minute /\ Cleaned(id) = NoEntry
    /\ pending'[id] # NoEntry /\ pending'[id].status = "pending"
Executes(id) ==
    /\ pending[id] # NoEntry /\ pending[id].status = "pending"
    /\ pending'[id] # NoEntry /\ pending'[id].status \in {"confirmed", "failed"}
Rejects(id) ==
    /\ pending[id] # NoEntry
    /\ pending'[id] # NoEntry /\ pending'[id].status = "rejected"
    /\ Sent' = Sent

LEMMA EntriesChange ==
    ASSUME IInv, [Next]_vars, NEW id \in TransferIds
    PROVE  Stays(id) \/ Cleans(id) \/ Prepares(id) \/ Executes(id) \/ Rejects(id)
<1>1. ASSUME NEW u \in Users, NEW r \in Requests, Prepare(u, r)
      PROVE  Cleans(id) \/ Prepares(id)
  <2> DEFINE new == [status |-> "pending", createdAt |-> now, nonce |-> NextNonce(u),
                     hash |-> "none"]
  <2>1. CASE ~Known(TransferId(u, r)) /\ id = TransferId(u, r)
    <3>1. pending'[id] = new /\ id.minute = now \div Minute /\ Cleaned(id) = NoEntry
      BY <1>1, <2>1 DEF Prepare, CleanedUp, Known, TransferId
    <3>2. new \in Entry
      BY DEF IInv, TypeOK, NextNonce, Entry, Status, Hash
    <3> QED BY <3>1, <3>2, NoEntryAssumption DEF Prepares
  <2>2. CASE Known(TransferId(u, r)) \/ id # TransferId(u, r)
    BY <1>1, <2>2 DEF Prepare, CleanedUp, Cleans
  <2> QED BY <2>1, <2>2
<1>2. ASSUME NEW i \in TransferIds, Execute(i) PROVE Cleans(id) \/ Executes(id)
  <2>1. Executable(i)
    BY <1>2 DEF Execute, ExecuteSimulated, ExecuteRefused, ExecuteMined, ExecuteTimedOut
  <2>2. PICK status \in {"confirmed", "failed"}, hash \in Hash : Settled(i, status, hash)
    BY <1>2 DEF Execute, ExecuteSimulated, ExecuteRefused, ExecuteMined, ExecuteTimedOut, Hash
  <2>3. CASE id # i
    BY <2>2, <2>3 DEF Settled, CleanedUp, Cleans
  <2>4. CASE id = i
    <3>1. pending[i] \in Entry /\ pending[i] # NoEntry /\ pending[i].status = "pending"
          /\ Cleaned(i) = pending[i]
      BY <2>1 DEF Executable, Cleaned, IInv, TypeOK
    <3>2. pending'[i] = [pending[i] EXCEPT !.status = status, !.hash = hash]
      BY <2>2, <3>1 DEF Settled, CleanedUp
    <3>3. pending'[i] \in Entry /\ pending'[i].status = status
      BY <3>1, <3>2 DEF Entry, Status
    <3> QED BY <2>4, <3>1, <3>3, NoEntryAssumption DEF Executes
  <2> QED BY <2>3, <2>4
<1>3. ASSUME NEW i \in TransferIds, Reject(i) PROVE Stays(id) \/ Rejects(id)
  <2>1. CASE id # i
    BY <1>3, <2>1 DEF Reject, Stays, IInv, TypeOK
  <2>2. CASE id = i
    <3>1. pending[i] \in Entry /\ pending'[i] = [pending[i] EXCEPT !.status = "rejected"]
      BY <1>3 DEF Reject, IInv, TypeOK
    <3>2. pending'[i] \in Entry /\ pending'[i].status = "rejected" /\ Sent' = Sent
      BY <1>3, <3>1 DEF Entry, Status, Reject, Sent, chainVars
    <3> QED BY <1>3, <2>2, <3>2, NoEntryAssumption DEF Reject, Rejects
  <2> QED BY <2>1, <2>2
<1>4. CASE CleanUp
  BY <1>4 DEF CleanUp, CleanedUp, Cleans
<1>5. CASE Environment \/ UNCHANGED vars
  BY <1>5 DEF Environment, MineLate, MineOther, Reconnect, Tick, vars, Stays
<1> QED BY <1>1, <1>2, <1>3, <1>4, <1>5 DEF Next, Handlers

(* Only an execution sends, and what it sends was pending.                 *)
LEMMA SentGrows ==
    ASSUME IInv, [Next]_vars, NEW x \in Sent'
    PROVE  x \in Sent \/ (pending[x.id] # NoEntry /\ pending[x.id].status = "pending")
<1>1. ASSUME NEW id \in TransferIds, Execute(id)
      PROVE  x \in Sent \/ x.id = id
  <2>1. CASE ExecuteSimulated(id) \/ ExecuteRefused(id)
    BY <2>1 DEF ExecuteSimulated, ExecuteRefused, chainVars, Sent
  <2>2. ASSUME NEW succeeded \in BOOLEAN, ExecuteMined(id, succeeded)
        PROVE  x \in Sent \/ x.id = id
    BY <2>2 DEF ExecuteMined, Sent
  <2>3. CASE ExecuteTimedOut(id)
    BY <2>3 DEF ExecuteTimedOut, Sent
  <2> QED BY <1>1, <2>1, <2>2, <2>3 DEF Execute
<1>2. ASSUME NEW id \in TransferIds, Execute(id)
      PROVE  pending[id] # NoEntry /\ pending[id].status = "pending"
  BY <1>2 DEF Execute, ExecuteSimulated, ExecuteRefused, ExecuteMined, ExecuteTimedOut,
              Executable, Cleaned
<1>3. ASSUME UNCHANGED chainVars PROVE x \in Sent
  BY <1>3 DEF chainVars, Sent
<1>4. ASSUME NEW y \in mempool, NEW succeeded \in BOOLEAN, MineLate(y, succeeded)
      PROVE  x \in Sent
  <2>1. y = [id |-> y.id, nonce |-> y.nonce]
    BY DEF IInv, TypeOK, Tx
  <2> QED BY <1>4, <2>1 DEF MineLate, Sent
<1>5. ASSUME NEW u \in Users, MineOther(u) PROVE x \in Sent
  BY <1>5 DEF MineOther, Sent
<1>6. ASSUME NEW u \in Users, NEW r \in Requests, Prepare(u, r) PROVE x \in Sent
  BY <1>3, <1>6 DEF Prepare
<1>7. ASSUME NEW id \in TransferIds, Reject(id) PROVE x \in Sent
  BY <1>3, <1>7 DEF Reject
<1>8. CASE CleanUp \/ Reconnect \/ Tick \/ UNCHANGED vars
  BY <1>3, <1>8 DEF CleanUp, Reconnect, Tick, vars
<1>9. ASSUME NEW id \in TransferIds, Execute(id)
      PROVE  x \in Sent \/ (pending[x.id] # NoEntry /\ pending[x.id].status = "pending")
  BY <1>1, <1>2, <1>9
<1> QED BY <1>4, <1>5, <1>6, <1>7, <1>8, <1>9 DEF Next, Handlers, Environment

(* The clock does not run backwards.                                       *)
LEMMA MinutesPass ==
    ASSUME IInv, [Next]_vars
    PROVE  /\ now \div Minute \in Nat /\ now' \div Minute \in Nat
           /\ now \div Minute <= now' \div Minute
<1>1. now \in Nat /\ now' \in Nat /\ now <= now'
  BY SigningAssumption
     DEF IInv, TypeOK, Next, Handlers, Environment, Prepare, Execute, ExecuteSimulated,
         ExecuteRefused, ExecuteMined, ExecuteTimedOut, Reject, CleanUp, MineLate, MineOther,
         Reconnect, Tick, vars
<1> QED BY <1>1, MinuteMonotone

LEMMA ForgottenIsOver ==
    ASSUME IInv, NEW id \in TransferIds, pending[id] # NoEntry, IsExpired(pending[id])
    PROVE  id.minute < now \div Minute
<1>1. pending[id] \in Entry /\ now \in Nat
  BY SigningAssumption DEF IInv, TypeOK
<1>2. pending[id].createdAt \in Nat /\ now > pending[id].createdAt + Expiry
  BY <1>1 DEF IsExpired, Entry
<1>3. pending[id].createdAt \div Minute < now \div Minute
  BY <1>1, <1>2, ExpiredMinuteIsOver
<1> QED BY <1>3 DEF IInv, EntryInItsMinute

LEMMA OverStays ==
    ASSUME IInv, [Next]_vars, NEW id \in TransferIds, Over(id)
    PROVE  Over(id)'
<1>1. id.minute \in Nat
  BY DEF TransferIds
<1>2. \A x \in Sent' : x.id # id
  BY SentGrows DEF Over
<1>3. CASE Stays(id)
  BY <1>1, <1>2, <1>3, MinutesPass DEF Stays, Over
<1>4. CASE Cleans(id)
  BY <1>1, <1>2, <1>4, MinutesPass, ForgottenIsOver DEF Cleans, Cleaned, Over
<1>5. CASE Prepares(id)
  <2>1. id.minute < now \div Minute
    BY <1>5, ForgottenIsOver DEF Prepares, Cleaned, Over
  <2> QED BY <1>1, <1>5, <2>1, MinutesPass DEF Prepares
<1>6. CASE Executes(id)
  BY <1>6 DEF Executes, Over
<1>7. CASE Rejects(id)
  BY <1>2, <1>7 DEF Rejects, Over
<1> QED BY <1>3, <1>4, <1>5, <1>6, <1>7, EntriesChange

(* A transfer the user rejected before it was sent is never sent, however  *)
(* often it is prepared again.                                             *)
THEOREM RejectedCorrect == MCSpec => []RejectedIsNeverSent
<1>1. MCInit => RefusedInv
  BY InitInv DEF MCInit, RefusedInv
<1>2. RefusedInv /\ [MCNext]_mcVars => RefusedInv'
  <2> SUFFICES ASSUME RefusedInv, [MCNext]_mcVars PROVE RefusedInv'
    OBVIOUS
  <2>1. [Next]_vars /\ IInv /\ IInv'
    BY StepKeepsInv DEF MCNext, mcVars, RefusedInv
  <2>2. ASSUME NEW id \in TransferIds, pending[id] # NoEntry, pending[id].status = "pending",
               IF pending'[id] = NoEntry THEN ~IsExpired(pending[id])
                                         ELSE pending'[id].status = "rejected"
        PROVE  Over(id)'
    <3>1. Rejects(id)
      BY <2>1, <2>2, EntriesChange DEF Stays, Cleans, Cleaned, Prepares, Executes
    <3> QED BY <2>1, <2>2, <3>1 DEF Rejects, Over, IInv, SentAtMostOnce
  <2>3. ASSUME NEW id \in refused PROVE id \in TransferIds /\ Over(id)'
    BY <2>1, OverStays DEF RefusedInv
  <2>4. ASSUME NEW id \in refused' PROVE id \in TransferIds /\ Over(id)'
    BY <2>2, <2>3 DEF MCNext, mcVars
  <2> QED BY <2>1, <2>4 DEF RefusedInv
<1>3. RefusedInv => RejectedIsNeverSent
  BY DEF RefusedInv, Over, RejectedIsNeverSent
<1> QED BY <1>1, <1>2, <1>3, PTL DEF MCSpec

=============================================================================
