------------------------------ MODULE MCServer ------------------------------
(* The three keepers of state behind server.py that share nothing but the  *)
(* process, each explored by itself: the authentication in front of it,    *)
(* the recurring transfers and the context of chats.                       *)
EXTENDS AuthService, RecurringTransfers, ChatContext, TLC

VARIABLES focus,      \* which of the three moves
          logins,     \* history: [sub, at, secret] of each login
          loggedOut,  \* history: [jti, restarts] of each logout
          promised,   \* history: jobs confirmed and not cancelled, less what a restart may lose
          kept,       \* history: promised as of the last save that went well
          ran,        \* history: the runs of this process, [user, recipient] -> number
          alone       \* history: users with a chat that nothing else came in between of

authMC == <<authVars, logins, loggedOut>>
recurringMC == <<recurringVars, promised, kept, ran>>
chatMC == <<chatVars, alone>>
mcVars == <<focus, authMC, recurringMC, chatMC>>

NoRuns == [p \in Users \X Recipients |-> 0]

MCInit ==
    /\ focus \in {"auth", "recurring", "chat"}
    /\ AuthInit /\ RecurringInit /\ ChatInit
    /\ focus # "auth" => fixedSecret
    /\ logins = {} /\ loggedOut = {}
    /\ promised = {} /\ kept = {} /\ ran = NoRuns
    /\ alone = {}

-----------------------------------------------------------------------------
(* Authentication *)

AuthStep ==
    /\ AuthNext
    /\ logins' = IF Len(issued') = Len(issued) + 2
                 THEN logins \cup {[sub |-> Last(issued').sub, at |-> now, secret |-> secret]}
                 ELSE logins
    /\ loggedOut' = loggedOut \cup {[jti |-> j, restarts |-> restarts] : j \in revoked' \ revoked}

(* A token that was logged out is not accepted again, whatever has been    *)
(* cleaned up since; unless the secret outlives the store of logouts, and  *)
(* the process was restarted in between.                                   *)
LogoutHolds ==
    \A x \in loggedOut : Valid(x.jti) => fixedSecret /\ x.restarts < restarts

(* No chain of refreshes outlives the refresh token of a login by more     *)
(* than one access token: whoever holds a valid token logged in, under the *)
(* same secret, at most both lifetimes ago.                                *)
SessionEnds ==
    \A j \in DOMAIN issued : Valid(j) =>
        \E l \in logins : /\ l.sub = issued[j].sub /\ l.secret = secret
                          /\ now < l.at + RefreshLife + AccessLife

-----------------------------------------------------------------------------
(* Recurring transfers *)

IdsOf(s) == {s[i].id : i \in DOMAIN s}
Confirmed == IF up /\ up' THEN ToSet(jobs') \ ToSet(jobs) ELSE {}
TakenBack == IF up /\ up' THEN Known \ IdsOf(jobs') ELSE {}
Promised == {j \in promised : j.id \notin {c.id : c \in Confirmed} \cup TakenBack} \cup Confirmed

Stopping == up /\ ~up'
SavedWell == Stopping /\ Hosted /\ file' = jobs

RecurringStep ==
    /\ RecurringNext
    /\ kept' = IF SavedWell THEN promised
               ELSE IF Stopping /\ file' = Torn THEN {}
               ELSE kept
    /\ promised' = IF Stopping THEN Rebuildable(kept') ELSE Promised
    /\ ran' = IF Stopping THEN NoRuns
              ELSE IF Len(due') < Len(due)
              THEN [ran EXCEPT ![<<UserOf(Head(due)), Head(due).recipient>>] = @ + 1]
              ELSE ran

(* What users were told is scheduled is scheduled: through cancellations   *)
(* of other jobs and through a stop and a start, up to what came after the *)
(* last save that went well and frequencies _build_trigger does not know.  *)
PromisesOutliveRestart == up => promised \subseteq timers

(* The history of a user, under whichever of the user's keys, has one      *)
(* entry for each run to a recipient: also for runs that began before      *)
(* their job was cancelled or replaced.                                    *)
Entries(u, recipient) ==
    LET Of(k) == {i \in DOMAIN history[k] : history[k][i] = recipient}
    IN  Cardinality(UNION {{k} \X Of(k) : k \in {key \in HistoryKeys : key[1] = u}})
EveryRunIsRecorded ==
    \A u \in Users, recipient \in Recipients : Entries(u, recipient) = ran[<<u, recipient>>]

-----------------------------------------------------------------------------
(* Chats *)

Asking(u) == chats[u] = NoChat /\ chats'[u] # NoChat

ChatStep ==
    /\ ChatNext
    /\ alone' = {u \in ChatUsers : /\ chats'[u] # NoChat
                                   /\ Asking(u) \/ u \in alone
                                   /\ \A v \in ChatUsers \ {u} : ~Asking(v)
                                   /\ Asking(u) \/ UNCHANGED <<wallet, contacts>>}

(* A turn of a chat that no other chat or post came in between of reads    *)
(* its own: the wallet it brought from the tool, whatever failed in the    *)
(* middleware, and in the instructions, when they were built, its wallet   *)
(* and contacts.                                                           *)
AloneSeesOwn == lastTurn.user \in alone => ReadItsOwn

-----------------------------------------------------------------------------
MCNext ==
    /\ UNCHANGED focus
    /\ \/ focus = "auth" /\ AuthStep /\ UNCHANGED <<recurringMC, chatMC>>
       \/ focus = "recurring" /\ RecurringStep /\ UNCHANGED <<authMC, chatMC>>
       \/ focus = "chat" /\ ChatStep /\ UNCHANGED <<authMC, recurringMC>>

MCSpec == MCInit /\ [][MCNext]_mcVars

(* The fee preference and the last notice change nothing else, and no      *)
(* property is about them; of a wallet that is not connected nothing reads *)
(* the address.  Of a chat that is not alone the invariants of this view   *)
(* say nothing, and it never is again: only that it goes on matters.       *)
OfChat(u) == IF u \in alone THEN <<chats[u]>> ELSE <<chats[u] # NoChat>>
TurnSeen == IF lastTurn.user \in alone THEN lastTurn ELSE NoTurn
WhatMatters ==
    <<focus, authMC, jobs, timers, due, history, file, up, clock, starts, promised, kept, ran,
      WalletShown(wallet), wallet.connected, wallet.balances, contacts,
      instructions.wallet, instructions.contacts, [u \in ChatUsers |-> OfChat(u)], TurnSeen,
      alone>>

Symmetry == Permutations(Users) \cup Permutations(ChatUsers)

=============================================================================
