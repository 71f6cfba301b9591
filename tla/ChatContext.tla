---------------------------- MODULE ChatContext ----------------------------
(***************************************************************************)
(* WalletContextMiddleware of server.py with the services it fills         *)
(* (wallet_context_service.py, contacts_context_service.py), the           *)
(* /wallet/context, /contacts/context and /api/settings endpoints, and the *)
(* get_current_wallet_context tool.                                        *)
(*                                                                         *)
(* All requests share one wallet context, one list of contacts and one     *)
(* agent with its instructions.  The middleware sets all three in a step   *)
(* (the balances come from blocking calls); then the chat suspends with    *)
(* every turn of the model, and a turn reads what is there by then.  An    *)
(* exception on the way is logged and swallowed: the chat goes on with     *)
(* what was set before it.  The context written in front of the message    *)
(* is made last in that step and stays the request's own: it is left out.  *)
(*                                                                         *)
(* A wallet, its balances and a list of contacts are modelled by whose     *)
(* they are, and for contacts whether they can be sorted, as building the  *)
(* instructions does; of the settings only the one these depend on.        *)
(* Names, amounts and the wording of the prompt are left out.              *)
(***************************************************************************)
EXTENDS Naturals, FiniteSets

CONSTANTS ChatUsers,
          Nobody,  \* whose wallet or contacts: there are none
          NoChat

ASSUME ChatAssumption == Nobody \notin ChatUsers

VARIABLES wallet,       \* _current_context
          contacts,     \* _contacts
          showFees,     \* showFeeComparison of the user "default", in _user_settings
          instructions, \* agent.instructions
          chats,        \* what the chat each user has open has brought, and
                        \* whether the instructions were built for it
          lastTurn      \* whose turn the last one was and what it read, until that chat ends

chatVars == <<wallet, contacts, showFees, instructions, chats, lastTurn>>

Owner == ChatUsers \cup {Nobody}
WalletGiven == {"absent", "connected", "disconnected"}

(* What a body has for contacts: a list that can be sorted by updatedAt,   *)
(* one that cannot as its values are of several types, or one with an item *)
(* that is not a contact.                                                  *)
ContactsGiven == {"absent", "sortable", "unsortable", "broken"}
Contacts == [of : Owner, sortable : BOOLEAN]
NoContacts == [of |-> Nobody, sortable |-> TRUE]

Brought == [wallet : WalletGiven, contacts : ContactsGiven, built : BOOLEAN]

ChatTypeOK ==
    /\ wallet \in [address : Owner, connected : BOOLEAN, balances : Owner]
    /\ contacts \in Contacts
    /\ showFees \in BOOLEAN
    /\ instructions \in [wallet : Owner, contacts : Owner, fees : BOOLEAN]
    /\ chats \in [ChatUsers -> Brought \cup {NoChat}]
    /\ lastTurn \in [user : Owner, wallet : Owner, contacts : Owner, tool : Owner]

NoTurn == [user |-> Nobody, wallet |-> Nobody, contacts |-> Nobody, tool |-> Nobody]

ChatInit ==
    /\ wallet = [address |-> Nobody, connected |-> FALSE, balances |-> Nobody]
    /\ contacts = NoContacts
    /\ showFees = TRUE
    /\ instructions = [wallet |-> Nobody, contacts |-> Nobody, fees |-> TRUE]
    /\ chats = [u \in ChatUsers |-> NoChat]
    /\ lastTurn = NoTurn

-----------------------------------------------------------------------------
(* Mutant: a failure leaves what was there.                                *)
FetchedOrKept(u) == {u, wallet.balances}

(* _fetch_balances: whose balances the context has behind it; a failure    *)
(* clears them.                                                            *)
Fetched(u) == {u, Nobody}

(* update_wallet_context.                                                  *)
Connect(u) ==
    \E balances \in Fetched(u) :
        wallet' = [address |-> u, connected |-> TRUE, balances |-> balances]

Disconnect(u) ==
    \E address \in {u, Nobody} :
        wallet' = [address |-> address, connected |-> FALSE, balances |-> Nobody]

UpdateWallet(u, given) ==
    CASE given = "connected" -> Connect(u)
      [] given = "disconnected" -> Disconnect(u)
      [] given = "absent" -> UNCHANGED wallet

(* update_contacts: a list it cannot read leaves none.                     *)
UpdateContacts(u, given) ==
    contacts' = CASE given = "absent" -> contacts
                  [] given = "sortable" -> [of |-> u, sortable |-> TRUE]
                  [] given = "unsortable" -> [of |-> u, sortable |-> FALSE]
                  [] given = "broken" -> NoContacts

WalletShown(w) == IF w.connected THEN w.address ELSE Nobody

(* Mutant: the instructions are built before the contacts are updated.     *)
BuildEarly == [wallet |-> WalletShown(wallet'), contacts |-> contacts.of, fees |-> showFees']

(* _build_dynamic_instructions: the fee preference is the one kept as      *)
(* "default", whoever asks.                                                *)
Build == [wallet |-> WalletShown(wallet'), contacts |-> contacts'.of, fees |-> showFees']

-----------------------------------------------------------------------------
(* The chat of u begins, with what was taken from its body; without its    *)
(* instructions nothing shows its contacts.                                *)
Begin(u, given, gives) ==
    chats' = [chats EXCEPT ![u] = [wallet |-> given, contacts |-> gives, built |-> TRUE]]
BeginUnbuilt(u, given) ==
    chats' = [chats EXCEPT ![u] = [wallet |-> given, contacts |-> "absent", built |-> FALSE]]

(* The middleware goes through: an empty list of contacts, and settings    *)
(* the body does not have, leave what is there.                            *)
Rebuilds(u, given, gives) ==
    /\ UpdateContacts(u, gives)
    /\ contacts'.sortable
    /\ showFees' \in BOOLEAN
    /\ instructions' = Build
    /\ Begin(u, given, gives)

(* The contacts there by then, the body's or older ones, do not sort.      *)
FailsToBuild(u, given, gives) ==
    /\ UpdateContacts(u, gives)
    /\ ~contacts'.sortable
    /\ showFees' \in BOOLEAN
    /\ UNCHANGED instructions
    /\ BeginUnbuilt(u, given)

(* The user id of the settings cannot be a key.                            *)
FailsAtSettings(u, given, gives) ==
    /\ UpdateContacts(u, gives)
    /\ UNCHANGED <<showFees, instructions>>
    /\ BeginUnbuilt(u, given)

(* The address is no string: logging it fails, and in _fetch_balances too. *)
FailsAfterWallet(u, given) ==
    /\ given # "absent"
    /\ wallet'.balances = Nobody
    /\ UNCHANGED <<contacts, showFees, instructions>>
    /\ BeginUnbuilt(u, given)

Chat(u, given, gives) ==
    /\ chats[u] = NoChat
    /\ UpdateWallet(u, given)
    /\ \/ Rebuilds(u, given, gives)
       \/ FailsToBuild(u, given, gives)
       \/ FailsAtSettings(u, given, gives)
       \/ FailsAfterWallet(u, given)
    /\ UNCHANGED lastTurn

(* A turn of the model: it reads the agent's instructions as they are now, *)
(* and get_current_wallet_context what is in the service.                  *)
Turn(u) ==
    /\ chats[u] # NoChat
    /\ lastTurn' = [user |-> u, wallet |-> instructions.wallet,
                    contacts |-> instructions.contacts, tool |-> WalletShown(wallet)]
    /\ UNCHANGED <<wallet, contacts, showFees, instructions, chats>>

Reply(u) ==
    /\ chats[u] # NoChat
    /\ chats' = [chats EXCEPT ![u] = NoChat]
    /\ lastTurn' = IF lastTurn.user = u THEN NoTurn ELSE lastTurn
    /\ UNCHANGED <<wallet, contacts, showFees, instructions>>

(* POST /wallet/context.                                                   *)
PostWallet(u, given) ==
    /\ UpdateWallet(u, given)
    /\ UNCHANGED <<contacts, showFees, instructions, chats, lastTurn>>

(* POST /contacts/context: here an empty list is taken too, and leaves     *)
(* none as one that cannot be read does.                                   *)
PostContacts(u, given) ==
    /\ UpdateContacts(u, given)
    /\ UNCHANGED <<wallet, showFees, instructions, chats, lastTurn>>

(* PUT /api/settings.                                                      *)
PutSettings(show) ==
    /\ showFees' = show
    /\ UNCHANGED <<wallet, contacts, instructions, chats, lastTurn>>

ChatNext ==
    \/ \E u \in ChatUsers, given \in WalletGiven, gives \in ContactsGiven : Chat(u, given, gives)
    \/ \E u \in ChatUsers : Turn(u)
    \/ \E u \in ChatUsers : Reply(u)
    \/ \E u \in ChatUsers, given \in WalletGiven \ {"absent"} : PostWallet(u, given)
    \/ \E u \in ChatUsers, given \in ContactsGiven \ {"absent"} : PostContacts(u, given)
    \/ \E show \in BOOLEAN : PutSettings(show)

ChatSpec == ChatInit /\ [][ChatNext]_chatVars

-----------------------------------------------------------------------------
(* The balances shown are of the wallet shown, or there are none: also     *)
(* when the node does not answer behind a change of wallet.                *)
BalancesAreOfTheWallet ==
    wallet.balances # Nobody => wallet.connected /\ wallet.balances = wallet.address

(* The last turn read what its own chat brought, from the tool and, if     *)
(* they were built for it, in the instructions: also that there is no      *)
(* wallet, and no contacts where its list could not be read.               *)
ReadItsOwn ==
    LET brought == chats[lastTurn.user] IN
    /\ brought.wallet = "connected" => lastTurn.tool = lastTurn.user
    /\ brought.wallet = "disconnected" => lastTurn.tool = Nobody
    /\ brought.built =>
          /\ brought.wallet = "connected" => lastTurn.wallet = lastTurn.user
          /\ brought.wallet = "disconnected" => lastTurn.wallet = Nobody
          /\ brought.contacts = "sortable" => lastTurn.contacts = lastTurn.user
          /\ brought.contacts = "broken" => lastTurn.contacts = Nobody

(* "LIVE Wallet Context (auto-injected per request)" (server.py:159): each *)
(* turn of a chat, built for as it should, reads what the chat brought.    *)
TurnsSeeTheirOwn == lastTurn # NoTurn => ReadItsOwn

=============================================================================
