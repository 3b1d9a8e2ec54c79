---------------------------- MODULE TelegramLinks ----------------------------
(***************************************************************************)
(* Linking Telegram accounts to profiles (TelegramLinkService) and the     *)
(* webhook that carries `/link <code>` (TelegramController).  Telegram     *)
(* sends an update again until it is answered with a 200, and may send     *)
(* several at a time.                                                      *)
(***************************************************************************)
EXTENDS Users

CONSTANT Messages   \* updates Telegram may deliver: [id, chat, code]

ASSUME TelegramLinksAssumption ==
    \A m \in Messages : m.chat \in Chats /\ m.code \in Codes

VARIABLES
    codes,          \* link codes generated so far
    updates,        \* the table telegram_updates
    linked,         \* history: the chats each code has linked
    displaced       \* history: codes that linked a chat when they were no longer the profile's

links == <<codes, updates, linked, displaced>>
UpdateIds == {m.id : m \in Messages}

\* issueLinkToken: a new code replaces the one before.
IssueCode(h, u) ==
    /\ Free(u) /\ codes < MaxCodes
    /\ codes' = codes + 1
    /\ users' = [users EXCEPT ![u].code = codes + 1]
    /\ Once(h)
    /\ UNCHANGED <<updates, linked, displaced>>

\* webhook: update_id is inserted first; one that is there already is dropped.
TakeUpdate(h, m) ==
    /\ m.id \notin updates
    /\ updates' = updates \cup {m.id}
    /\ Begin(h, [step |-> "looking up", chat |-> m.chat, code |-> m.code])
    /\ UNCHANGED <<users, codes, linked, displaced>>

\* The chat may already be linked to another live profile.
NotTaken(u, c) == \A v \in Users \ {u} : Live(v) => users[v].telegram # c

\* consumeLinkToken finds the live profile that has the code ...
FindCode(h, u) ==
    /\ Doing(h, "looking up")
    /\ Live(u) /\ users[u].code = at[h].code
    /\ Then(h, [step |-> "checking", user |-> u, chat |-> at[h].chat, code |-> at[h].code])
    /\ UNCHANGED <<users, links>>

\* linkWithCredentials, from the Mini App.
Credentials(h, u, p, c) ==
    /\ Admitted(u) /\ users[u].password = p /\ p # None
    /\ Begin(h, [step |-> "checking", user |-> u, chat |-> c, code |-> None])
    /\ UNCHANGED <<users, links>>

\* ... and nobody else who has the chat.
CheckTaken(h) ==
    /\ Doing(h, "checking")
    /\ NotTaken(at[h].user, at[h].chat)
    /\ Then(h, [at[h] EXCEPT !.step = "linking"])
    /\ UNCHANGED <<users, links>>

\* Slip: the code stays on the profile.
LinkChatAgain(h) ==
    /\ Doing(h, "linking")
    /\ LET u == at[h].user
           n == at[h].code
       IN /\ ChatFree(u, at[h].chat)
          /\ users' = [users EXCEPT ![u].telegram = at[h].chat]
          /\ linked' = [i \in Codes |-> IF i = n THEN linked[i] \cup {at[h].chat} ELSE linked[i]]
          /\ displaced' = IF n # None /\ users[u].code # n THEN displaced \cup {n} ELSE displaced
    /\ Then(h, Idle)
    /\ UNCHANGED <<codes, updates>>

\* setTelegram writes by id and clears the code, whichever it is by now.
LinkChat(h) ==
    /\ Doing(h, "linking")
    /\ LET u == at[h].user
           n == at[h].code
       IN /\ ChatFree(u, at[h].chat)
          /\ users' = [users EXCEPT ![u].telegram = at[h].chat, ![u].code = None]
          /\ linked' = [i \in Codes |-> IF i = n THEN linked[i] \cup {at[h].chat} ELSE linked[i]]
          /\ displaced' = IF n # None /\ users[u].code # n THEN displaced \cup {n} ELSE displaced
    /\ Then(h, Idle)
    /\ UNCHANGED <<codes, updates>>

\* Slip: the columns are blanked, not cleared.
UnlinkBlank(h, u) ==
    /\ Free(u)
    /\ users' = [users EXCEPT ![u].telegram = "", ![u].code = ""]
    /\ Once(h)
    /\ UNCHANGED links

Unlink(h, u) ==
    /\ Free(u)
    /\ users' = [users EXCEPT ![u].telegram = None, ![u].code = None]
    /\ Once(h)
    /\ UNCHANGED links

=============================================================================
