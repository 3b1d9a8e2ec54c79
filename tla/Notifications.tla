---------------------------- MODULE Notifications ----------------------------
(***************************************************************************)
(* NotificationsService.notify: in-app rows first ("they are the durable   *)
(* record, Telegram is the courier"), then one message after another, each *)
(* marked as sent once the Bot API has taken it.  Nobody waits for it, and *)
(* it may stop anywhere.                                                   *)
(***************************************************************************)
EXTENDS Users

CONSTANTS
    Events,         \* events there are routes for
    ToAdmins        \* those addressed to a role; the others name their recipients

ASSUME NotificationsAssumption == ToAdmins \subseteq Events

VARIABLES
    rows,           \* how many notifications of an event a user has,
    marked,         \* and how many of them say telegram_sent
    delivered,      \* history: messages the Bot API has taken for a user
    unread          \* users with a notification they have not read

outbox == <<rows, marked, delivered, unread>>
Pairs == Users \X Events

\* resolveRecipients, of active and live users only.
Recipients(e, named) ==
    {u \in Users : Admitted(u) /\ IF e \in ToAdmins THEN users[u].admin ELSE u \in named}

Notify(h, e, named) ==
    /\ Begin(h, [step |-> "recording", event |-> e,
                 to |-> {[user |-> u, chat |-> users[u].telegram] : u \in Recipients(e, named)}])
    /\ UNCHANGED <<users, outbox>>

Names(to) == {r.user : r \in to}

\* createAll, one statement for all of them.
Record(h) ==
    /\ Doing(h, "recording")
    /\ LET to == at[h].to
           e == at[h].event
       IN /\ rows' = [p \in Pairs |-> IF p[1] \in Names(to) /\ p[2] = e THEN rows[p] + 1 ELSE rows[p]]
          /\ unread' = unread \cup Names(to)
          /\ Then(h, [step |-> "sending", event |-> e, sent |-> None,
                      to |-> {r \in to : r.chat # None}])
    /\ UNCHANGED <<users, marked, delivered>>

\* Slip: a message is marked whether or not it was taken.
SendMarked(h, r, ok) ==
    /\ Doing(h, "sending") /\ r \in at[h].to
    /\ delivered' = IF ok THEN [delivered EXCEPT ![<<r.user, at[h].event>>] = @ + 1] ELSE delivered
    /\ Then(h, [at[h] EXCEPT !.to = @ \ {r}, !.step = "marking", !.sent = r.user])
    /\ UNCHANGED <<users, rows, marked, unread>>

\* The Bot API takes the message, or send returns null and the loop goes on.
Send(h, r, ok) ==
    /\ Doing(h, "sending") /\ r \in at[h].to
    /\ delivered' = IF ok THEN [delivered EXCEPT ![<<r.user, at[h].event>>] = @ + 1] ELSE delivered
    /\ Then(h, [at[h] EXCEPT !.to = @ \ {r}, !.step = IF ok THEN "marking" ELSE "sending",
                             !.sent = r.user])
    /\ UNCHANGED <<users, rows, marked, unread>>

\* markSent finds the rows by user and event, not the one this message is about.
MarkSent(h) ==
    /\ Doing(h, "marking")
    /\ LET p == <<at[h].sent, at[h].event>> IN marked' = [marked EXCEPT ![p] = rows[p]]
    /\ Then(h, [at[h] EXCEPT !.step = "sending"])
    /\ UNCHANGED <<users, rows, delivered, unread>>

Finish(h) ==
    /\ Doing(h, "sending") /\ at[h].to = {}
    /\ Then(h, Idle)
    /\ UNCHANGED <<users, outbox>>

\* markAllRead
MarkAllRead(h, u) ==
    /\ Admitted(u)
    /\ unread' = unread \ {u}
    /\ Once(h)
    /\ UNCHANGED <<users, rows, marked, delivered>>

=============================================================================
