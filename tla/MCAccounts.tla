----------------------------- MODULE MCAccounts -----------------------------
(* A finite instance of Accounts for TLC, which evaluates the assumptions of        *)
(* Migrations with it: the unique keys Accounts counts on are among them.          *)
EXTENDS Accounts, Migrations, TLC

CONSTANTS h1, h2, u1, u2, p1, p2, t1, t2

Admin(p, chat) ==
    [status |-> "live", admin |-> TRUE, active |-> TRUE, password |-> p, mustChange |-> FALSE,
     chosenBy |-> "self", telegram |-> chat, code |-> None]
Nobody ==
    [status |-> "absent", admin |-> FALSE, active |-> FALSE, password |-> None,
     mustChange |-> FALSE, chosenBy |-> "self", telegram |-> None, code |-> None]

\* Two admins, one of them linked to Telegram, or one admin and a seat left.
MCFirstUsers == {u1 :> Admin(p1, None) @@ u2 :> Admin(p1, t1),
                 u1 :> Admin(p1, None) @@ u2 :> Nobody}

\* An admin takes the role away and sets a password; one deactivates.
MCForms == {[admin |-> FALSE, active |-> TRUE, telegram |-> None, password |-> p2],
            [admin |-> TRUE, active |-> FALSE, telegram |-> None, password |-> None]}

\* Two chats send the first code.
MCMessages == {[id |-> 1, chat |-> t1, code |-> 1], [id |-> 2, chat |-> t2, code |-> 1]}

=============================================================================
