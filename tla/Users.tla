------------------------------- MODULE Users -------------------------------
(***************************************************************************)
(* The user row, which sessions, Telegram links and notifications share,   *)
(* and the requests that work on it.  A request is a handler that reads,   *)
(* awaits and writes one statement at a time, outside any transaction: a   *)
(* step here is one statement, with the check that follows it.             *)
(***************************************************************************)
EXTENDS Naturals, FiniteSets

CONSTANTS
    Handlers,       \* requests that can be under way at one time
    MaxRequests,    \* bound: requests in all
    Users,          \* ids of users
    Passwords,      \* passwords anyone chooses
    Garbled,        \* the hash of a hash, which no password matches
    Chats,          \* Telegram accounts
    MaxCodes,       \* bound: link codes generated in all
    None

ASSUME UsersAssumption ==
    /\ MaxRequests \in Nat /\ MaxCodes \in Nat
    /\ Garbled \notin Passwords
    /\ None \notin Passwords \cup {Garbled} \cup Chats \cup (1..MaxCodes)

VARIABLES
    users,          \* the table "user"
    requests,       \* how many requests there have been
    at              \* where each handler stands, and what it has read

Codes == 1..MaxCodes
Stored == Passwords \cup {Garbled, None}        \* what the password column can hold
Row == [status : {"absent", "live", "deleted"}, admin : BOOLEAN, active : BOOLEAN,
        password : Stored, mustChange : BOOLEAN,
        chosenBy : {"self", "admin", "api"},    \* history: who chose the password,
                                                \* an admin on the screen or by the API
        telegram : Chats \cup {None}, code : Codes \cup {None}]

Idle == [step |-> "idle"]
Doing(h, step) == at[h].step = step
Goto(h, place) == at' = [at EXCEPT ![h] = place]

\* A request comes in and its handler stops at its first await.
Begin(h, place) ==
    /\ at[h] = Idle /\ requests < MaxRequests
    /\ requests' = requests + 1
    /\ Goto(h, place)

\* A request that is one statement.
Once(h) == at[h] = Idle /\ requests < MaxRequests /\ requests' = requests + 1 /\ UNCHANGED at

\* The handler's next await, or its end.
Then(h, place) == Goto(h, place) /\ UNCHANGED requests

\* live(): reads leave soft-deleted users out, writes by id do not.
Live(u) == users[u].status = "live"

\* WebAuthGuard and MiniAppAuthGuard let in live, active users only.
Admitted(u) == Live(u) /\ users[u].active

\* WebAuthGuard sends a user with an initial password to /set-password.
Free(u) == Admitted(u) /\ ~users[u].mustChange

\* The unique key on telegram_id, which deleted rows keep.
ChatFree(u, c) == c = None \/ \A v \in Users \ {u} : users[v].telegram # c

ActiveAdmins == {u \in Users : Admitted(u) /\ users[u].admin}

=============================================================================
