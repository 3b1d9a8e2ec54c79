------------------------------ MODULE Accounts ------------------------------
(***************************************************************************)
(* Users as the system has them: signing in and out, administration, links *)
(* to Telegram and notifications, all reading and writing the same row     *)
(* while none of them locks it.                                            *)
(***************************************************************************)
EXTENDS Administration, TelegramLinks, Notifications

CONSTANT FirstUsers     \* the tables the system may start from

vars == <<users, requests, at, accounts, links, outbox>>

\* No link code has been generated yet, and nobody's password is an admin's choice.
ASSUME AccountsAssumption ==
    /\ FirstUsers \subseteq [Users -> Row]
    /\ \A first \in FirstUsers : \A u \in Users :
          first[u].code = None /\ first[u].chosenBy = "self"

Session == [status : {"live", "ended"}, user : Users, hash : Nat, proof : Stored]
Token == [status : {"unused", "used", "expired", "deleted"}, user : Users, purpose : Purposes]
Recipient == [user : Users, chat : Chats \cup {None}]

EditSteps == {"editing", "linking fields", "deactivating", "overriding", "uninviting", "expelling"}

Minting == [step : {"minting"}, user : Users, proof : Stored]
Issuing == [step : {"invalidating", "issuing"}, user : Users, purpose : Purposes]
Claiming == [step : {"claiming"}, token : TokenIds, user : Users, password : Passwords]
Dropping == [step : {"dropping", "setting"}, user : Users, keep : SUBSET SessionIds,
             password : Passwords, way : {"link", "forced", "api"}]
Resetting == [step : {"dropping", "setting"}, user : Users, keep : {{}},
              password : Passwords, way : {"reset"}, row : Row]
Returning == [step : {"returning"}, user : Users]
Changed == [step : {"changing"}, user : Users, password : Passwords]
Confirming == [step : {"confirming"}, user : Users, row : Row]
Creating == [step : {"creating", "flagging"}, user : Users, admin : BOOLEAN,
             password : Passwords \cup {None}]
Inserting == [step : {"inserting"}, user : Users, form : Forms]
Editing == [step : EditSteps, user : Users, form : Forms, deactivating : BOOLEAN]
Counting == [step : {"counting"}, user : Users]
Finding == [step : {"finding"}, user : Users, others : SUBSET Users]
Removing == [step : {"ending", "removing"}, user : Users, others : SUBSET Users,
             wasAdmin : BOOLEAN]
LookingUp == [step : {"looking up"}, chat : Chats, code : Codes]
Linking == [step : {"checking", "linking"}, user : Users, chat : Chats, code : Codes \cup {None}]
Recording == [step : {"recording"}, event : Events, to : SUBSET Recipient]
Sending == [step : {"sending", "marking"}, event : Events, to : SUBSET Recipient,
            sent : Users \cup {None}]

Places == UNION {{Idle}, Minting, Issuing, Claiming, Dropping, Resetting, Returning, Changed,
                 Confirming, Creating, Inserting, Editing, Counting, Finding, Removing,
                 LookingUp, Linking, Recording, Sending}

TypeOK ==
    /\ users \in [Users -> Row]
    /\ requests \in 0..MaxRequests
    /\ at \in [Handlers -> Places]
    /\ sessions \in [SessionIds -> Session \cup {NoSession}]
    /\ excused \subseteq SessionIds
    /\ tokens \in [TokenIds -> Token \cup {NoToken}]
    /\ disturbed \subseteq Users
    /\ respent \subseteq spent
    /\ codes \in 0..MaxCodes
    /\ updates \subseteq UpdateIds
    /\ linked \in [Codes -> SUBSET Chats]
    /\ displaced \subseteq Codes
    /\ rows \in [Pairs -> Nat] /\ marked \in [Pairs -> Nat] /\ delivered \in [Pairs -> Nat]
    /\ unread \subseteq Users

Init ==
    /\ users \in FirstUsers
    /\ requests = 0
    /\ at = [h \in Handlers |-> Idle]
    /\ sessions = [s \in SessionIds |-> NoSession] /\ excused = {}
    /\ tokens = [t \in TokenIds |-> NoToken]
    /\ spent = {} /\ respent = {} /\ disturbed = {}
    /\ codes = 0 /\ updates = {} /\ linked = [i \in Codes |-> {}] /\ displaced = {}
    /\ rows = [p \in Pairs |-> 0] /\ marked = [p \in Pairs |-> 0]
    /\ delivered = [p \in Pairs |-> 0] /\ unread = {}

-----------------------------------------------------------------------------

SessionStep(h) ==
    \/ \E u \in Users, p \in Passwords :
          SignIn(h, u, p) \/ ForcedChange(h, u, p) \/ ReadForProfile(h, u, p)
    \/ \E s \in SessionIds : \/ Mint(h, s) \/ Logout(h, s)
                             \/ \E n \in 1..MaxRequests : Refresh(h, s, n)
                             \/ \E old, p \in Passwords : ApiChange(h, s, old, p)
    \/ \E u \in Users, purpose \in Purposes : AskForToken(h, u, purpose)
    \/ \E u \in Users : RevokeInvite(h, u)
    \/ \E t \in TokenIds : IssueToken(h, t) \/ \E p \in Passwords : CheckToken(h, t, p)
    \/ Invalidate(h) \/ ClaimToken(h)
    \/ DropSessions(h) \/ SetPassword(h) \/ Return(h) \/ ProfileChange(h)

AdminStep(h) ==
    \/ \E u \in Users, p \in Passwords : ReadForReset(h, u, p)
    \/ \E u \in Users : ReadForConfirm(h, u) \/ ApiRemove(h, u)
    \/ ResetPassword(h) \/ \E garbles \in BOOLEAN : ConfirmEmail(h, garbles)
    \/ \E u \in Users, admin \in BOOLEAN, p \in Passwords \cup {None} : ReadForCreate(h, u, admin, p)
    \/ InsertUser(h) \/ FlagUser(h)
    \/ \E u \in Users, form \in Forms :
          ReadForEdit(h, u, form) \/ ReadForApiCreate(h, u, form) \/ ApiUpdate(h, u, form)
    \/ ApiInsert(h)
    \/ WriteUser(h) \/ WriteFields(h) \/ EndForDeactivation(h)
    \/ OverridePassword(h) \/ Uninvite(h) \/ Expel(h)
    \/ \E actor, u \in Users : ReadForDelete(h, actor, u)
    \/ CountAdmins(h) \/ FindTarget(h) \/ EndForDelete(h) \/ RemoveUser(h)

LinkStep(h) ==
    \/ \E u \in Users : IssueCode(h, u) \/ FindCode(h, u) \/ Unlink(h, u)
    \/ \E m \in Messages : TakeUpdate(h, m)
    \/ \E u \in Users, p \in Passwords, c \in Chats : Credentials(h, u, p, c)
    \/ CheckTaken(h) \/ LinkChat(h)

NotifyStep(h) ==
    \/ \E e \in Events, named \in SUBSET Users : Notify(h, e, named)
    \/ Record(h) \/ MarkSent(h) \/ Finish(h)
    \/ \E r \in Recipient, ok \in BOOLEAN : Send(h, r, ok)
    \/ \E u \in Users : MarkAllRead(h, u)

\* A refusal, a database error, a row that is gone or a crash: what was written
\* stays, what was still to be written is not.
Abandon(h) ==
    /\ at[h] # Idle
    /\ excused' = IF at[h].step \in {"uninviting", "expelling"}
                    THEN excused \cup LiveSessions(at[h].user) ELSE excused
    /\ disturbed' = IF Doing(h, "flagging") THEN disturbed \cup {at[h].user} ELSE disturbed
    /\ Then(h, Idle)
    /\ UNCHANGED <<users, sessions, tokens, spent, respent>>

Next ==
    \/ \E h \in Handlers :
          \/ SessionStep(h) /\ UNCHANGED <<links, outbox>>
          \/ AdminStep(h) /\ UNCHANGED <<links, outbox>>
          \/ LinkStep(h) /\ UNCHANGED <<accounts, outbox>>
          \/ NotifyStep(h) /\ UNCHANGED <<accounts, links>>
          \/ Abandon(h) /\ UNCHANGED <<links, outbox>>
    \/ \E t \in TokenIds : Expire(t) /\ UNCHANGED <<links, outbox>>

Spec == Init /\ [][Next]_vars

-----------------------------------------------------------------------------
(* Properties. *)

\* "Only the first of two concurrent uses wins": a token sets one password, and a
\* refresh token is exchanged once, whatever overlaps.
SingleUse == respent = {}

\* An admin's edit has written the password and not yet ended the sessions.
Expelling(u) == \E h \in Handlers :
    at[h].step \in {"uninviting", "expelling"} /\ at[h].user = u

\* "Drops every other session": but for the sessions the code is known to spare, a
\* live session was minted on the password that is valid now.
SessionsCurrent == \A u \in Users : \A s \in LiveSessions(u) \ excused :
    sessions[s].proof = users[u].password \/ Expelling(u)

Flagging(u) == \E h \in Handlers : Doing(h, "flagging") /\ at[h].user = u

\* "So it cannot stay the admin's choice": whoever's password an admin chose on the
\* admin screen must change it, but for creations cut short and stale write-backs.
InitialPasswordMustChange == \A u \in Users :
    users[u].chosenBy = "admin" =>
        users[u].mustChange \/ Flagging(u) \/ u \in disturbed

\* Handler h soft-deletes its target.
Removes(h) == Doing(h, "removing") /\ users' # users /\ at'[h] = Idle

\* What the deletion counted, and what it read of its target, is still so.
CountStands(h) ==
    /\ at[h].others = ActiveAdmins \ {at[h].user}
    /\ at[h].wasAdmin = IsAdmin(at[h].user)

\* "Never leave the system with no way in": a deletion on the admin screen whose
\* count still stands does not take the last active admin.
DeleteKeepsAdmin == [][\A h \in Handlers :
    Removes(h) /\ CountStands(h) /\ ActiveAdmins # {} => ActiveAdmins' # {}]_vars

\* A "one-time" code links one Telegram account, unless the profile's code was
\* used, replaced or dropped between the look-up and the write.
CodeLinksOnce == \A i \in Codes \ displaced : Cardinality(linked[i]) <= 1

\* "In-app rows first": no message without its row, and a row says telegram_sent
\* only if some message about that event reached the user.
RowsBeforeMessages == \A p \in Pairs :
    /\ delivered[p] <= rows[p]
    /\ marked[p] > 0 => delivered[p] > 0

=============================================================================
