--------------------------- MODULE Administration ---------------------------
(***************************************************************************)
(* Requests that write a user's row for someone else, or write it back     *)
(* whole: the admin screen (AdminUsersController), the users API           *)
(* (UsersController), and the API's resetPassword and confirmNewEmail,     *)
(* which save the user object they read before.                            *)
(***************************************************************************)
EXTENDS Sessions

CONSTANT Forms      \* what an admin's form asks for: [admin, active, telegram, password]

ASSUME AdministrationAssumption ==
    Forms \subseteq [admin : BOOLEAN, active : BOOLEAN,
                     telegram : Chats \cup {None}, password : Passwords \cup {None}]

-----------------------------------------------------------------------------
(* Write-backs. *)

\* What of a row is written back.
Kept(row) == <<row.admin, row.active, row.mustChange, row.password>>

ReadForReset(h, u, p) ==
    /\ Live(u)
    /\ Begin(h, [step |-> "dropping", user |-> u, keep |-> {}, password |-> p,
                 way |-> "reset", row |-> users[u]])
    /\ UNCHANGED <<users, accounts>>

\* resetPassword: the sessions have ended; role, active and flag go back to what
\* they were when the row was read.
ResetPassword(h) ==
    /\ Doing(h, "setting") /\ at[h].way = "reset"
    /\ LET u == at[h].user
           row == at[h].row
       IN /\ Live(u)
          /\ users' = [users EXCEPT ![u].password = at[h].password, ![u].chosenBy = "self",
                 ![u].admin = row.admin, ![u].active = row.active,
                 ![u].mustChange = row.mustChange]
          /\ disturbed' = IF Kept(row) = Kept(users[u]) THEN disturbed ELSE disturbed \cup {u}
    /\ Then(h, Idle)
    /\ UNCHANGED <<sessions, excused, tokens, spent, respent>>

ReadForConfirm(h, u) ==
    /\ Live(u)
    /\ Begin(h, [step |-> "confirming", user |-> u, row |-> users[u]])
    /\ UNCHANGED <<users, accounts>>

\* confirmNewEmail: the account is active again, and a password hash that is no
\* longer the stored one is hashed and stored as if it were a password, unless
\* the comparison was made before the stored one changed.
ConfirmEmail(h, garbles) ==
    /\ Doing(h, "confirming")
    /\ LET u == at[h].user
           row == at[h].row
       IN /\ Live(u)
          /\ garbles => row.password \notin {None, users[u].password}
          /\ users' = [users EXCEPT
                 ![u].admin = row.admin, ![u].active = TRUE, ![u].mustChange = row.mustChange,
                 ![u].password = IF garbles THEN Garbled ELSE @,
                 ![u].chosenBy = IF garbles THEN "self" ELSE @]
          /\ excused' = IF garbles THEN excused \cup LiveSessions(u) ELSE excused
          /\ disturbed' = IF Kept(row) = Kept(users[u]) THEN disturbed ELSE disturbed \cup {u}
    /\ Then(h, Idle)
    /\ UNCHANGED <<sessions, tokens, spent, respent>>

-----------------------------------------------------------------------------
(* The admin screen. *)

\* create: the e-mail address has no account yet.
ReadForCreate(h, u, admin, p) ==
    /\ ActiveAdmins # {}
    /\ users[u].status = "absent"
    /\ Begin(h, [step |-> "creating", user |-> u, admin |-> admin, password |-> p])
    /\ UNCHANGED <<users, accounts>>

\* UsersService.create: the row, on which mustChangePassword is always false.
NewUser(admin, active, p, by) ==
    [status |-> "live", admin |-> admin, active |-> active, password |-> p,
     mustChange |-> FALSE, chosenBy |-> IF p = None THEN "self" ELSE by,
     telegram |-> None, code |-> None]

InsertUser(h) ==
    /\ Doing(h, "creating")
    /\ LET u == at[h].user IN
       /\ users[u].status = "absent"
       /\ users' = [users EXCEPT ![u] = NewUser(at[h].admin, TRUE, at[h].password, "admin")]
    /\ Then(h, [at[h] EXCEPT !.step = "flagging"])
    /\ UNCHANGED accounts

\* A second write flags an initial password; an invited user is sent a token.
FlagUser(h) ==
    /\ Doing(h, "flagging")
    /\ LET u == at[h].user IN
       /\ Live(u)
       /\ users' = [users EXCEPT ![u].mustChange = @ \/ at[h].password # None]
       /\ Then(h, IF at[h].password # None THEN Idle
                    ELSE [step |-> "invalidating", user |-> u, purpose |-> "invite"])
    /\ UNCHANGED accounts

ReadForEdit(h, u, form) ==
    /\ ActiveAdmins # {}
    /\ Live(u)
    /\ Begin(h, [step |-> "editing", user |-> u, form |-> form,
                 deactivating |-> users[u].active /\ ~form.active])
    /\ UNCHANGED <<users, accounts>>

WriteUser(h) ==
    /\ Doing(h, "editing")
    /\ LET u == at[h].user IN
       /\ Live(u)
       /\ users' = [users EXCEPT ![u].admin = at[h].form.admin, ![u].active = at[h].form.active]
    /\ Then(h, [at[h] EXCEPT !.step = "linking fields"])
    /\ UNCHANGED accounts

\* What is left of an edit: sessions to end, a password to write, or nothing.
AfterEnding(h) ==
    IF at[h].form.password = None THEN Idle ELSE [at[h] EXCEPT !.step = "overriding"]
AfterFields(h) ==
    IF at[h].deactivating THEN [at[h] EXCEPT !.step = "deactivating"] ELSE AfterEnding(h)

WriteFields(h) ==
    /\ Doing(h, "linking fields")
    /\ LET u == at[h].user IN
       /\ Live(u) /\ ChatFree(u, at[h].form.telegram)
       /\ users' = [users EXCEPT ![u].telegram = at[h].form.telegram]
    /\ Then(h, AfterFields(h))
    /\ UNCHANGED accounts

EndForDeactivation(h) ==
    /\ Doing(h, "deactivating")
    /\ EndSessions(at[h].user, {})
    /\ Then(h, AfterEnding(h))
    /\ UNCHANGED <<users, excused, tokens, spent, respent, disturbed>>

\* Slip: the password is written and the flag forgotten.
OverridePasswordUnflagged(h) ==
    /\ Doing(h, "overriding")
    /\ LET u == at[h].user IN
       /\ Live(u)
       /\ users' = [users EXCEPT ![u].password = at[h].form.password, ![u].chosenBy = "admin"]
    /\ Then(h, [at[h] EXCEPT !.step = "uninviting"])
    /\ UNCHANGED accounts

OverridePassword(h) ==
    /\ Doing(h, "overriding")
    /\ LET u == at[h].user IN
       /\ Live(u)
       /\ users' = [users EXCEPT ![u].password = at[h].form.password, ![u].chosenBy = "admin",
                                 ![u].mustChange = TRUE]
    /\ Then(h, [at[h] EXCEPT !.step = "uninviting"])
    /\ UNCHANGED accounts

\* "An admin-set password invalidates any pending invite and every live session."
Uninvite(h) ==
    /\ Doing(h, "uninviting")
    /\ tokens' = WithoutTokens(at[h].user, "invite")
    /\ Then(h, [at[h] EXCEPT !.step = "expelling"])
    /\ UNCHANGED <<users, sessions, excused, spent, respent, disturbed>>

Expel(h) ==
    /\ Doing(h, "expelling")
    /\ EndSessions(at[h].user, {})
    /\ Then(h, Idle)
    /\ UNCHANGED <<users, excused, tokens, spent, respent, disturbed>>

\* delete: the guard admits an admin, who may not pick their own account ...
ReadForDelete(h, actor, u) ==
    /\ actor \in ActiveAdmins /\ actor # u
    /\ Begin(h, [step |-> "counting", user |-> u])
    /\ UNCHANGED <<users, accounts>>

\* Slip: the count includes the account that is to go.
CountAdminsAll(h) ==
    /\ Doing(h, "counting")
    /\ Then(h, [step |-> "finding", user |-> at[h].user, others |-> ActiveAdmins])
    /\ UNCHANGED <<users, accounts>>

\* ... countActiveWithRole looks for the other active admins ...
CountAdmins(h) ==
    /\ Doing(h, "counting")
    /\ Then(h, [step |-> "finding", user |-> at[h].user,
                others |-> ActiveAdmins \ {at[h].user}])
    /\ UNCHANGED <<users, accounts>>

IsAdmin(u) == Live(u) /\ users[u].admin

\* What delete has read once its check is passed.
Removal(h) == [step |-> "ending", user |-> at[h].user, others |-> at[h].others,
               wasAdmin |-> IsAdmin(at[h].user)]

\* Slip: whether it is the last active admin is not asked.
FindTargetUnchecked(h) ==
    /\ Doing(h, "finding")
    /\ Then(h, Removal(h))
    /\ UNCHANGED <<users, accounts>>

\* ... and the target, if it is an admin and they are none, stays ...
FindTarget(h) ==
    /\ Doing(h, "finding")
    /\ ~(IsAdmin(at[h].user) /\ at[h].others = {})
    /\ Then(h, Removal(h))
    /\ UNCHANGED <<users, accounts>>

EndForDelete(h) ==
    /\ Doing(h, "ending")
    /\ EndSessions(at[h].user, {})
    /\ Then(h, [at[h] EXCEPT !.step = "removing"])
    /\ UNCHANGED <<users, excused, tokens, spent, respent, disturbed>>

\* ... and the row is soft-deleted by id.
RemoveUser(h) ==
    /\ Doing(h, "removing")
    /\ users' = [users EXCEPT ![at[h].user].status = IF @ = "live" THEN "deleted" ELSE @]
    /\ Then(h, Idle)
    /\ UNCHANGED accounts

-----------------------------------------------------------------------------
(* The users API: the guard reads the role in the token, not the row. *)

\* POST /users: the e-mail address has no account yet ...
ReadForApiCreate(h, u, form) ==
    /\ users[u].status = "absent"
    /\ Begin(h, [step |-> "inserting", user |-> u, form |-> form])
    /\ UNCHANGED <<users, accounts>>

\* ... and the row is inserted, with the password the form had, if any; no flag and
\* no invite follow.
ApiInsert(h) ==
    /\ Doing(h, "inserting")
    /\ LET u == at[h].user
           form == at[h].form
       IN /\ users[u].status = "absent"
          /\ users' = [users EXCEPT ![u] = NewUser(form.admin, form.active, form.password, "api")]
    /\ Then(h, Idle)
    /\ UNCHANGED accounts

\* PATCH /users/:id: role, active and password as the form has them; what it leaves
\* out stays.  No session ends, whether the account is deactivated or its password
\* set, and the flag stays: the validation pipe strips it from the form.
ApiUpdate(h, u, form) ==
    /\ Live(u)
    /\ LET p == form.password IN
       /\ users' = [users EXCEPT ![u].admin = form.admin, ![u].active = form.active,
                                 ![u].password = IF p = None THEN @ ELSE p,
                                 ![u].chosenBy = IF p = None THEN @ ELSE "api"]
       /\ excused' = IF p = None THEN excused ELSE excused \cup LiveSessions(u)
    /\ Once(h)
    /\ UNCHANGED <<sessions, tokens, spent, respent, disturbed>>

\* DELETE /auth/me and DELETE /users/:id: the row, and nothing else.
ApiRemove(h, u) ==
    /\ Live(u)
    /\ users' = [users EXCEPT ![u].status = "deleted"]
    /\ Once(h)
    /\ UNCHANGED accounts

=============================================================================
