------------------------------ MODULE Sessions ------------------------------
(***************************************************************************)
(* Sign-in, sessions, single-use tokens and the administration of users:   *)
(* AuthService, WebAuthService, AuthTokensService, AdminUsersController.   *)
(*                                                                         *)
(* Passwords are changed in several places, in different orders: most end  *)
(* the user's sessions and then write, an admin's edit writes and then     *)
(* ends them, the profile page and the users API end none.  `excused`      *)
(* holds the sessions the code lets live past a change of password: one    *)
(* minted by a sign-in that overlapped it, one of whoever made the change, *)
(* all of a user whose password an admin sets through the users API, one   *)
(* spared when an admin's edit was cut short.                              *)
(***************************************************************************)
EXTENDS Users

CONSTANTS
    MaxSessions,    \* bound: sessions minted in all
    MaxTokens       \* bound: tokens issued in all

ASSUME SessionsAssumption == MaxSessions \in Nat /\ MaxTokens \in Nat

VARIABLES
    sessions,       \* the table session, with the password each was minted on
    excused,        \* history: see above
    tokens,         \* the table auth_tokens
    spent,          \* history: tokens and refresh tokens that were accepted
    respent,        \* history: those accepted again
    disturbed       \* history: users an edit cut short or a stale write-back left
                    \* in a state nobody asked for

SessionIds == 1..MaxSessions
TokenIds == 1..MaxTokens
Purposes == {"invite", "reset"}
accounts == <<sessions, excused, tokens, spent, respent, disturbed>>

NoSession == [status |-> "absent"]
NoToken == [status |-> "absent"]

MintedFor(u) == {s \in SessionIds : sessions[s] # NoSession /\ sessions[s].user = u}
LiveSessions(u) == {s \in MintedFor(u) : sessions[s].status = "live"}

\* deleteByUserId, deleteByUserIdWithExclude
EndSessions(u, keep) ==
    sessions' = [s \in SessionIds |->
        IF s \in LiveSessions(u) \ keep THEN [sessions[s] EXCEPT !.status = "ended"]
                                        ELSE sessions[s]]

\* The history of what is accepted once only.
Spend(credential) ==
    /\ spent' = spent \cup {credential}
    /\ respent' = IF credential \in spent THEN respent \cup {credential} ELSE respent

-----------------------------------------------------------------------------
(* Signing in. *)

\* signIn and validateLogin: no password is never any password.
SignIn(h, u, p) ==
    /\ Admitted(u) /\ users[u].password = p /\ p # None
    /\ Begin(h, [step |-> "minting", user |-> u, proof |-> p])
    /\ UNCHANGED <<users, accounts>>

\* Between the sessions' end and the password's write.
Changing(u) == \E h \in Handlers : Doing(h, "setting") /\ at[h].user = u

\* createSessionForUser
Mint(h, s) ==
    /\ Doing(h, "minting")
    /\ LET u == at[h].user IN
       /\ sessions[s] = NoSession /\ \A r \in SessionIds : r < s => sessions[r] # NoSession
       /\ sessions' = [sessions EXCEPT ![s] =
              [status |-> "live", user |-> u, hash |-> 1, proof |-> at[h].proof]]
       /\ excused' = IF users[u].password # at[h].proof \/ Changing(u)
                       THEN excused \cup {s} ELSE excused
    /\ Then(h, Idle)
    /\ UNCHANGED <<users, tokens, spent, respent, disturbed>>

\* Slip: the session is found by its id alone.
RefreshById(h, s, hash) ==
    /\ sessions[s] # NoSession /\ sessions[s].status = "live"
    /\ hash <= sessions[s].hash
    /\ sessions' = [sessions EXCEPT ![s].hash = @ + 1]
    /\ Spend([session |-> s, hash |-> hash])
    /\ Once(h)
    /\ UNCHANGED <<users, excused, tokens, disturbed>>

\* refreshToken: one UPDATE by id and hash rotates the hash, so one of two
\* requests that carry the same cookie finds no row.
Refresh(h, s, hash) ==
    /\ sessions[s] # NoSession /\ sessions[s].status = "live"
    /\ hash = sessions[s].hash
    /\ sessions' = [sessions EXCEPT ![s].hash = @ + 1]
    /\ Spend([session |-> s, hash |-> hash])
    /\ Once(h)
    /\ UNCHANGED <<users, excused, tokens, disturbed>>

\* logout of the API
Logout(h, s) ==
    /\ sessions[s] # NoSession /\ sessions[s].status = "live"
    /\ sessions' = [sessions EXCEPT ![s].status = "ended"]
    /\ Once(h)
    /\ UNCHANGED <<users, excused, tokens, spent, respent, disturbed>>

-----------------------------------------------------------------------------
(* Tokens. *)

\* requestPasswordReset, resendInvite and the two buttons of the admin screen.
AskForToken(h, u, purpose) ==
    /\ Live(u)
    /\ Begin(h, [step |-> "invalidating", user |-> u, purpose |-> purpose])
    /\ UNCHANGED <<users, accounts>>

WithoutTokens(u, purpose) == [t \in TokenIds |->
    IF tokens[t] # NoToken /\ tokens[t].user = u /\ tokens[t].purpose = purpose
      THEN [tokens[t] EXCEPT !.status = "deleted"] ELSE tokens[t]]

\* issue: whatever came before is deleted ...
Invalidate(h) ==
    /\ Doing(h, "invalidating")
    /\ tokens' = WithoutTokens(at[h].user, at[h].purpose)
    /\ Then(h, [at[h] EXCEPT !.step = "issuing"])
    /\ UNCHANGED <<users, sessions, excused, spent, respent, disturbed>>

\* ... and the new token inserted.
IssueToken(h, t) ==
    /\ Doing(h, "issuing")
    /\ tokens[t] = NoToken /\ \A r \in TokenIds : r < t => tokens[r] # NoToken
    /\ tokens' = [tokens EXCEPT ![t] =
           [status |-> "unused", user |-> at[h].user, purpose |-> at[h].purpose]]
    /\ Then(h, Idle)
    /\ UNCHANGED <<users, sessions, excused, spent, respent, disturbed>>

RevokeInvite(h, u) ==
    /\ tokens' = WithoutTokens(u, "invite")
    /\ Once(h)
    /\ UNCHANGED <<users, sessions, excused, spent, respent, disturbed>>

\* Time passes; an expired token is refused, whether or not it was used.
Expire(t) ==
    /\ tokens[t].status = "unused"
    /\ tokens' = [tokens EXCEPT ![t].status = "expired"]
    /\ UNCHANGED <<users, requests, at, sessions, excused, spent, respent, disturbed>>

\* consume: check finds the token unused ...
CheckToken(h, t, p) ==
    /\ tokens[t].status = "unused"
    /\ Begin(h, [step |-> "claiming", token |-> t, user |-> tokens[t].user, password |-> p])
    /\ UNCHANGED <<users, accounts>>

\* Slip: whoever passed the check has it.
ClaimTokenChecked(h) ==
    /\ Doing(h, "claiming")
    /\ LET t == at[h].token IN
       /\ tokens[t].status \in {"unused", "used", "expired"}
       /\ tokens' = [tokens EXCEPT ![t].status = "used"]
       /\ Spend([token |-> t])
       /\ Then(h, IF Live(at[h].user)
                    THEN [step |-> "dropping", user |-> at[h].user, keep |-> {},
                          password |-> at[h].password, way |-> "link"]
                    ELSE Idle)
    /\ UNCHANGED <<users, sessions, excused, disturbed>>

\* ... and one UPDATE claims it, which requires used_at still null.
\* completePasswordSet goes on if the user is still there.
ClaimToken(h) ==
    /\ Doing(h, "claiming")
    /\ LET t == at[h].token IN
       /\ tokens[t].status \in {"unused", "expired"}
       /\ tokens' = [tokens EXCEPT ![t].status = "used"]
       /\ Spend([token |-> t])
       /\ Then(h, IF Live(at[h].user)
                    THEN [step |-> "dropping", user |-> at[h].user, keep |-> {},
                          password |-> at[h].password, way |-> "link"]
                    ELSE Idle)
    /\ UNCHANGED <<users, sessions, excused, disturbed>>

-----------------------------------------------------------------------------
(* Changing one's own password. *)

\* /set-password of a signed-in user.
ForcedChange(h, u, p) ==
    /\ Admitted(u)
    /\ Begin(h, [step |-> "dropping", user |-> u, keep |-> {}, password |-> p, way |-> "forced"])
    /\ UNCHANGED <<users, accounts>>

\* PATCH /auth/me: a signed access token and the old password will do.
ApiChange(h, s, old, p) ==
    /\ sessions[s] # NoSession
    /\ LET u == sessions[s].user IN
       /\ Live(u) /\ users[u].password = old /\ old # None
       /\ Begin(h, [step |-> "dropping", user |-> u, keep |-> {s}, password |-> p, way |-> "api"])
    /\ UNCHANGED <<users, accounts>>

\* Slip: the sessions are left alone.
DropSessionsNot(h) ==
    /\ Doing(h, "dropping")
    /\ Then(h, [at[h] EXCEPT !.step = "setting"])
    /\ UNCHANGED <<users, accounts>>

\* The sessions end first ...
DropSessions(h) ==
    /\ Doing(h, "dropping")
    /\ EndSessions(at[h].user, at[h].keep)
    /\ Then(h, [at[h] EXCEPT !.step = "setting"])
    /\ UNCHANGED <<users, excused, tokens, spent, respent, disturbed>>

\* ... then the password is written; the API's update leaves the flag, and spares
\* the session that asked.  A link signs the user in at once if the account is active.
SetPassword(h) ==
    /\ Doing(h, "setting") /\ at[h].way # "reset"
    /\ LET u == at[h].user IN
       /\ Live(u)
       /\ users' = [users EXCEPT ![u].password = at[h].password, ![u].chosenBy = "self",
                                 ![u].mustChange = @ /\ at[h].way = "api"]
       /\ excused' = excused \cup (LiveSessions(u) \cap at[h].keep)
       /\ Then(h, IF at[h].way = "link" THEN [step |-> "returning", user |-> u] ELSE Idle)
    /\ UNCHANGED <<sessions, tokens, spent, respent, disturbed>>

\* findUser and signInWithoutPassword, on the row as it is by now.
Return(h) ==
    /\ Doing(h, "returning")
    /\ LET u == at[h].user IN
       Then(h, IF Admitted(u)
                 THEN [step |-> "minting", user |-> u, proof |-> users[u].password] ELSE Idle)
    /\ UNCHANGED <<users, accounts>>

\* The profile page: no session ends.
ReadForProfile(h, u, p) ==
    /\ Free(u)
    /\ Begin(h, [step |-> "changing", user |-> u, password |-> p])
    /\ UNCHANGED <<users, accounts>>

ProfileChange(h) ==
    /\ Doing(h, "changing")
    /\ LET u == at[h].user IN
       /\ Live(u)
       /\ users' = [users EXCEPT ![u].password = at[h].password, ![u].chosenBy = "self",
                                 ![u].mustChange = FALSE]
       /\ excused' = excused \cup LiveSessions(u)
    /\ Then(h, Idle)
    /\ UNCHANGED <<sessions, tokens, spent, respent, disturbed>>

=============================================================================
