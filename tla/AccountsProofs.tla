--------------------------- MODULE AccountsProofs ---------------------------
(***************************************************************************)
(* Proofs about Accounts, for any users, handlers, passwords, codes and    *)
(* messages: every credential is used once, sessions follow the password,  *)
(* an initial password is changed, a link code links once, a deletion      *)
(* leaves an admin and a message has its row, however the requests         *)
(* interleave and wherever they stop.                                      *)
(***************************************************************************)
EXTENDS Accounts, FiniteSetTheorems, TLAPS

\* A place says what it is.
LEMMA PlaceSteps ==
    /\ Idle.step = "idle"
    /\ \A p \in Minting : p.step \in {"minting"}
    /\ \A p \in Issuing : p.step \in {"invalidating", "issuing"}
    /\ \A p \in Claiming : p.step \in {"claiming"}
    /\ \A p \in Dropping : p.step \in {"dropping", "setting"}
    /\ \A p \in Resetting : p.step \in {"dropping", "setting"}
    /\ \A p \in Returning : p.step \in {"returning"}
    /\ \A p \in Changed : p.step \in {"changing"}
    /\ \A p \in Confirming : p.step \in {"confirming"}
    /\ \A p \in Creating : p.step \in {"creating", "flagging"}
    /\ \A p \in Inserting : p.step \in {"inserting"}
    /\ \A p \in Editing : p.step \in
           {"editing", "linking fields", "deactivating", "overriding", "uninviting", "expelling"}
    /\ \A p \in Counting : p.step \in {"counting"}
    /\ \A p \in Finding : p.step \in {"finding"}
    /\ \A p \in Removing : p.step \in {"ending", "removing"}
    /\ \A p \in LookingUp : p.step \in {"looking up"}
    /\ \A p \in Linking : p.step \in {"checking", "linking"}
    /\ \A p \in Recording : p.step \in {"recording"}
    /\ \A p \in Sending : p.step \in {"sending", "marking"}
BY DEF EditSteps, Idle, Minting, Issuing, Claiming, Dropping, Resetting, Returning, Changed, Confirming, Creating,
       Inserting, Editing, Counting, Finding, Removing, LookingUp, Linking, Recording, Sending

\* What a handler carries at each step.
LEMMA Place ==
    ASSUME TypeOK, NEW h \in Handlers
    PROVE  /\ at[h] \in Places
           /\ at[h].step \in {"minting"} => at[h] \in Minting
           /\ at[h].step \in {"invalidating", "issuing"} => at[h] \in Issuing
           /\ at[h].step \in {"claiming"} => at[h] \in Claiming
           /\ at[h].step \in {"dropping", "setting"} => at[h] \in Dropping \cup Resetting
           /\ at[h].step \in {"returning"} => at[h] \in Returning
           /\ at[h].step \in {"changing"} => at[h] \in Changed
           /\ at[h].step \in {"confirming"} => at[h] \in Confirming
           /\ at[h].step \in {"creating", "flagging"} => at[h] \in Creating
           /\ at[h].step \in {"inserting"} => at[h] \in Inserting
           /\ at[h].step \in
              {"editing", "linking fields", "deactivating", "overriding", "uninviting", "expelling"}
              => at[h] \in Editing
           /\ at[h].step \in {"counting"} => at[h] \in Counting
           /\ at[h].step \in {"finding"} => at[h] \in Finding
           /\ at[h].step \in {"ending", "removing"} => at[h] \in Removing
           /\ at[h].step \in {"looking up"} => at[h] \in LookingUp
           /\ at[h].step \in {"checking", "linking"} => at[h] \in Linking
           /\ at[h].step \in {"recording"} => at[h] \in Recording
           /\ at[h].step \in {"sending", "marking"} => at[h] \in Sending
<1>1. at[h] \in Places
  BY DEF TypeOK
<1>2. \/ at[h] = Idle
      \/ at[h] \in Minting \/ at[h] \in Issuing \/ at[h] \in Claiming \/ at[h] \in Dropping
      \/ at[h] \in Resetting \/ at[h] \in Returning \/ at[h] \in Changed \/ at[h] \in Confirming
      \/ at[h] \in Creating \/ at[h] \in Inserting \/ at[h] \in Editing \/ at[h] \in Counting
      \/ at[h] \in Finding \/ at[h] \in Removing
      \/ at[h] \in LookingUp \/ at[h] \in Linking \/ at[h] \in Recording \/ at[h] \in Sending
  BY <1>1 DEF Places
<1>3. at[h].step \in {"minting"} => at[h] \in Minting
  BY <1>2, PlaceSteps
<1>4. at[h].step \in {"invalidating", "issuing"} => at[h] \in Issuing
  BY <1>2, PlaceSteps
<1>5. at[h].step \in {"claiming"} => at[h] \in Claiming
  BY <1>2, PlaceSteps
<1>6. at[h].step \in {"dropping", "setting"} => at[h] \in Dropping \cup Resetting
  BY <1>2, PlaceSteps
<1>7. at[h].step \in {"returning"} => at[h] \in Returning
  BY <1>2, PlaceSteps
<1>8. at[h].step \in {"changing"} => at[h] \in Changed
  BY <1>2, PlaceSteps
<1>9. at[h].step \in {"confirming"} => at[h] \in Confirming
  BY <1>2, PlaceSteps
<1>10. at[h].step \in {"creating", "flagging"} => at[h] \in Creating
  BY <1>2, PlaceSteps
<1>11. at[h].step \in
              {"editing", "linking fields", "deactivating", "overriding", "uninviting", "expelling"}
              => at[h] \in Editing
  <2> SUFFICES ASSUME at[h] \notin Editing
               PROVE  at[h].step \in
                 {"idle", "minting", "invalidating", "issuing", "claiming", "dropping", "setting",
                  "returning", "changing", "confirming", "creating", "flagging", "inserting",
                  "counting", "finding", "ending", "removing", "looking up", "checking",
                  "linking", "recording",
                  "sending", "marking"}
    OBVIOUS
  <2> QED BY <1>2, PlaceSteps
<1>12. at[h].step \in {"counting"} => at[h] \in Counting
  BY <1>2, PlaceSteps
<1>13. at[h].step \in {"ending", "removing"} => at[h] \in Removing
  BY <1>2, PlaceSteps
<1>14. at[h].step \in {"looking up"} => at[h] \in LookingUp
  BY <1>2, PlaceSteps
<1>15. at[h].step \in {"checking", "linking"} => at[h] \in Linking
  BY <1>2, PlaceSteps
<1>16. at[h].step \in {"recording"} => at[h] \in Recording
  BY <1>2, PlaceSteps
<1>17. at[h].step \in {"sending", "marking"} => at[h] \in Sending
  BY <1>2, PlaceSteps
<1>18. at[h].step \in {"inserting"} => at[h] \in Inserting
  BY <1>2, PlaceSteps
<1>19. at[h].step \in {"finding"} => at[h] \in Finding
  BY <1>2, PlaceSteps
<1> QED BY <1>1, <1>3, <1>4, <1>5, <1>6, <1>7, <1>8, <1>9, <1>10, <1>11, <1>12, <1>13, <1>14,
           <1>15, <1>16, <1>17, <1>18, <1>19

LEMMA InitType == Init => TypeOK
BY AccountsAssumption, UsersAssumption DEF Init, TypeOK, Places, Codes

\* A handler goes where a handler may be.
LEMMA GotoTyped ==
    ASSUME TypeOK, NEW h \in Handlers, NEW place \in Places, Goto(h, place)
    PROVE  at' \in [Handlers -> Places]
BY DEF TypeOK, Goto

LEMMA ThenTyped ==
    ASSUME TypeOK, NEW h \in Handlers, NEW place \in Places, Then(h, place)
    PROVE  at' \in [Handlers -> Places] /\ requests' \in 0..MaxRequests
BY GotoTyped DEF TypeOK, Then

LEMMA BeginTyped ==
    ASSUME TypeOK, NEW h \in Handlers, NEW place \in Places, Begin(h, place)
    PROVE  at' \in [Handlers -> Places] /\ requests' \in 0..MaxRequests
<1>1. requests' \in 0..MaxRequests
  BY UsersAssumption DEF TypeOK, Begin
<1> QED BY <1>1, GotoTyped DEF Begin

LEMMA OnceTyped ==
    ASSUME TypeOK, NEW h \in Handlers, Once(h)
    PROVE  at' \in [Handlers -> Places] /\ requests' \in 0..MaxRequests
BY UsersAssumption DEF TypeOK, Once

\* Places by name.
LEMMA InPlaces ==
    /\ Idle \in Places /\ Minting \subseteq Places /\ Issuing \subseteq Places
    /\ Claiming \subseteq Places /\ Dropping \subseteq Places /\ Resetting \subseteq Places
    /\ Returning \subseteq Places /\ Changed \subseteq Places /\ Confirming \subseteq Places
    /\ Inserting \subseteq Places /\ Finding \subseteq Places
    /\ Creating \subseteq Places /\ Editing \subseteq Places /\ Counting \subseteq Places
    /\ Removing \subseteq Places /\ LookingUp \subseteq Places /\ Linking \subseteq Places
    /\ Recording \subseteq Places /\ Sending \subseteq Places
BY DEF Places

-----------------------------------------------------------------------------
(* Types, component by component. *)

RequestsTyped == at \in [Handlers -> Places] /\ requests \in 0..MaxRequests
AccountsTyped ==
    /\ sessions \in [SessionIds -> Session \cup {NoSession}]
    /\ excused \subseteq SessionIds
    /\ tokens \in [TokenIds -> Token \cup {NoToken}]
    /\ disturbed \subseteq Users
    /\ respent \subseteq spent
LinksTyped ==
    /\ codes \in 0..MaxCodes
    /\ updates \subseteq UpdateIds
    /\ linked \in [Codes -> SUBSET Chats]
    /\ displaced \subseteq Codes
OutboxTyped ==
    /\ rows \in [Pairs -> Nat] /\ marked \in [Pairs -> Nat] /\ delivered \in [Pairs -> Nat]
    /\ unread \subseteq Users

LEMMA Parts ==
    TypeOK <=> users \in [Users -> Row] /\ RequestsTyped /\ AccountsTyped /\ LinksTyped /\ OutboxTyped
BY DEF TypeOK, RequestsTyped, AccountsTyped, LinksTyped, OutboxTyped

\* What a handler does leaves the requests typed if it stops where one may be.
LEMMA Stops ==
    ASSUME TypeOK, NEW h \in Handlers, NEW place \in Places,
           Then(h, place) \/ Begin(h, place) \/ Once(h)
    PROVE  RequestsTyped'
BY ThenTyped, BeginTyped, OnceTyped DEF RequestsTyped

LEMMA EndTyped ==
    ASSUME TypeOK, NEW u, NEW keep, EndSessions(u, keep)
    PROVE  sessions' \in [SessionIds -> Session \cup {NoSession}]
<1> SUFFICES ASSUME NEW s \in SessionIds, s \in LiveSessions(u)
             PROVE  [sessions[s] EXCEPT !.status = "ended"] \in Session
  BY DEF TypeOK, EndSessions
<1> QED BY DEF TypeOK, LiveSessions, MintedFor, Session

LEMMA DropTyped ==
    ASSUME TypeOK, NEW u, NEW purpose
    PROVE  WithoutTokens(u, purpose) \in [TokenIds -> Token \cup {NoToken}]
<1> SUFFICES ASSUME NEW t \in TokenIds, tokens[t] # NoToken
             PROVE  [tokens[t] EXCEPT !.status = "deleted"] \in Token
  BY DEF TypeOK, WithoutTokens
<1> QED BY DEF TypeOK, Token


LEMMA SessionStepTyped ==
    ASSUME TypeOK, NEW h \in Handlers, SessionStep(h)
    PROVE  users' \in [Users -> Row] /\ RequestsTyped' /\ AccountsTyped'
<1> USE DEF Doing
<1>1. users \in [Users -> Row] /\ AccountsTyped
  BY Parts
<1>2. ASSUME NEW u \in Users, NEW p \in Passwords, SignIn(h, u, p)
      PROVE  users' \in [Users -> Row] /\ RequestsTyped' /\ AccountsTyped'
  <2>1. [step |-> "minting", user |-> u, proof |-> p] \in Minting
    BY DEF Minting, Stored
  <2> QED BY <1>1, <1>2, <2>1, Stops, InPlaces DEF SignIn, AccountsTyped, accounts
<1>3. ASSUME NEW u \in Users, NEW p \in Passwords, ForcedChange(h, u, p)
      PROVE  users' \in [Users -> Row] /\ RequestsTyped' /\ AccountsTyped'
  <2>1. [step |-> "dropping", user |-> u, keep |-> {}, password |-> p, way |-> "forced"] \in Dropping
    BY DEF Dropping
  <2> QED BY <1>1, <1>3, <2>1, Stops, InPlaces DEF ForcedChange, AccountsTyped, accounts
<1>4. ASSUME NEW u \in Users, NEW p \in Passwords, ReadForProfile(h, u, p)
      PROVE  users' \in [Users -> Row] /\ RequestsTyped' /\ AccountsTyped'
  <2>1. [step |-> "changing", user |-> u, password |-> p] \in Changed
    BY DEF Changed
  <2> QED BY <1>1, <1>4, <2>1, Stops, InPlaces DEF ReadForProfile, AccountsTyped, accounts
<1>5. ASSUME NEW s \in SessionIds, Mint(h, s)
      PROVE  users' \in [Users -> Row] /\ RequestsTyped' /\ AccountsTyped'
  <2>1. at[h] \in Minting
    BY <1>5, Place DEF Mint
  <2>2. [status |-> "live", user |-> at[h].user, hash |-> 1, proof |-> at[h].proof] \in Session
    BY <2>1 DEF Minting, Session
  <2>3. sessions' \in [SessionIds -> Session \cup {NoSession}]
    BY <1>1, <1>5, <2>2 DEF Mint, AccountsTyped
  <2>4. excused' \subseteq SessionIds
    BY <1>1, <1>5 DEF Mint, AccountsTyped
  <2> QED BY <1>1, <1>5, <2>3, <2>4, Stops, InPlaces DEF Mint, AccountsTyped
<1>6. ASSUME NEW s \in SessionIds, Logout(h, s)
      PROVE  users' \in [Users -> Row] /\ RequestsTyped' /\ AccountsTyped'
  <2>1. [sessions[s] EXCEPT !.status = "ended"] \in Session
    BY <1>1, <1>6 DEF Logout, AccountsTyped, Session
  <2>2. sessions' \in [SessionIds -> Session \cup {NoSession}]
    BY <1>1, <1>6, <2>1 DEF Logout, AccountsTyped
  <2> QED BY <1>1, <1>6, <2>2, Stops, InPlaces DEF Logout, AccountsTyped
<1>7. ASSUME NEW s \in SessionIds, NEW n \in 1..MaxRequests, Refresh(h, s, n)
      PROVE  users' \in [Users -> Row] /\ RequestsTyped' /\ AccountsTyped'
  <2>1. [sessions[s] EXCEPT !.hash = @ + 1] \in Session
    BY <1>1, <1>7 DEF Refresh, AccountsTyped, Session
  <2>2. sessions' \in [SessionIds -> Session \cup {NoSession}]
    BY <1>1, <1>7, <2>1 DEF Refresh, AccountsTyped
  <2>3. respent' \subseteq spent'
    BY <1>1, <1>7 DEF Refresh, Spend, AccountsTyped
  <2> QED BY <1>1, <1>7, <2>2, <2>3, Stops, InPlaces DEF Refresh, AccountsTyped
<1>8. ASSUME NEW s \in SessionIds, NEW old \in Passwords, NEW p \in Passwords, ApiChange(h, s, old, p)
      PROVE  users' \in [Users -> Row] /\ RequestsTyped' /\ AccountsTyped'
  <2>1. sessions[s].user \in Users
    BY <1>1, <1>8 DEF ApiChange, AccountsTyped, Session
  <2>2. [step |-> "dropping", user |-> sessions[s].user, keep |-> {s}, password |-> p,
         way |-> "api"] \in Dropping
    BY <2>1 DEF Dropping
  <2> QED BY <1>1, <1>8, <2>2, Stops, InPlaces DEF ApiChange, AccountsTyped, accounts
<1>9. ASSUME NEW u \in Users, NEW purpose \in Purposes, AskForToken(h, u, purpose)
      PROVE  users' \in [Users -> Row] /\ RequestsTyped' /\ AccountsTyped'
  <2>1. [step |-> "invalidating", user |-> u, purpose |-> purpose] \in Issuing
    BY DEF Issuing
  <2> QED BY <1>1, <1>9, <2>1, Stops, InPlaces DEF AskForToken, AccountsTyped, accounts
<1>10. ASSUME NEW u \in Users, RevokeInvite(h, u)
       PROVE  users' \in [Users -> Row] /\ RequestsTyped' /\ AccountsTyped'
  BY <1>1, <1>10, DropTyped, Stops, InPlaces DEF RevokeInvite, AccountsTyped
<1>11. ASSUME NEW t \in TokenIds, IssueToken(h, t)
       PROVE  users' \in [Users -> Row] /\ RequestsTyped' /\ AccountsTyped'
  <2>1. at[h] \in Issuing
    BY <1>11, Place DEF IssueToken
  <2>2. [status |-> "unused", user |-> at[h].user, purpose |-> at[h].purpose] \in Token
    BY <2>1 DEF Issuing, Token
  <2>3. tokens' \in [TokenIds -> Token \cup {NoToken}]
    BY <1>1, <1>11, <2>2 DEF IssueToken, AccountsTyped
  <2> QED BY <1>1, <1>11, <2>3, Stops, InPlaces DEF IssueToken, AccountsTyped
<1>12. ASSUME NEW t \in TokenIds, NEW p \in Passwords, CheckToken(h, t, p)
       PROVE  users' \in [Users -> Row] /\ RequestsTyped' /\ AccountsTyped'
  <2>1. tokens[t].user \in Users
    BY <1>1, <1>12 DEF CheckToken, AccountsTyped, Token, NoToken
  <2>2. [step |-> "claiming", token |-> t, user |-> tokens[t].user, password |-> p] \in Claiming
    BY <2>1 DEF Claiming
  <2> QED BY <1>1, <1>12, <2>2, Stops, InPlaces DEF CheckToken, AccountsTyped, accounts
<1>13. CASE Invalidate(h)
  <2>1. at[h] \in Issuing
    BY <1>13, Place DEF Invalidate
  <2>2. [at[h] EXCEPT !.step = "issuing"] \in Issuing
    BY <2>1 DEF Issuing
  <2> QED BY <1>1, <1>13, <2>2, DropTyped, Stops, InPlaces DEF Invalidate, AccountsTyped
<1>14. CASE ClaimToken(h)
  <2>1. at[h] \in Claiming
    BY <1>14, Place DEF ClaimToken
  <2>2. at[h].token \in TokenIds /\ at[h].user \in Users /\ at[h].password \in Passwords
    BY <2>1 DEF Claiming
  <2>3. [tokens[at[h].token] EXCEPT !.status = "used"] \in Token
    BY <1>1, <1>14, <2>2 DEF ClaimToken, AccountsTyped, Token, NoToken
  <2>4. tokens' \in [TokenIds -> Token \cup {NoToken}]
    BY <1>1, <1>14, <2>2, <2>3 DEF ClaimToken, AccountsTyped
  <2>5. [step |-> "dropping", user |-> at[h].user, keep |-> {}, password |-> at[h].password,
         way |-> "link"] \in Dropping
    BY <2>2 DEF Dropping
  <2>6. respent' \subseteq spent'
    BY <1>1, <1>14 DEF ClaimToken, Spend, AccountsTyped
  <2>7. RequestsTyped'
    BY <1>14, <2>5, Stops, InPlaces DEF ClaimToken
  <2> QED BY <1>1, <1>14, <2>4, <2>6, <2>7 DEF ClaimToken, AccountsTyped
<1>15. CASE DropSessions(h)
  <2>1. at[h] \in Dropping \cup Resetting
    BY <1>15, Place DEF DropSessions
  <2>2. [at[h] EXCEPT !.step = "setting"] \in Dropping \cup Resetting
    BY <2>1 DEF Dropping, Resetting
  <2>3. RequestsTyped'
    BY <1>15, <2>2, Stops, InPlaces DEF DropSessions
  <2> QED BY <1>1, <1>15, <2>3, EndTyped DEF DropSessions, AccountsTyped
<1>16. CASE SetPassword(h)
  <2>1. at[h] \in Dropping
    BY <1>16, Place DEF SetPassword, Resetting
  <2>2. at[h].user \in Users /\ at[h].password \in Passwords
    BY <2>1 DEF Dropping
  <2>3. users' \in [Users -> Row]
    BY <1>1, <1>16, <2>2 DEF SetPassword, Row, Stored
  <2>4. [step |-> "returning", user |-> at[h].user] \in Returning
    BY <2>2 DEF Returning
  <2>5. RequestsTyped'
    BY <1>16, <2>4, Stops, InPlaces DEF SetPassword
  <2>6. excused' \subseteq SessionIds
    BY <1>1, <1>16 DEF SetPassword, AccountsTyped, LiveSessions, MintedFor
  <2> QED BY <1>1, <1>16, <2>3, <2>5, <2>6 DEF SetPassword, AccountsTyped
<1>17. CASE Return(h)
  <2>1. at[h].user \in Users
    BY <1>17, Place DEF Return, Returning
  <2>2. [step |-> "minting", user |-> at[h].user, proof |-> users[at[h].user].password] \in Minting
    BY <1>1, <2>1 DEF Minting, Row
  <2>3. RequestsTyped'
    BY <1>17, <2>2, Stops, InPlaces DEF Return
  <2> QED BY <1>1, <1>17, <2>3 DEF Return, AccountsTyped, accounts
<1>18. CASE ProfileChange(h)
  <2>1. at[h].user \in Users /\ at[h].password \in Passwords
    BY <1>18, Place DEF ProfileChange, Changed
  <2>2. users' \in [Users -> Row]
    BY <1>1, <1>18, <2>1 DEF ProfileChange, Row, Stored
  <2>3. excused' \subseteq SessionIds
    BY <1>1, <1>18 DEF ProfileChange, AccountsTyped, LiveSessions, MintedFor
  <2> QED BY <1>1, <1>18, <2>2, <2>3, Stops, InPlaces DEF ProfileChange, AccountsTyped
<1> QED BY <1>2, <1>3, <1>4, <1>5, <1>6, <1>7, <1>8, <1>9, <1>10, <1>11, <1>12, <1>13, <1>14,
           <1>15, <1>16, <1>17, <1>18 DEF SessionStep


LEMMA AdminStepTyped ==
    ASSUME TypeOK, NEW h \in Handlers, AdminStep(h)
    PROVE  users' \in [Users -> Row] /\ RequestsTyped' /\ AccountsTyped'
<1> USE DEF Doing
<1>1. users \in [Users -> Row] /\ AccountsTyped
  BY Parts
<1>2. ASSUME NEW u \in Users, NEW p \in Passwords, ReadForReset(h, u, p)
      PROVE  users' \in [Users -> Row] /\ RequestsTyped' /\ AccountsTyped'
  <2>1. [step |-> "dropping", user |-> u, keep |-> {}, password |-> p, way |-> "reset",
         row |-> users[u]] \in Resetting
    BY <1>1 DEF Resetting
  <2> QED BY <1>1, <1>2, <2>1, Stops, InPlaces DEF ReadForReset, AccountsTyped, accounts
<1>3. ASSUME NEW u \in Users, ReadForConfirm(h, u)
      PROVE  users' \in [Users -> Row] /\ RequestsTyped' /\ AccountsTyped'
  <2>1. [step |-> "confirming", user |-> u, row |-> users[u]] \in Confirming
    BY <1>1 DEF Confirming
  <2> QED BY <1>1, <1>3, <2>1, Stops, InPlaces DEF ReadForConfirm, AccountsTyped, accounts
<1>4. ASSUME NEW u \in Users, ApiRemove(h, u)
      PROVE  users' \in [Users -> Row] /\ RequestsTyped' /\ AccountsTyped'
  <2>1. users' \in [Users -> Row]
    BY <1>1, <1>4 DEF ApiRemove, Row
  <2> QED BY <1>1, <1>4, <2>1, Stops, InPlaces DEF ApiRemove, AccountsTyped, accounts
<1>5. CASE ResetPassword(h)
  <2>1. at[h] \in Resetting
    BY <1>5, Place DEF ResetPassword, Dropping
  <2>2. at[h].user \in Users /\ at[h].password \in Passwords /\ at[h].row \in Row
    BY <2>1 DEF Resetting
  <2>3. users' \in [Users -> Row]
    <3>1. /\ at[h].row.admin \in BOOLEAN /\ at[h].row.active \in BOOLEAN
          /\ at[h].row.mustChange \in BOOLEAN
      BY <2>2 DEF Row
    <3>2. [users[at[h].user] EXCEPT !.password = at[h].password, !.chosenBy = "self",
                 !.admin = at[h].row.admin, !.active = at[h].row.active,
                 !.mustChange = at[h].row.mustChange] \in Row
      BY <1>1, <2>2, <3>1 DEF Row, Stored
    <3> QED BY <1>1, <1>5, <2>2, <3>2 DEF ResetPassword
  <2>4. disturbed' \subseteq Users
    BY <1>1, <1>5, <2>2 DEF ResetPassword, AccountsTyped
  <2> QED BY <1>1, <1>5, <2>3, <2>4, Stops, InPlaces DEF ResetPassword, AccountsTyped
<1>6. ASSUME NEW garbles \in BOOLEAN, ConfirmEmail(h, garbles)
      PROVE  users' \in [Users -> Row] /\ RequestsTyped' /\ AccountsTyped'
  <2>1. at[h].user \in Users /\ at[h].row \in Row
    BY <1>6, Place DEF ConfirmEmail, Confirming
  <2>2. users' \in [Users -> Row]
    <3>1. at[h].row.admin \in BOOLEAN /\ at[h].row.mustChange \in BOOLEAN
      BY <2>1 DEF Row
    <3>2. \A w \in Stored, c \in {"self", "admin", "api"} :
             [users[at[h].user] EXCEPT !.admin = at[h].row.admin, !.active = TRUE,
                 !.mustChange = at[h].row.mustChange, !.password = w, !.chosenBy = c] \in Row
      BY <1>1, <2>1, <3>1 DEF Row
    <3>3. /\ users[at[h].user].password \in Stored /\ Garbled \in Stored
          /\ users[at[h].user].chosenBy \in {"self", "admin", "api"}
      BY <1>1, <2>1 DEF Row, Stored
    <3> QED BY <1>1, <1>6, <2>1, <3>2, <3>3 DEF ConfirmEmail
  <2>3. disturbed' \subseteq Users /\ excused' \subseteq SessionIds
    BY <1>1, <1>6, <2>1 DEF ConfirmEmail, AccountsTyped, LiveSessions, MintedFor
  <2> QED BY <1>1, <1>6, <2>2, <2>3, Stops, InPlaces DEF ConfirmEmail, AccountsTyped
<1>7. ASSUME NEW u \in Users, NEW admin \in BOOLEAN, NEW p \in Passwords \cup {None}, ReadForCreate(h, u, admin, p)
      PROVE  users' \in [Users -> Row] /\ RequestsTyped' /\ AccountsTyped'
  <2>1. [step |-> "creating", user |-> u, admin |-> admin, password |-> p] \in Creating
    BY DEF Creating
  <2> QED BY <1>1, <1>7, <2>1, Stops, InPlaces DEF ReadForCreate, AccountsTyped, accounts
<1>8. CASE InsertUser(h)
  <2>1. at[h] \in Creating
    BY <1>8, Place DEF InsertUser
  <2>2. users' \in [Users -> Row]
    BY <1>1, <1>8, <2>1 DEF InsertUser, NewUser, Row, Stored, Creating
  <2>3. [at[h] EXCEPT !.step = "flagging"] \in Creating
    BY <2>1 DEF Creating
  <2> QED BY <1>1, <1>8, <2>2, <2>3, Stops, InPlaces DEF InsertUser, AccountsTyped, accounts
<1>9. CASE FlagUser(h)
  <2>1. at[h] \in Creating
    BY <1>9, Place DEF FlagUser
  <2>2. users' \in [Users -> Row]
    <3>1. \A b \in BOOLEAN : [users[at[h].user] EXCEPT !.mustChange = b] \in Row
      BY <1>1, <2>1 DEF Row, Creating
    <3>2. (users[at[h].user].mustChange \/ at[h].password # None) \in BOOLEAN
      OBVIOUS
    <3> QED BY <1>1, <1>9, <2>1, <3>1, <3>2 DEF FlagUser, Creating
  <2>3. [step |-> "invalidating", user |-> at[h].user, purpose |-> "invite"] \in Issuing
    BY <2>1 DEF Creating, Issuing, Purposes
  <2>4. RequestsTyped'
    BY <1>9, <2>3, Stops, InPlaces DEF FlagUser
  <2> QED BY <1>1, <1>9, <2>2, <2>4 DEF FlagUser, AccountsTyped, accounts
<1>10. ASSUME NEW u \in Users, NEW form \in Forms, ReadForEdit(h, u, form)
      PROVE  users' \in [Users -> Row] /\ RequestsTyped' /\ AccountsTyped'
  <2>1. [step |-> "editing", user |-> u, form |-> form,
         deactivating |-> users[u].active /\ ~form.active] \in Editing
    BY <1>1 DEF Editing, EditSteps
  <2> QED BY <1>1, <1>10, <2>1, Stops, InPlaces DEF ReadForEdit, AccountsTyped, accounts
<1>11. CASE WriteUser(h)
  <2>1. at[h] \in Editing
    BY <1>11, Place DEF WriteUser
  <2>2. at[h].user \in Users /\ at[h].form \in Forms
    BY <2>1 DEF Editing
  <2>3. users' \in [Users -> Row]
    <3>1. at[h].form.admin \in BOOLEAN /\ at[h].form.active \in BOOLEAN
      BY <2>2, AdministrationAssumption
    <3>2. \A a \in BOOLEAN, b \in BOOLEAN :
             [[users[at[h].user] EXCEPT !.admin = a] EXCEPT !.active = b] \in Row
      <4>1. \A row \in Row, a \in BOOLEAN : [row EXCEPT !.admin = a] \in Row
        BY DEF Row
      <4>2. \A row \in Row, b \in BOOLEAN : [row EXCEPT !.active = b] \in Row
        BY DEF Row
      <4> QED BY <1>1, <2>2, <4>1, <4>2
    <3> QED BY <1>1, <1>11, <2>2, <3>1, <3>2 DEF WriteUser
  <2>4. [at[h] EXCEPT !.step = "linking fields"] \in Editing
    BY <2>1 DEF Editing, EditSteps
  <2> QED BY <1>1, <1>11, <2>3, <2>4, Stops, InPlaces DEF WriteUser, AccountsTyped, accounts
<1>12. CASE WriteFields(h)
  <2>1. at[h] \in Editing
    BY <1>12, Place DEF WriteFields
  <2>2. at[h].user \in Users /\ at[h].form \in Forms
    BY <2>1 DEF Editing
  <2>3. users' \in [Users -> Row]
    BY <1>1, <1>12, <2>2, AdministrationAssumption DEF WriteFields, Row
  <2>4. /\ [at[h] EXCEPT !.step = "deactivating"] \in Editing
        /\ [at[h] EXCEPT !.step = "overriding"] \in Editing
    BY <2>1 DEF Editing, EditSteps
  <2>5. AfterFields(h) \in Places
    BY <2>4, InPlaces DEF AfterFields, AfterEnding
  <2> QED BY <1>1, <1>12, <2>3, <2>5, Stops DEF WriteFields, AccountsTyped, accounts
<1>13. CASE EndForDeactivation(h)
  <2>1. at[h] \in Editing
    BY <1>13, Place DEF EndForDeactivation
  <2>2. at[h].user \in Users /\ at[h].form \in Forms
    BY <2>1 DEF Editing
  <2>3. [at[h] EXCEPT !.step = "overriding"] \in Editing
    BY <2>1 DEF Editing, EditSteps
  <2>4. AfterEnding(h) \in Places
    BY <2>3, InPlaces DEF AfterEnding
  <2> QED BY <1>1, <1>13, <2>4, Stops, EndTyped DEF EndForDeactivation, AccountsTyped
<1>14. CASE OverridePassword(h)
  <2>1. at[h] \in Editing
    BY <1>14, Place DEF OverridePassword
  <2>2. at[h].user \in Users /\ at[h].form \in Forms
    BY <2>1 DEF Editing
  <2>3. users' \in [Users -> Row]
    BY <1>1, <1>14, <2>2, AdministrationAssumption DEF OverridePassword, Row, Stored
  <2>4. [at[h] EXCEPT !.step = "uninviting"] \in Editing
    BY <2>1 DEF Editing, EditSteps
  <2> QED BY <1>1, <1>14, <2>3, <2>4, Stops, InPlaces DEF OverridePassword, AccountsTyped, accounts
<1>15. CASE Uninvite(h)
  <2>1. at[h] \in Editing
    BY <1>15, Place DEF Uninvite
  <2>2. [at[h] EXCEPT !.step = "expelling"] \in Editing
    BY <2>1 DEF Editing, EditSteps
  <2> QED BY <1>1, <1>15, <2>2, Stops, InPlaces, DropTyped DEF Uninvite, AccountsTyped
<1>16. CASE Expel(h)
  <2> QED BY <1>1, <1>16, Stops, InPlaces, EndTyped DEF Expel, AccountsTyped
<1>17. ASSUME NEW actor \in Users, NEW u \in Users, ReadForDelete(h, actor, u)
      PROVE  users' \in [Users -> Row] /\ RequestsTyped' /\ AccountsTyped'
  <2>1. [step |-> "counting", user |-> u] \in Counting
    BY DEF Counting
  <2> QED BY <1>1, <1>17, <2>1, Stops, InPlaces DEF ReadForDelete, AccountsTyped, accounts
<1>18. CASE CountAdmins(h)
  <2>1. at[h].user \in Users
    BY <1>18, Place DEF CountAdmins, Counting
  <2>2. [step |-> "finding", user |-> at[h].user, others |-> ActiveAdmins \ {at[h].user}] \in Finding
    BY <2>1 DEF Finding, ActiveAdmins
  <2> QED BY <1>1, <1>18, <2>2, Stops, InPlaces DEF CountAdmins, AccountsTyped, accounts
<1>19. CASE FindTarget(h)
  <2>1. at[h] \in Finding
    BY <1>19, Place DEF FindTarget
  <2>2. Removal(h) \in Removing
    BY <2>1 DEF Finding, Removing, Removal, IsAdmin
  <2> QED BY <1>1, <1>19, <2>2, Stops, InPlaces DEF FindTarget, AccountsTyped, accounts
<1>20. CASE EndForDelete(h)
  <2>1. at[h] \in Removing
    BY <1>20, Place DEF EndForDelete
  <2>2. [at[h] EXCEPT !.step = "removing"] \in Removing
    BY <2>1 DEF Removing
  <2> QED BY <1>1, <1>20, <2>2, Stops, InPlaces, EndTyped DEF EndForDelete, AccountsTyped
<1>21. CASE RemoveUser(h)
  <2>1. at[h].user \in Users
    BY <1>21, Place DEF RemoveUser, Removing
  <2>2. users' \in [Users -> Row]
    BY <1>1, <1>21, <2>1 DEF RemoveUser, Row
  <2> QED BY <1>1, <1>21, <2>2, Stops, InPlaces DEF RemoveUser, AccountsTyped, accounts
<1>22. ASSUME NEW u \in Users, NEW form \in Forms, ReadForApiCreate(h, u, form)
      PROVE  users' \in [Users -> Row] /\ RequestsTyped' /\ AccountsTyped'
  <2>1. [step |-> "inserting", user |-> u, form |-> form] \in Inserting
    BY DEF Inserting
  <2> QED BY <1>1, <1>22, <2>1, Stops, InPlaces DEF ReadForApiCreate, AccountsTyped, accounts
<1>23. CASE ApiInsert(h)
  <2>1. at[h].user \in Users /\ at[h].form \in Forms
    BY <1>23, Place DEF ApiInsert, Inserting
  <2>2. /\ at[h].form.admin \in BOOLEAN /\ at[h].form.active \in BOOLEAN
        /\ at[h].form.password \in Passwords \cup {None}
    BY <2>1, AdministrationAssumption
  <2>3. NewUser(at[h].form.admin, at[h].form.active, at[h].form.password, "api") \in Row
    BY <2>2 DEF NewUser, Row, Stored
  <2>4. users' \in [Users -> Row]
    BY <1>1, <1>23, <2>3 DEF ApiInsert
  <2> QED BY <1>1, <1>23, <2>4, Stops, InPlaces DEF ApiInsert, AccountsTyped, accounts
<1>24. ASSUME NEW u \in Users, NEW form \in Forms, ApiUpdate(h, u, form)
      PROVE  users' \in [Users -> Row] /\ RequestsTyped' /\ AccountsTyped'
  <2>1. /\ form.admin \in BOOLEAN /\ form.active \in BOOLEAN
        /\ form.password \in Passwords \cup {None}
    BY AdministrationAssumption
  <2>2. users' \in [Users -> Row]
    <3>1. \A w \in Stored, c \in {"self", "admin", "api"} :
             [users[u] EXCEPT !.admin = form.admin, !.active = form.active, !.password = w,
                 !.chosenBy = c] \in Row
      BY <1>1, <2>1 DEF Row
    <3>2. /\ users[u].password \in Stored /\ users[u].chosenBy \in {"self", "admin", "api"}
          /\ form.password \in Stored
      BY <1>1, <2>1 DEF Row, Stored
    <3> QED BY <1>1, <1>24, <3>1, <3>2 DEF ApiUpdate
  <2>3. excused' \subseteq SessionIds
    BY <1>1, <1>24 DEF ApiUpdate, AccountsTyped, LiveSessions, MintedFor
  <2> QED BY <1>1, <1>24, <2>2, <2>3, Stops, InPlaces DEF ApiUpdate, AccountsTyped
<1> QED BY <1>2, <1>3, <1>4, <1>5, <1>6, <1>7, <1>8, <1>9, <1>10, <1>11, <1>12, <1>13, <1>14,
           <1>15, <1>16, <1>17, <1>18, <1>19, <1>20, <1>21, <1>22, <1>23, <1>24 DEF AdminStep


LEMMA LinkStepTyped ==
    ASSUME TypeOK, NEW h \in Handlers, LinkStep(h)
    PROVE  users' \in [Users -> Row] /\ RequestsTyped' /\ LinksTyped'
<1> USE DEF Doing
<1>1. users \in [Users -> Row] /\ LinksTyped
  BY Parts
<1>2. ASSUME NEW u \in Users, IssueCode(h, u)
      PROVE  users' \in [Users -> Row] /\ RequestsTyped' /\ LinksTyped'
  <2>1. codes + 1 \in Codes
    BY <1>1, <1>2, UsersAssumption DEF IssueCode, LinksTyped, Codes
  <2>2. users' \in [Users -> Row]
    BY <1>1, <1>2, <2>1 DEF IssueCode, Row
  <2>3. codes' \in 0..MaxCodes
    BY <1>1, <1>2, UsersAssumption DEF IssueCode, LinksTyped
  <2> QED BY <1>1, <1>2, <2>2, <2>3, Stops, InPlaces DEF IssueCode, LinksTyped
<1>3. ASSUME NEW u \in Users, FindCode(h, u)
      PROVE  users' \in [Users -> Row] /\ RequestsTyped' /\ LinksTyped'
  <2>1. at[h] \in LookingUp
    BY <1>3, Place DEF FindCode
  <2>2. [step |-> "checking", user |-> u, chat |-> at[h].chat, code |-> at[h].code] \in Linking
    BY <2>1 DEF LookingUp, Linking
  <2> QED BY <1>1, <1>3, <2>2, Stops, InPlaces DEF FindCode, LinksTyped, links
<1>4. ASSUME NEW u \in Users, Unlink(h, u)
      PROVE  users' \in [Users -> Row] /\ RequestsTyped' /\ LinksTyped'
  <2>1. [users[u] EXCEPT !.telegram = None, !.code = None] \in Row
    BY <1>1 DEF Row
  <2>2. users' \in [Users -> Row]
    BY <1>1, <1>4, <2>1 DEF Unlink
  <2> QED BY <1>1, <1>4, <2>2, Stops, InPlaces DEF Unlink, LinksTyped, links
<1>5. ASSUME NEW m \in Messages, TakeUpdate(h, m)
      PROVE  users' \in [Users -> Row] /\ RequestsTyped' /\ LinksTyped'
  <2>1. [step |-> "looking up", chat |-> m.chat, code |-> m.code] \in LookingUp
    BY TelegramLinksAssumption DEF LookingUp
  <2>2. updates' \subseteq UpdateIds
    BY <1>1, <1>5 DEF TakeUpdate, LinksTyped, UpdateIds
  <2> QED BY <1>1, <1>5, <2>1, <2>2, Stops, InPlaces DEF TakeUpdate, LinksTyped
<1>6. ASSUME NEW u \in Users, NEW p \in Passwords, NEW c \in Chats, Credentials(h, u, p, c)
      PROVE  users' \in [Users -> Row] /\ RequestsTyped' /\ LinksTyped'
  <2>1. [step |-> "checking", user |-> u, chat |-> c, code |-> None] \in Linking
    BY DEF Linking
  <2> QED BY <1>1, <1>6, <2>1, Stops, InPlaces DEF Credentials, LinksTyped, links
<1>7. CASE LinkChat(h)
  <2>1. at[h].user \in Users /\ at[h].chat \in Chats /\ at[h].code \in Codes \cup {None}
    BY <1>7, Place DEF LinkChat, Linking
  <2>2. users' \in [Users -> Row]
    BY <1>1, <1>7, <2>1 DEF LinkChat, Row
  <2>3. linked' \in [Codes -> SUBSET Chats] /\ displaced' \subseteq Codes
    BY <1>1, <1>7, <2>1 DEF LinkChat, LinksTyped
  <2> QED BY <1>1, <1>7, <2>2, <2>3, Stops, InPlaces DEF LinkChat, LinksTyped
<1>8. CASE CheckTaken(h)
  <2>1. at[h] \in Linking
    BY <1>8, Place DEF CheckTaken
  <2>2. [at[h] EXCEPT !.step = "linking"] \in Linking
    BY <2>1 DEF Linking
  <2> QED BY <1>1, <1>8, <2>2, Stops, InPlaces DEF CheckTaken, LinksTyped, links
<1> QED BY <1>2, <1>3, <1>4, <1>5, <1>6, <1>7, <1>8 DEF LinkStep

LEMMA NotifyStepTyped ==
    ASSUME TypeOK, NEW h \in Handlers, NotifyStep(h)
    PROVE  users' \in [Users -> Row] /\ RequestsTyped' /\ OutboxTyped'
<1> USE DEF Doing
<1>1. users \in [Users -> Row] /\ OutboxTyped
  BY Parts
<1>2. ASSUME NEW e \in Events, NEW named \in SUBSET Users, Notify(h, e, named)
      PROVE  users' \in [Users -> Row] /\ RequestsTyped' /\ OutboxTyped'
  <2>1. {[user |-> u, chat |-> users[u].telegram] : u \in Recipients(e, named)} \subseteq Recipient
    BY <1>1 DEF Recipients, Recipient, Row
  <2>2. [step |-> "recording", event |-> e,
         to |-> {[user |-> u, chat |-> users[u].telegram] : u \in Recipients(e, named)}] \in Recording
    BY <2>1 DEF Recording
  <2> QED BY <1>1, <1>2, <2>2, Stops, InPlaces DEF Notify, OutboxTyped, outbox
<1>3. CASE Record(h)
  <2>1. at[h] \in Recording
    BY <1>3, Place DEF Record
  <2>2. at[h].to \subseteq Recipient /\ at[h].event \in Events
    BY <2>1 DEF Recording
  <2>3. [step |-> "sending", event |-> at[h].event, sent |-> None,
         to |-> {r \in at[h].to : r.chat # None}] \in Sending
    BY <2>2 DEF Sending
  <2>4. rows' \in [Pairs -> Nat]
    BY <1>1, <1>3 DEF Record, OutboxTyped
  <2>5. unread' \subseteq Users
    BY <1>1, <1>3, <2>2 DEF Record, OutboxTyped, Names, Recipient
  <2> QED BY <1>1, <1>3, <2>3, <2>4, <2>5, Stops, InPlaces DEF Record, OutboxTyped
<1>4. CASE MarkSent(h)
  <2>1. at[h] \in Sending
    BY <1>4, Place DEF MarkSent
  <2>2. [at[h] EXCEPT !.step = "sending"] \in Sending
    BY <2>1 DEF Sending
  <2>3. marked' \in [Pairs -> Nat]
    BY <1>1, <1>4 DEF MarkSent, OutboxTyped
  <2> QED BY <1>1, <1>4, <2>2, <2>3, Stops, InPlaces DEF MarkSent, OutboxTyped
<1>5. CASE Finish(h)
  BY <1>1, <1>5, Stops, InPlaces DEF Finish, OutboxTyped, outbox
<1>6. ASSUME NEW r \in Recipient, NEW ok \in BOOLEAN, Send(h, r, ok)
      PROVE  users' \in [Users -> Row] /\ RequestsTyped' /\ OutboxTyped'
  <2>1. at[h] \in Sending
    BY <1>6, Place DEF Send
  <2>2. \A step \in {"sending", "marking"} :
           [at[h] EXCEPT !.to = @ \ {r}, !.step = step, !.sent = r.user] \in Sending
    BY <2>1 DEF Sending, Recipient
  <2>3. RequestsTyped'
    BY <1>6, <2>2, Stops, InPlaces DEF Send
  <2>4. delivered' \in [Pairs -> Nat]
    <3>1. <<r.user, at[h].event>> \in Pairs
      BY <2>1 DEF Sending, Recipient, Pairs
    <3>2. delivered[<<r.user, at[h].event>>] + 1 \in Nat
      BY <1>1, <3>1 DEF OutboxTyped
    <3> QED BY <1>1, <1>6, <3>2 DEF Send, OutboxTyped
  <2> QED BY <1>1, <1>6, <2>3, <2>4 DEF Send, OutboxTyped
<1>7. ASSUME NEW u \in Users, MarkAllRead(h, u)
      PROVE  users' \in [Users -> Row] /\ RequestsTyped' /\ OutboxTyped'
  BY <1>1, <1>7, Stops, InPlaces DEF MarkAllRead, OutboxTyped
<1> QED BY <1>2, <1>3, <1>4, <1>5, <1>6, <1>7 DEF NotifyStep


\* Where an abandoned request leaves the history.
LEMMA AbandonTyped ==
    ASSUME TypeOK, NEW h \in Handlers, Abandon(h)
    PROVE  users' \in [Users -> Row] /\ RequestsTyped' /\ AccountsTyped'
<1>1. users \in [Users -> Row] /\ AccountsTyped
  BY Parts
<1>2. excused' \subseteq SessionIds
  BY <1>1 DEF Abandon, AccountsTyped, LiveSessions, MintedFor
<1>3. disturbed' \subseteq Users
  <2>1. CASE Doing(h, "flagging")
    <3>1. at[h].user \in Users
      BY <2>1, Place DEF Doing, Creating
    <3> QED BY <1>1, <2>1, <3>1 DEF Abandon, AccountsTyped
  <2> QED BY <1>1, <2>1 DEF Abandon, AccountsTyped
<1> QED BY <1>1, <1>2, <1>3, Stops, InPlaces DEF Abandon, AccountsTyped

LEMMA ExpireTyped ==
    ASSUME TypeOK, NEW t \in TokenIds, Expire(t)
    PROVE  users' \in [Users -> Row] /\ RequestsTyped' /\ AccountsTyped'
<1>1. users \in [Users -> Row] /\ RequestsTyped /\ AccountsTyped
  BY Parts
<1>2. [tokens[t] EXCEPT !.status = "expired"] \in Token
  BY <1>1 DEF Expire, AccountsTyped, Token, NoToken
<1> QED BY <1>1, <1>2 DEF Expire, AccountsTyped, RequestsTyped

LEMMA NextType == TypeOK /\ [Next]_vars => TypeOK'
<1> SUFFICES ASSUME TypeOK, [Next]_vars
             PROVE  TypeOK'
  OBVIOUS
<1>1. users \in [Users -> Row] /\ RequestsTyped /\ AccountsTyped /\ LinksTyped /\ OutboxTyped
  BY Parts
<1>2. /\ UNCHANGED links => LinksTyped'
      /\ UNCHANGED outbox => OutboxTyped'
      /\ UNCHANGED accounts => AccountsTyped'
  BY <1>1 DEF links, outbox, accounts, LinksTyped, OutboxTyped, AccountsTyped
<1>3. users' \in [Users -> Row] /\ RequestsTyped' /\ AccountsTyped' /\ LinksTyped' /\ OutboxTyped'
        => TypeOK'
  BY DEF TypeOK, RequestsTyped, AccountsTyped, LinksTyped, OutboxTyped
<1>4. CASE Next
  <2>1. ASSUME NEW h \in Handlers, SessionStep(h) /\ UNCHANGED <<links, outbox>>
        PROVE  TypeOK'
    BY <1>2, <1>3, <2>1, SessionStepTyped
  <2>2. ASSUME NEW h \in Handlers, AdminStep(h) /\ UNCHANGED <<links, outbox>>
        PROVE  TypeOK'
    BY <1>2, <1>3, <2>2, AdminStepTyped
  <2>3. ASSUME NEW h \in Handlers, LinkStep(h) /\ UNCHANGED <<accounts, outbox>>
        PROVE  TypeOK'
    BY <1>2, <1>3, <2>3, LinkStepTyped
  <2>4. ASSUME NEW h \in Handlers, NotifyStep(h) /\ UNCHANGED <<accounts, links>>
        PROVE  TypeOK'
    BY <1>2, <1>3, <2>4, NotifyStepTyped
  <2>5. ASSUME NEW h \in Handlers, Abandon(h) /\ UNCHANGED <<links, outbox>>
        PROVE  TypeOK'
    BY <1>2, <1>3, <2>5, AbandonTyped
  <2>6. ASSUME NEW t \in TokenIds, Expire(t) /\ UNCHANGED <<links, outbox>>
        PROVE  TypeOK'
    BY <1>2, <1>3, <2>6, ExpireTyped
  <2> QED BY <1>4, <2>1, <2>2, <2>3, <2>4, <2>5, <2>6 DEF Next
<1>5. CASE UNCHANGED vars
  <2>1. users' = users /\ RequestsTyped' /\ UNCHANGED <<accounts, links, outbox>>
    BY <1>1, <1>5 DEF vars, RequestsTyped
  <2> QED BY <1>1, <1>2, <1>3, <2>1
<1> QED BY <1>4, <1>5

\* Whatever the requests do and wherever they stop, the tables keep their types.
THEOREM TypeCorrect == Spec => []TypeOK
BY InitType, NextType, PTL DEF Spec


-----------------------------------------------------------------------------
(* Credentials are accepted once. *)

TokensKept == \A t \in TokenIds :
    tokens[t].status \in {"used", "deleted"} => tokens'[t].status \in {"used", "deleted"}

\* A session keeps its user and the password it was minted on; its hash only
\* grows, and it does not come back to life.
SessionsKept == \A s \in SessionIds : sessions[s] # NoSession =>
    /\ sessions'[s] # NoSession
    /\ sessions'[s].user = sessions[s].user /\ sessions'[s].proof = sessions[s].proof
    /\ sessions'[s].hash >= sessions[s].hash
    /\ sessions'[s].status = "live" => sessions[s].status = "live"

NoneMinted == \A s \in SessionIds : sessions[s] = NoSession => sessions'[s] = NoSession

LEMMA EndKeeps ==
    ASSUME TypeOK, NEW u, NEW keep, EndSessions(u, keep)
    PROVE  SessionsKept /\ NoneMinted
<1>0. NoneMinted
  BY DEF EndSessions, LiveSessions, MintedFor, NoneMinted
<1> SUFFICES ASSUME NEW s \in SessionIds, sessions[s] # NoSession
             PROVE  LET ended == [sessions[s] EXCEPT !.status = "ended"]
                    IN /\ ended # NoSession
                       /\ ended.user = sessions[s].user /\ ended.proof = sessions[s].proof
                       /\ ended.hash >= sessions[s].hash /\ sessions[s].hash >= sessions[s].hash
                       /\ ended.status # "live"
  BY <1>0 DEF EndSessions, SessionsKept, LiveSessions, MintedFor
<1>1. sessions[s] \in Session
  BY DEF TypeOK
<1> QED BY <1>1 DEF Session, NoSession

LEMMA SameKept ==
    /\ TypeOK /\ UNCHANGED sessions => SessionsKept /\ NoneMinted
    /\ UNCHANGED tokens => TokensKept
<1>1. /\ UNCHANGED sessions => NoneMinted
      /\ UNCHANGED tokens => TokensKept
  BY DEF NoneMinted, TokensKept
<1> SUFFICES ASSUME TypeOK, NEW s \in SessionIds, sessions[s] # NoSession
             PROVE  sessions[s].hash >= sessions[s].hash
  BY <1>1 DEF SessionsKept
<1> QED BY DEF TypeOK, Session

LEMMA DropKeeps ==
    ASSUME TypeOK, NEW u, NEW purpose, tokens' = WithoutTokens(u, purpose)
    PROVE  TokensKept
<1> SUFFICES ASSUME NEW t \in TokenIds, tokens[t] # NoToken
             PROVE  [tokens[t] EXCEPT !.status = "deleted"].status = "deleted"
  BY DEF WithoutTokens, TokensKept
<1> QED BY DEF TypeOK, Token

\* A spent token is used up or deleted, a spent refresh token is older than its session.
SpentInv ==
    /\ respent = {}
    /\ \A t \in TokenIds : [token |-> t] \in spent => tokens[t].status \in {"used", "deleted"}
    /\ \A s \in SessionIds, n \in Nat : [session |-> s, hash |-> n] \in spent =>
          sessions[s] # NoSession /\ n < sessions[s].hash

LEMMA SpentKept ==
    ASSUME TypeOK, SpentInv, UNCHANGED <<spent, respent>>, TokensKept, SessionsKept, TypeOK'
    PROVE  SpentInv'
<1>1. \A s \in SessionIds : sessions[s] # NoSession =>
         sessions[s].hash \in Nat /\ sessions'[s].hash \in Nat
  BY DEF TypeOK, Session, SessionsKept
<1> QED BY <1>1 DEF SpentInv, TokensKept, SessionsKept

LEMMA RefreshSpends ==
    ASSUME TypeOK, SpentInv, NEW h \in Handlers, NEW s \in SessionIds, NEW n \in 1..MaxRequests,
           Refresh(h, s, n)
    PROVE  SpentInv'
<1>1. sessions[s] \in Session /\ n \in Nat /\ n = sessions[s].hash
  BY UsersAssumption DEF Refresh, TypeOK
<1>2. [session |-> s, hash |-> n] \notin spent
  BY <1>1 DEF SpentInv, Session
<1>3. respent' = {}
  BY <1>2 DEF Refresh, Spend, SpentInv
<1>4. sessions'[s] # NoSession /\ sessions'[s].hash = n + 1
      /\ \A r \in SessionIds \ {s} : sessions'[r] = sessions[r]
  BY <1>1 DEF Refresh, TypeOK, Session, NoSession
<1>5. ASSUME NEW t \in TokenIds, [token |-> t] \in spent'
      PROVE  tokens'[t].status \in {"used", "deleted"}
  <2>1. [token |-> t] # [session |-> s, hash |-> n]
    <3>1. DOMAIN [token |-> t] = {"token"} /\ DOMAIN [session |-> s, hash |-> n] = {"session", "hash"}
      OBVIOUS
    <3> QED BY <3>1
  <2> QED BY <1>5, <2>1 DEF Refresh, Spend, SpentInv
<1>6. ASSUME NEW r \in SessionIds, NEW k \in Nat, [session |-> r, hash |-> k] \in spent'
      PROVE  sessions'[r] # NoSession /\ k < sessions'[r].hash
  <2>1. CASE [session |-> r, hash |-> k] \in spent
    BY <1>1, <1>4, <2>1 DEF SpentInv, Session
  <2>2. CASE [session |-> r, hash |-> k] = [session |-> s, hash |-> n]
    <3>1. r = s /\ k = n
      BY <2>2
    <3> QED BY <1>1, <1>4, <3>1
  <2> QED BY <1>6, <2>1, <2>2 DEF Refresh, Spend
<1> QED BY <1>3, <1>5, <1>6 DEF SpentInv

LEMMA ClaimSpends ==
    ASSUME TypeOK, SpentInv, NEW h \in Handlers, ClaimToken(h)
    PROVE  SpentInv'
<1> DEFINE t == at[h].token
<1>1. t \in TokenIds /\ tokens[t].status \in {"unused", "expired"}
  BY Place DEF ClaimToken, Doing, Claiming
<1>2. [token |-> t] \notin spent
  BY <1>1 DEF SpentInv
<1>3. respent' = {} /\ spent' = spent \cup {[token |-> t]}
  BY <1>2 DEF ClaimToken, Spend, SpentInv
<1>4. tokens'[t].status = "used" /\ \A r \in TokenIds \ {t} : tokens'[r] = tokens[r]
  <2>1. tokens[t] \in Token
    BY <1>1 DEF TypeOK, NoToken
  <2> QED BY <1>1, <2>1 DEF ClaimToken, TypeOK, Token
<1>5. ASSUME NEW r \in TokenIds, [token |-> r] \in spent'
      PROVE  tokens'[r].status \in {"used", "deleted"}
  BY <1>3, <1>4, <1>5 DEF SpentInv
<1>6. ASSUME NEW r \in SessionIds, NEW k \in Nat, [session |-> r, hash |-> k] \in spent'
      PROVE  sessions'[r] # NoSession /\ k < sessions'[r].hash
  <2>1. [token |-> t] # [session |-> r, hash |-> k]
    <3>1. DOMAIN [token |-> t] = {"token"} /\ DOMAIN [session |-> r, hash |-> k] = {"session", "hash"}
      OBVIOUS
    <3> QED BY <3>1
  <2> QED BY <1>3, <1>6, <2>1 DEF ClaimToken, SpentInv
<1> QED BY <1>3, <1>5, <1>6 DEF SpentInv


-----------------------------------------------------------------------------
(* Most steps leave passwords, flags and sessions alone. *)

Alone(h) == \A g \in Handlers \ {h} : at'[g] = at[g]

LEMMA Moves ==
    ASSUME TypeOK, NEW h \in Handlers
    PROVE  /\ \A place : Then(h, place) => Alone(h) /\ at'[h] = place
           /\ \A place : Begin(h, place) => Alone(h) /\ at'[h] = place /\ at[h].step = "idle"
           /\ Once(h) => Alone(h) /\ at'[h] = at[h] /\ at[h].step = "idle"
BY DEF Then, Begin, Once, Goto, Alone, TypeOK, Idle

UsersKept == \A u \in Users :
    /\ users'[u].password = users[u].password
    /\ users'[u].chosenBy = users[u].chosenBy
    /\ users'[u].mustChange = users[u].mustChange
    /\ users[u].status # "absent" => users'[u].status # "absent"

PasswordsKept == \A u \in Users :
    /\ users'[u].password = users[u].password
    /\ users[u].status # "absent" => users'[u].status # "absent"

\* A deletion that found an admin had counted others.
Checked(h) == at[h].step \in {"ending", "removing"} /\ at[h].wasAdmin => at[h].others # {}

\* What most steps leave alone.
Silent(h) ==
    /\ Alone(h)
    /\ Checked(h) => Checked(h)'
    /\ at[h].step = "removing" => RemoveUser(h)
    /\ at[h].step \notin {"setting", "uninviting", "expelling", "flagging"}
    /\ at'[h].step \notin {"setting", "flagging"}
    /\ at'[h].step = "minting" => users[at'[h].user].status # "absent"
    /\ UsersKept /\ NoneMinted
    /\ UNCHANGED <<excused, disturbed>>

\* The places of a handler that is sending notifications.
Couriers == {"recording", "sending", "marking"}

\* A request of the other modules that does no more than that.
Quiet(h) == Silent(h) /\ at'[h].step \notin Couriers

LEMMA SessionStepMoves ==
    ASSUME TypeOK, NEW h \in Handlers, SessionStep(h)
    PROVE  /\ SessionsKept /\ TokensKept
           /\ \/ UNCHANGED <<spent, respent>> \/ ClaimToken(h)
              \/ \E s \in SessionIds, n \in 1..MaxRequests : Refresh(h, s, n)
           /\ \/ Quiet(h) \/ \E s \in SessionIds : Mint(h, s)
              \/ DropSessions(h) \/ SetPassword(h) \/ ProfileChange(h)
<1> DEFINE AllKept == SessionsKept /\ TokensKept /\ UNCHANGED <<spent, respent>>
<1> USE DEF Doing
<1>1. UNCHANGED users => UsersKept
  BY DEF UsersKept
<1>2. ASSUME NEW u \in Users, NEW p \in Passwords, SignIn(h, u, p)
      PROVE  AllKept /\ Quiet(h)
  BY <1>1, <1>2, Moves, SameKept DEF SignIn, accounts, Quiet, Silent, Couriers, Checked, Admitted, Live
<1>3. ASSUME NEW u \in Users, NEW p \in Passwords, ForcedChange(h, u, p)
      PROVE  AllKept /\ Quiet(h)
  BY <1>1, <1>3, Moves, SameKept DEF ForcedChange, accounts, Quiet, Silent, Couriers, Checked
<1>4. ASSUME NEW u \in Users, NEW p \in Passwords, ReadForProfile(h, u, p)
      PROVE  AllKept /\ Quiet(h)
  BY <1>1, <1>4, Moves, SameKept DEF ReadForProfile, accounts, Quiet, Silent, Couriers, Checked
<1>5. ASSUME NEW s \in SessionIds, Mint(h, s)
      PROVE  AllKept
  <2>1. SessionsKept
    <3>1. \A r \in SessionIds \ {s} : sessions'[r] = sessions[r]
      BY <1>5 DEF Mint, TypeOK
    <3>2. \A r \in SessionIds : sessions[r] # NoSession => sessions[r].hash \in Nat
      BY DEF TypeOK, Session
    <3> QED BY <1>5, <3>1, <3>2 DEF Mint, SessionsKept
  <2> QED BY <1>5, <2>1, SameKept DEF Mint
<1>6. ASSUME NEW s \in SessionIds, Logout(h, s)
      PROVE  AllKept /\ Quiet(h)
  <2>1. sessions[s] \in Session
    BY <1>6 DEF Logout, TypeOK
  <2>2. /\ \A r \in SessionIds \ {s} : sessions'[r] = sessions[r]
        /\ sessions'[s] = [sessions[s] EXCEPT !.status = "ended"]
    BY <1>6 DEF Logout, TypeOK
  <2>3. \A r \in SessionIds : sessions[r] # NoSession => sessions[r].hash \in Nat
    BY DEF TypeOK, Session
  <2>4. SessionsKept /\ NoneMinted
    BY <1>6, <2>1, <2>2, <2>3 DEF Logout, SessionsKept, NoneMinted, Session, NoSession
  <2> QED BY <1>1, <1>6, <2>4, Moves, SameKept DEF Logout, Quiet, Silent, Couriers, Checked
<1>7. ASSUME NEW s \in SessionIds, NEW n \in 1..MaxRequests, Refresh(h, s, n)
      PROVE  SessionsKept /\ TokensKept /\ Quiet(h)
  <2>1. sessions[s] \in Session
    BY <1>7 DEF Refresh, TypeOK
  <2>2. /\ \A r \in SessionIds \ {s} : sessions'[r] = sessions[r]
        /\ sessions'[s] = [sessions[s] EXCEPT !.hash = @ + 1]
    BY <1>7 DEF Refresh, TypeOK
  <2>3. \A r \in SessionIds : sessions[r] # NoSession => sessions[r].hash \in Nat
    BY DEF TypeOK, Session
  <2>4. SessionsKept /\ NoneMinted
    BY <1>7, <2>1, <2>2, <2>3 DEF Refresh, SessionsKept, NoneMinted, Session, NoSession
  <2> QED BY <1>1, <1>7, <2>4, Moves, SameKept DEF Refresh, Quiet, Silent, Couriers, Checked
<1>8. ASSUME NEW s \in SessionIds, NEW old \in Passwords, NEW p \in Passwords, ApiChange(h, s, old, p)
      PROVE  AllKept /\ Quiet(h)
  BY <1>1, <1>8, Moves, SameKept DEF ApiChange, accounts, Quiet, Silent, Couriers, Checked
<1>9. ASSUME NEW u \in Users, NEW purpose \in Purposes, AskForToken(h, u, purpose)
      PROVE  AllKept /\ Quiet(h)
  BY <1>1, <1>9, Moves, SameKept DEF AskForToken, accounts, Quiet, Silent, Couriers, Checked
<1>10. ASSUME NEW u \in Users, RevokeInvite(h, u)
       PROVE  AllKept /\ Quiet(h)
  BY <1>1, <1>10, Moves, SameKept, DropKeeps DEF RevokeInvite, Quiet, Silent, Couriers, Checked
<1>11. ASSUME NEW t \in TokenIds, IssueToken(h, t)
       PROVE  AllKept /\ Quiet(h)
  <2>1. TokensKept
    BY <1>11 DEF IssueToken, TokensKept, TypeOK, NoToken
  <2> QED BY <1>1, <1>11, <2>1, Moves, SameKept DEF IssueToken, Quiet, Silent, Couriers, Checked, Idle
<1>12. ASSUME NEW t \in TokenIds, NEW p \in Passwords, CheckToken(h, t, p)
       PROVE  AllKept /\ Quiet(h)
  BY <1>1, <1>12, Moves, SameKept DEF CheckToken, accounts, Quiet, Silent, Couriers, Checked
<1>13. CASE Invalidate(h)
  <2>1. at'[h].step = "issuing"
    <3>1. at[h] \in Issuing
      BY <1>13, Place DEF Invalidate
    <3>2. [at[h] EXCEPT !.step = "issuing"].step = "issuing"
      BY <3>1 DEF Issuing
    <3> QED BY <1>13, <3>2, Moves DEF Invalidate
  <2> QED BY <1>1, <1>13, <2>1, Moves, SameKept, DropKeeps DEF Invalidate, Quiet, Silent, Couriers, Checked
<1>14. CASE ClaimToken(h)
  <2>1. TokensKept
    BY <1>14, Place DEF ClaimToken, TokensKept, TypeOK, Token, NoToken, Claiming
  <2>2. at'[h].step \in {"dropping", "idle"}
    BY <1>14, Moves DEF ClaimToken, Idle
  <2> QED BY <1>1, <1>14, <2>1, <2>2, Moves, SameKept DEF ClaimToken, Quiet, Silent, Couriers, Checked
<1>15. CASE DropSessions(h)
  BY <1>15, SameKept, EndKeeps DEF DropSessions
<1>16. CASE SetPassword(h)
  BY <1>16, SameKept DEF SetPassword
<1>17. CASE Return(h)
  BY <1>1, <1>17, Moves, SameKept DEF Return, accounts, Quiet, Silent, Couriers, Checked, Admitted, Live, Idle
<1>18. CASE ProfileChange(h)
  BY <1>18, SameKept DEF ProfileChange
<1> QED BY <1>2, <1>3, <1>4, <1>5, <1>6, <1>7, <1>8, <1>9, <1>10, <1>11, <1>12, <1>13, <1>14,
           <1>15, <1>16, <1>17, <1>18 DEF SessionStep


LEMMA AdminStepMoves ==
    ASSUME TypeOK, NEW h \in Handlers, AdminStep(h)
    PROVE  /\ SessionsKept /\ NoneMinted /\ TokensKept /\ UNCHANGED <<spent, respent>>
           /\ \/ Quiet(h) \/ ResetPassword(h) \/ \E garbles \in BOOLEAN : ConfirmEmail(h, garbles)
              \/ InsertUser(h) \/ FlagUser(h) \/ OverridePassword(h) \/ Uninvite(h) \/ Expel(h)
              \/ ApiInsert(h) \/ \E u \in Users, form \in Forms : ApiUpdate(h, u, form)
<1> DEFINE AllKept == SessionsKept /\ NoneMinted /\ TokensKept /\ UNCHANGED <<spent, respent>>
<1> USE DEF Doing
<1>1. UNCHANGED users => UsersKept
  BY DEF UsersKept
<1>2. ASSUME NEW u \in Users, NEW p \in Passwords, ReadForReset(h, u, p)
      PROVE  AllKept /\ Quiet(h)
  BY <1>1, <1>2, Moves, SameKept DEF ReadForReset, accounts, Quiet, Silent, Couriers, Checked
<1>3. ASSUME NEW u \in Users, ReadForConfirm(h, u)
      PROVE  AllKept /\ Quiet(h)
  BY <1>1, <1>3, Moves, SameKept DEF ReadForConfirm, accounts, Quiet, Silent, Couriers, Checked
<1>4. ASSUME NEW u \in Users, ApiRemove(h, u)
      PROVE  AllKept /\ Quiet(h)
  <2>1. UsersKept
    BY <1>4 DEF ApiRemove, UsersKept, TypeOK, Row
  <2> QED BY <1>4, <2>1, Moves, SameKept DEF ApiRemove, accounts, Quiet, Silent, Couriers, Checked
<1>5. ASSUME NEW u \in Users, NEW admin \in BOOLEAN, NEW p \in Passwords \cup {None}, ReadForCreate(h, u, admin, p)
      PROVE  AllKept /\ Quiet(h)
  BY <1>1, <1>5, Moves, SameKept DEF ReadForCreate, accounts, Quiet, Silent, Couriers, Checked
<1>6. ASSUME NEW u \in Users, NEW form \in Forms, ReadForEdit(h, u, form)
      PROVE  AllKept /\ Quiet(h)
  BY <1>1, <1>6, Moves, SameKept DEF ReadForEdit, accounts, Quiet, Silent, Couriers, Checked
<1>7. ASSUME NEW actor \in Users, NEW u \in Users, ReadForDelete(h, actor, u)
      PROVE  AllKept /\ Quiet(h)
  BY <1>1, <1>7, Moves, SameKept DEF ReadForDelete, accounts, Quiet, Silent, Couriers, Checked
<1>8. ASSUME WriteUser(h)
      PROVE  AllKept /\ Quiet(h)
  <2>1. UsersKept
    <3>1. \A a, b : \A row \in Row :
             LET new == [row EXCEPT !.admin = a, !.active = b]
             IN /\ new.password = row.password /\ new.chosenBy = row.chosenBy
                /\ new.mustChange = row.mustChange /\ new.status = row.status
      BY DEF Row
    <3>2. users \in [Users -> Row]
      BY DEF TypeOK
    <3>3. users' = [users EXCEPT ![at[h].user] =
                [@ EXCEPT !.admin = at[h].form.admin, !.active = at[h].form.active]]
      BY <1>8, <3>2 DEF WriteUser
    <3> QED BY <3>1, <3>2, <3>3 DEF UsersKept
  <2>2. at'[h].step = "linking fields"
    <3>1. at[h] \in Editing
      BY <1>8, Place DEF WriteUser
    <3>2. [at[h] EXCEPT !.step = "linking fields"].step = "linking fields"
      BY <3>1 DEF Editing
    <3> QED BY <1>8, <3>2, Moves DEF WriteUser
  <2> QED BY <1>8, <2>1, <2>2, Moves, SameKept DEF WriteUser, accounts, Quiet, Silent, Couriers, Checked
<1>9. ASSUME WriteFields(h)
      PROVE  AllKept /\ Quiet(h)
  <2>1. UsersKept
    BY <1>9 DEF WriteFields, UsersKept, TypeOK, Row
  <2>2. at[h] \in Editing
    BY <1>9, Place DEF WriteFields
  <2>3. AfterFields(h).step \in {"deactivating", "overriding", "idle"}
    BY <2>2 DEF AfterFields, AfterEnding, Editing, Idle
  <2> QED BY <1>9, <2>1, <2>3, Moves, SameKept DEF WriteFields, accounts, Quiet, Silent, Couriers, Checked
<1>10. ASSUME EndForDeactivation(h)
      PROVE  AllKept /\ Quiet(h)
  <2>1. at[h] \in Editing
    BY <1>10, Place DEF EndForDeactivation
  <2>2. AfterEnding(h).step \in {"overriding", "idle"}
    BY <2>1 DEF AfterEnding, Editing, Idle
  <2> QED BY <1>1, <1>10, <2>2, Moves, SameKept, EndKeeps DEF EndForDeactivation, Quiet, Silent, Couriers, Checked
<1>11. ASSUME CountAdmins(h)
      PROVE  AllKept /\ Quiet(h)
  BY <1>1, <1>11, Moves, SameKept DEF CountAdmins, accounts, Quiet, Silent, Couriers, Checked
<1>12. ASSUME FindTarget(h)
      PROVE  AllKept /\ Quiet(h)
  <2>1. at'[h] = Removal(h) /\ ~(IsAdmin(at[h].user) /\ at[h].others = {})
    BY <1>12, Moves DEF FindTarget
  <2>2. /\ Removal(h).step = "ending" /\ Removal(h).others = at[h].others
        /\ Removal(h).wasAdmin = IsAdmin(at[h].user)
    BY DEF Removal
  <2>3. at'[h].step = "ending" /\ Checked(h)'
    BY <2>1, <2>2 DEF Checked
  <2> QED BY <1>1, <1>12, <2>3, Moves, SameKept DEF FindTarget, accounts, Quiet, Silent, Couriers, Checked
<1>13. ASSUME EndForDelete(h)
      PROVE  AllKept /\ Quiet(h)
  <2>1. at[h] \in Removing
    BY <1>13, Place DEF EndForDelete
  <2>2. LET next == [at[h] EXCEPT !.step = "removing"]
        IN next.step = "removing" /\ next.wasAdmin = at[h].wasAdmin /\ next.others = at[h].others
    BY <2>1 DEF Removing
  <2>3. at'[h].step = "removing" /\ at'[h].wasAdmin = at[h].wasAdmin /\ at'[h].others = at[h].others
    BY <1>13, <2>2, Moves DEF EndForDelete
  <2> QED BY <1>1, <1>13, <2>3, Moves, SameKept, EndKeeps DEF EndForDelete, Quiet, Silent, Couriers, Checked
<1>14. ASSUME RemoveUser(h)
      PROVE  AllKept /\ Quiet(h)
  <2>1. at[h].user \in Users
    BY <1>14, Place DEF RemoveUser, Removing
  <2>2. UsersKept
    BY <1>14, <2>1 DEF RemoveUser, UsersKept, TypeOK, Row
  <2> QED BY <1>14, <2>2, Moves, SameKept DEF RemoveUser, accounts, Quiet, Silent, Couriers, Checked, Idle
<1>15. ASSUME ResetPassword(h)
      PROVE  AllKept
  BY <1>15, SameKept DEF ResetPassword
<1>16. ASSUME NEW garbles \in BOOLEAN, ConfirmEmail(h, garbles)
      PROVE  AllKept
  BY <1>16, SameKept DEF ConfirmEmail
<1>17. ASSUME InsertUser(h)
      PROVE  AllKept
  BY <1>17, SameKept DEF InsertUser, accounts
<1>18. ASSUME FlagUser(h)
      PROVE  AllKept
  BY <1>18, SameKept DEF FlagUser, accounts
<1>19. ASSUME OverridePassword(h)
      PROVE  AllKept
  BY <1>19, SameKept DEF OverridePassword, accounts
<1>20. ASSUME Uninvite(h)
      PROVE  AllKept
  BY <1>20, SameKept, DropKeeps DEF Uninvite
<1>21. ASSUME Expel(h)
      PROVE  AllKept
  BY <1>21, SameKept, EndKeeps DEF Expel
<1>22. ASSUME NEW u \in Users, NEW form \in Forms, ReadForApiCreate(h, u, form)
      PROVE  AllKept /\ Quiet(h)
  BY <1>1, <1>22, Moves, SameKept DEF ReadForApiCreate, accounts, Quiet, Silent, Couriers, Checked
<1>23. ASSUME ApiInsert(h)
      PROVE  AllKept
  BY <1>23, SameKept DEF ApiInsert, accounts
<1>24. ASSUME NEW u \in Users, NEW form \in Forms, ApiUpdate(h, u, form)
      PROVE  AllKept
  BY <1>24, SameKept DEF ApiUpdate
<1> QED BY <1>2, <1>3, <1>4, <1>5, <1>6, <1>7, <1>8, <1>9, <1>10, <1>11, <1>12, <1>13, <1>14,
           <1>15, <1>16, <1>17, <1>18, <1>19, <1>20, <1>21, <1>22, <1>23, <1>24 DEF AdminStep

LEMMA LinkStepMoves ==
    ASSUME TypeOK, NEW h \in Handlers, LinkStep(h), UNCHANGED accounts
    PROVE  Quiet(h)
<1> USE DEF Doing
<1>1. NoneMinted /\ UNCHANGED <<excused, disturbed>> /\ (UNCHANGED users => UsersKept)
  BY SameKept DEF accounts, UsersKept
<1>2. ASSUME NEW u \in Users, IssueCode(h, u)
      PROVE  Quiet(h)
  <2>1. UsersKept
    BY <1>2 DEF IssueCode, UsersKept, TypeOK, Row
  <2> QED BY <1>1, <1>2, <2>1, Moves DEF IssueCode, Quiet, Silent, Couriers, Checked
<1>3. ASSUME NEW u \in Users, FindCode(h, u)
      PROVE  Quiet(h)
  <2>1. Alone(h) /\ at'[h].step = "checking" /\ at[h].step = "looking up"
    <3>1. Then(h, [step |-> "checking", user |-> u, chat |-> at[h].chat, code |-> at[h].code])
      BY <1>3 DEF FindCode
    <3>2. [step |-> "checking", user |-> u, chat |-> at[h].chat, code |-> at[h].code].step = "checking"
      OBVIOUS
    <3> QED BY <1>3, <3>1, <3>2, Moves DEF FindCode
  <2>2. UNCHANGED users
    BY <1>3 DEF FindCode
  <2> QED BY <1>1, <2>1, <2>2 DEF Quiet, Silent, Couriers, Checked
<1>4. ASSUME NEW u \in Users, Unlink(h, u)
      PROVE  Quiet(h)
  <2>1. UsersKept
    BY <1>4 DEF Unlink, UsersKept, TypeOK, Row
  <2> QED BY <1>1, <1>4, <2>1, Moves DEF Unlink, Quiet, Silent, Couriers, Checked
<1>5. ASSUME NEW m \in Messages, TakeUpdate(h, m)
      PROVE  Quiet(h)
  <2>1. Alone(h) /\ at'[h].step = "looking up" /\ at[h].step = "idle"
    <3>1. Begin(h, [step |-> "looking up", chat |-> m.chat, code |-> m.code])
      BY <1>5 DEF TakeUpdate
    <3>2. [step |-> "looking up", chat |-> m.chat, code |-> m.code].step = "looking up"
      OBVIOUS
    <3> QED BY <3>1, <3>2, Moves
  <2>2. UNCHANGED users
    BY <1>5 DEF TakeUpdate
  <2> QED BY <1>1, <2>1, <2>2 DEF Quiet, Silent, Couriers, Checked
<1>6. ASSUME NEW u \in Users, NEW p \in Passwords, NEW c \in Chats, Credentials(h, u, p, c)
      PROVE  Quiet(h)
  BY <1>1, <1>6, Moves DEF Credentials, Quiet, Silent, Couriers, Checked
<1>7. CASE LinkChat(h)
  <2>1. at[h].user \in Users
    BY <1>7, Place DEF LinkChat, Linking
  <2>2. UsersKept
    BY <1>7, <2>1 DEF LinkChat, UsersKept, TypeOK, Row
  <2> QED BY <1>1, <1>7, <2>2, Moves DEF LinkChat, Quiet, Silent, Couriers, Checked, Idle
<1>8. CASE CheckTaken(h)
  <2>1. at[h] \in Linking
    BY <1>8, Place DEF CheckTaken
  <2>2. [at[h] EXCEPT !.step = "linking"].step = "linking"
    BY <2>1 DEF Linking
  <2>3. at'[h].step = "linking"
    BY <1>8, <2>2, Moves DEF CheckTaken
  <2> QED BY <1>1, <1>8, <2>3, Moves DEF CheckTaken, Quiet, Silent, Couriers, Checked
<1> QED BY <1>2, <1>3, <1>4, <1>5, <1>6, <1>7, <1>8 DEF LinkStep

LEMMA NotifyStepMoves ==
    ASSUME TypeOK, NEW h \in Handlers, NotifyStep(h), UNCHANGED accounts
    PROVE  Silent(h) /\ UNCHANGED users
<1> USE DEF Doing
<1>1. NoneMinted /\ UNCHANGED <<excused, disturbed>> /\ (UNCHANGED users => UsersKept)
  BY SameKept DEF accounts, UsersKept
<1>2. ASSUME NEW e \in Events, NEW named \in SUBSET Users, Notify(h, e, named)
      PROVE  Silent(h) /\ UNCHANGED users
  BY <1>1, <1>2, Moves DEF Notify, Silent, Checked
<1>3. CASE Record(h)
  BY <1>1, <1>3, Moves DEF Record, Silent, Checked
<1>4. CASE MarkSent(h)
  <2>1. at[h] \in Sending
    BY <1>4, Place DEF MarkSent
  <2>2. [at[h] EXCEPT !.step = "sending"].step = "sending"
    BY <2>1 DEF Sending
  <2>3. at'[h].step = "sending"
    BY <1>4, <2>2, Moves DEF MarkSent
  <2> QED BY <1>1, <1>4, <2>3, Moves DEF MarkSent, Silent, Checked
<1>5. CASE Finish(h)
  BY <1>1, <1>5, Moves DEF Finish, Silent, Checked, Idle
<1>6. ASSUME NEW r \in Recipient, NEW ok \in BOOLEAN, Send(h, r, ok)
      PROVE  Silent(h) /\ UNCHANGED users
  <2>1. at[h] \in Sending
    BY <1>6, Place DEF Send
  <2>2. \A step \in {"sending", "marking"} :
           [at[h] EXCEPT !.to = @ \ {r}, !.step = step, !.sent = r.user].step = step
    BY <2>1 DEF Sending
  <2>3. at'[h].step \in {"sending", "marking"}
    BY <1>6, <2>2, Moves DEF Send
  <2> QED BY <1>1, <1>6, <2>3, Moves DEF Send, Silent, Checked
<1>7. ASSUME NEW u \in Users, MarkAllRead(h, u)
      PROVE  Silent(h) /\ UNCHANGED users
  BY <1>1, <1>7, Moves DEF MarkAllRead, Silent, Checked
<1> QED BY <1>2, <1>3, <1>4, <1>5, <1>6, <1>7 DEF NotifyStep


\* Every step, by what it does to credentials, sessions and passwords.
LEMMA StepMoves ==
    ASSUME TypeOK, Next
    PROVE  /\ SessionsKept /\ TokensKept
           /\ \/ UNCHANGED <<spent, respent>> \/ \E h \in Handlers : ClaimToken(h)
              \/ \E h \in Handlers, s \in SessionIds, n \in 1..MaxRequests : Refresh(h, s, n)
           /\ \/ UNCHANGED <<users, at, sessions, excused, disturbed>>
              \/ \E h \in Handlers :
                    \/ Silent(h) \/ \E s \in SessionIds : Mint(h, s)
                    \/ DropSessions(h) \/ SetPassword(h) \/ ProfileChange(h)
                    \/ ResetPassword(h) \/ \E garbles \in BOOLEAN : ConfirmEmail(h, garbles)
                    \/ InsertUser(h) \/ FlagUser(h) \/ OverridePassword(h)
                    \/ Uninvite(h) \/ Expel(h) \/ Abandon(h)
                    \/ ApiInsert(h) \/ \E u \in Users, form \in Forms : ApiUpdate(h, u, form)
<1>1. ASSUME NEW h \in Handlers, LinkStep(h) /\ UNCHANGED <<accounts, outbox>>
      PROVE  SessionsKept /\ TokensKept /\ UNCHANGED <<spent, respent>> /\ Silent(h)
  BY <1>1, LinkStepMoves, SameKept DEF accounts, Quiet
<1>2. ASSUME NEW h \in Handlers, NotifyStep(h) /\ UNCHANGED <<accounts, links>>
      PROVE  SessionsKept /\ TokensKept /\ UNCHANGED <<spent, respent>> /\ Silent(h)
  BY <1>2, NotifyStepMoves, SameKept DEF accounts
<1>3. ASSUME NEW h \in Handlers, Abandon(h)
      PROVE  SessionsKept /\ TokensKept /\ UNCHANGED <<spent, respent>>
  BY <1>3, SameKept DEF Abandon
<1>4. ASSUME NEW t \in TokenIds, Expire(t)
      PROVE  /\ SessionsKept /\ TokensKept /\ UNCHANGED <<spent, respent>>
             /\ UNCHANGED <<users, at, sessions, excused, disturbed>>
  <2>1. TokensKept
    BY <1>4 DEF Expire, TokensKept, TypeOK
  <2> QED BY <1>4, <2>1, SameKept DEF Expire
<1> QED BY <1>1, <1>2, <1>3, <1>4, SessionStepMoves, AdminStepMoves DEF Next, Quiet

\* A token sets one password and a refresh token is exchanged once, for any number
\* of requests that carry it at the same time.
THEOREM CredentialsOnce == Spec => []SingleUse
<1>1. Init => SpentInv
  BY DEF Init, SpentInv
<1>2. TypeOK /\ TypeOK' /\ SpentInv /\ [Next]_vars => SpentInv'
  <2> SUFFICES ASSUME TypeOK, TypeOK', SpentInv, [Next]_vars
               PROVE  SpentInv'
    OBVIOUS
  <2>1. CASE Next
    BY <2>1, StepMoves, SpentKept, ClaimSpends, RefreshSpends
  <2>2. CASE UNCHANGED vars
    BY <2>2 DEF vars, accounts, SpentInv
  <2> QED BY <2>1, <2>2
<1>3. SpentInv => SingleUse
  BY DEF SpentInv, SingleUse
<1> QED BY <1>1, <1>2, <1>3, TypeCorrect, PTL DEF Spec

-----------------------------------------------------------------------------
(* Sessions follow the password. *)

\* A session whose password was replaced is excused, or its end is under way; what
\* a handler will write finds no other session alive.
SessionsInv ==
    /\ SessionsCurrent
    /\ \A h \in Handlers : Doing(h, "setting") =>
          LiveSessions(at[h].user) \subseteq excused \cup at[h].keep
    /\ \A h \in Handlers : Doing(h, "minting") => users[at[h].user].status # "absent"
    /\ \A s \in SessionIds : sessions[s] # NoSession => users[sessions[s].user].status # "absent"

LEMMA SessionUser ==
    ASSUME TypeOK, NEW s \in SessionIds, sessions[s] # NoSession
    PROVE  sessions[s] \in Session /\ sessions[s].user \in Users
BY DEF TypeOK, Session

\* What was live after a step that mints nothing was live before it.
LEMMA NothingRevived ==
    ASSUME TypeOK, SessionsKept, NoneMinted, NEW u, NEW s \in LiveSessions(u)'
    PROVE  s \in LiveSessions(u) /\ sessions'[s].proof = sessions[s].proof
BY DEF LiveSessions, MintedFor, SessionsKept, NoneMinted

\* Steps that end sessions or leave them alone, while passwords stay.
LEMMA SessionsFrame ==
    ASSUME TypeOK, SessionsInv, SessionsKept, NoneMinted, PasswordsKept, excused \subseteq excused',
           NEW h \in Handlers, Alone(h),
           (at[h].step # "setting" \/ LiveSessions(at[h].user) \subseteq excused \cup at[h].keep)',
           at'[h].step = "minting" => users[at'[h].user].status # "absent" /\ at'[h].user \in Users,
           \/ at[h].step \notin {"uninviting", "expelling"}
           \/ at'[h].step \in {"uninviting", "expelling"} /\ at'[h].user = at[h].user
           \/ \A u \in Users : u = at[h].user => LiveSessions(u)' \subseteq excused'
    PROVE  SessionsInv'
<1>1. SessionsCurrent'
  <2> SUFFICES ASSUME NEW u \in Users, NEW s \in (LiveSessions(u) \ excused)'
               PROVE  sessions'[s].proof = users'[u].password \/ Expelling(u)'
    BY DEF SessionsCurrent
  <2>1. s \in LiveSessions(u) \ excused /\ sessions'[s].proof = sessions[s].proof
    BY NothingRevived
  <2>2. sessions[s].proof = users[u].password \/ Expelling(u)
    BY <2>1 DEF SessionsInv, SessionsCurrent
  <2>3. CASE sessions[s].proof = users[u].password
    BY <2>1, <2>3 DEF PasswordsKept
  <2>4. ASSUME NEW g \in Handlers, at[g].step \in {"uninviting", "expelling"}, at[g].user = u
        PROVE  Expelling(u)'
    <3>1. CASE g # h
      BY <2>4, <3>1 DEF Alone, Expelling
    <3>2. CASE g = h
      <4>1. \/ LiveSessions(u)' \subseteq excused'
            \/ at'[h].step \in {"uninviting", "expelling"} /\ at'[h].user = u
        BY <2>4, <3>2
      <4> QED BY <4>1 DEF Expelling
    <3> QED BY <3>1, <3>2
  <2> QED BY <2>2, <2>3, <2>4 DEF Expelling
<1>2. ASSUME NEW g \in Handlers, Doing(g, "setting")'
      PROVE  (LiveSessions(at[g].user) \subseteq excused \cup at[g].keep)'
  <2>1. CASE g = h
    <3>1. at'[h].step = "setting"
      BY <1>2, <2>1 DEF Doing
    <3> QED BY <2>1, <3>1
  <2>2. CASE g # h
    <3>1. at'[g] = at[g] /\ LiveSessions(at[g].user) \subseteq excused \cup at[g].keep
      BY <1>2, <2>2 DEF Alone, Doing, SessionsInv
    <3>2. LiveSessions(at[g].user)' \subseteq LiveSessions(at[g].user)
      BY <3>1 DEF LiveSessions, MintedFor, SessionsKept, NoneMinted
    <3> QED BY <3>1, <3>2
  <2> QED BY <2>1, <2>2
<1>3. ASSUME NEW g \in Handlers, Doing(g, "minting")'
      PROVE  users'[at'[g].user].status # "absent"
  <2>1. CASE g = h
    BY <1>3, <2>1 DEF Doing, PasswordsKept
  <2>2. CASE g # h
    <3>1. at'[g] = at[g] /\ Doing(g, "minting")
      BY <1>3, <2>2 DEF Alone, Doing
    <3>2. at[g].user \in Users
      BY <3>1, Place DEF Doing, Minting
    <3> QED BY <3>1, <3>2 DEF SessionsInv, PasswordsKept
  <2> QED BY <2>1, <2>2
<1>4. ASSUME NEW s \in SessionIds, sessions'[s] # NoSession
      PROVE  users'[sessions'[s].user].status # "absent"
  <2>1. sessions[s] # NoSession /\ sessions'[s].user = sessions[s].user
    BY <1>4 DEF NoneMinted, SessionsKept
  <2> QED BY <2>1, SessionUser DEF SessionsInv, PasswordsKept
<1> QED BY <1>1, <1>2, <1>3, <1>4 DEF SessionsInv


LEMMA SilentSessions ==
    ASSUME TypeOK, SessionsInv, SessionsKept, NEW h \in Handlers, Silent(h), TypeOK'
    PROVE  SessionsInv'
<1>1. PasswordsKept
  BY DEF Silent, Checked, UsersKept, PasswordsKept
<1>2. at'[h].step = "minting" => at'[h].user \in Users
  <2>1. at'[h] \in Places
    BY DEF TypeOK
  <2>2. at'[h].step = "minting" => at'[h] \in Minting
    <3>1. \/ at'[h] = Idle
          \/ at'[h] \in Minting \/ at'[h] \in Issuing \/ at'[h] \in Claiming \/ at'[h] \in Dropping
          \/ at'[h] \in Resetting \/ at'[h] \in Returning \/ at'[h] \in Changed
          \/ at'[h] \in Confirming \/ at'[h] \in Creating \/ at'[h] \in Inserting
          \/ at'[h] \in Editing \/ at'[h] \in Counting \/ at'[h] \in Finding \/ at'[h] \in Removing \/ at'[h] \in LookingUp
          \/ at'[h] \in Linking \/ at'[h] \in Recording \/ at'[h] \in Sending
      BY <2>1 DEF Places
    <3> QED BY <3>1, PlaceSteps
  <2> QED BY <2>2 DEF Minting
<1> QED BY <1>1, <1>2, SessionsFrame DEF Silent, Checked

LEMMA MintSessions ==
    ASSUME TypeOK, SessionsInv, SessionsKept, NEW h \in Handlers, NEW s \in SessionIds, Mint(h, s)
    PROVE  SessionsInv'
<1> DEFINE u == at[h].user
<1>1. u \in Users /\ at[h].step = "minting"
  BY Place DEF Mint, Doing, Minting
<1>2. Alone(h) /\ at'[h] = Idle /\ UNCHANGED users
  BY Moves DEF Mint
<1>3. /\ sessions'[s] = [status |-> "live", user |-> u, hash |-> 1, proof |-> at[h].proof]
      /\ \A r \in SessionIds \ {s} : sessions'[r] = sessions[r]
  BY DEF Mint, TypeOK
<1>4. /\ excused \subseteq excused'
      /\ s \notin excused' => users[u].password = at[h].proof /\ ~Changing(u)
  BY DEF Mint
<1>5. \A v : LiveSessions(v)' \subseteq LiveSessions(v) \cup {s}
  BY <1>3 DEF LiveSessions, MintedFor
<1>6. SessionsCurrent'
  <2> SUFFICES ASSUME NEW v \in Users, NEW r \in (LiveSessions(v) \ excused)'
               PROVE  sessions'[r].proof = users'[v].password \/ Expelling(v)'
    BY DEF SessionsCurrent
  <2>1. CASE r = s
    <3>1. v = u
      BY <1>3, <2>1 DEF LiveSessions, MintedFor
    <3> QED BY <1>2, <1>3, <1>4, <2>1, <3>1
  <2>2. CASE r # s
    <3>1. r \in LiveSessions(v) \ excused /\ sessions'[r] = sessions[r]
      BY <1>3, <1>4, <1>5, <2>2 DEF LiveSessions, MintedFor
    <3>2. sessions[r].proof = users[v].password \/ Expelling(v)
      BY <3>1 DEF SessionsInv, SessionsCurrent
    <3>3. Expelling(v) => Expelling(v)'
      BY <1>1, <1>2 DEF Expelling, Alone
    <3> QED BY <1>2, <3>1, <3>2, <3>3
  <2> QED BY <2>1, <2>2
<1>7. ASSUME NEW g \in Handlers, Doing(g, "setting")'
      PROVE  (LiveSessions(at[g].user) \subseteq excused \cup at[g].keep)'
  <2>1. g # h /\ at'[g] = at[g] /\ Doing(g, "setting")
    BY <1>2, <1>7 DEF Doing, Idle, Alone
  <2>2. LiveSessions(at[g].user) \subseteq excused \cup at[g].keep
    BY <2>1 DEF SessionsInv
  <2>3. at[g].user = u => s \in excused'
    BY <1>4, <2>1 DEF Changing
  <2>4. at[g].user # u => LiveSessions(at[g].user)' \subseteq LiveSessions(at[g].user)
    BY <1>3, <1>5, <2>1 DEF LiveSessions, MintedFor
  <2> QED BY <1>4, <1>5, <2>1, <2>2, <2>3, <2>4
<1>8. ASSUME NEW g \in Handlers, Doing(g, "minting")'
      PROVE  users'[at'[g].user].status # "absent"
  <2>1. g # h /\ at'[g] = at[g] /\ Doing(g, "minting")
    BY <1>2, <1>8 DEF Doing, Idle, Alone
  <2> QED BY <1>2, <2>1 DEF SessionsInv
<1>9. ASSUME NEW r \in SessionIds, sessions'[r] # NoSession
      PROVE  users'[sessions'[r].user].status # "absent"
  BY <1>1, <1>2, <1>3, <1>9 DEF SessionsInv, Doing
<1> QED BY <1>6, <1>7, <1>8, <1>9 DEF SessionsInv

\* A password is written once its user's sessions are ended, excused or about to end.
LEMMA PasswordWritten ==
    ASSUME TypeOK, SessionsInv, UNCHANGED sessions, excused \subseteq excused',
           NEW h \in Handlers, Alone(h), NEW v \in Users,
           at[h].step \notin {"uninviting", "expelling"},
           at'[h].step \notin {"setting", "minting"},
           \A u \in Users \ {v} : users'[u] = users[u],
           users[v].status # "absent" => users'[v].status # "absent",
           \/ LiveSessions(v) \subseteq excused'
           \/ at'[h].step = "uninviting" /\ at'[h].user = v
    PROVE  SessionsInv'
<1>1. \A u : LiveSessions(u)' = LiveSessions(u)
  BY DEF LiveSessions, MintedFor
<1>2. \A u \in Users : Expelling(u) => Expelling(u)'
  BY DEF Expelling, Alone
<1>3. SessionsCurrent'
  <2> SUFFICES ASSUME NEW u \in Users, NEW s \in (LiveSessions(u) \ excused)'
               PROVE  sessions'[s].proof = users'[u].password \/ Expelling(u)'
    BY DEF SessionsCurrent
  <2>1. s \in LiveSessions(u) \ excused
    BY <1>1
  <2>2. CASE u = v
    BY <1>1, <2>2 DEF Expelling
  <2>3. CASE u # v
    BY <1>2, <2>1, <2>3 DEF SessionsInv, SessionsCurrent
  <2> QED BY <2>2, <2>3
<1>4. ASSUME NEW g \in Handlers, Doing(g, "setting")'
      PROVE  (LiveSessions(at[g].user) \subseteq excused \cup at[g].keep)'
  <2>1. at'[g] = at[g] /\ Doing(g, "setting")
    BY <1>4 DEF Doing, Alone
  <2>2. LiveSessions(at[g].user) \subseteq excused \cup at[g].keep
    BY <2>1 DEF SessionsInv
  <2>3. LiveSessions(at[g].user)' = LiveSessions(at[g].user)
    BY <2>1 DEF LiveSessions, MintedFor
  <2> QED BY <2>1, <2>2, <2>3
<1>5. ASSUME NEW g \in Handlers, Doing(g, "minting")'
      PROVE  users'[at'[g].user].status # "absent"
  <2>1. at'[g] = at[g] /\ Doing(g, "minting")
    BY <1>5 DEF Doing, Alone
  <2>2. at[g].user \in Users
    BY <2>1, Place DEF Doing, Minting
  <2> QED BY <2>1, <2>2 DEF SessionsInv
<1>6. ASSUME NEW s \in SessionIds, sessions'[s] # NoSession
      PROVE  users'[sessions'[s].user].status # "absent"
  <2>1. sessions[s] # NoSession /\ sessions[s].user \in Users
    BY <1>6, SessionUser
  <2> QED BY <2>1 DEF SessionsInv
<1> QED BY <1>3, <1>4, <1>5, <1>6 DEF SessionsInv


LEMMA WritersOfPasswords ==
    ASSUME TypeOK, SessionsInv, NEW h \in Handlers,
           \/ SetPassword(h) \/ ProfileChange(h) \/ ResetPassword(h) \/ InsertUser(h)
           \/ \E garbles \in BOOLEAN : ConfirmEmail(h, garbles)
           \/ OverridePassword(h)
           \/ ApiInsert(h) \/ \E u \in Users, form \in Forms : ApiUpdate(h, u, form)
    PROVE  SessionsInv'
<1> USE DEF Doing
<1> DEFINE v == at[h].user
<1>1. CASE SetPassword(h)
  <2>1. at[h] \in Dropping
    BY <1>1, Place DEF SetPassword, Resetting
  <2>2. v \in Users
    BY <2>1 DEF Dropping
  <2>3. LiveSessions(v) \subseteq excused \cup at[h].keep
    BY <1>1 DEF SetPassword, SessionsInv
  <2>4. \A u \in Users \ {v} : users'[u] = users[u]
    BY <1>1, <2>2 DEF SetPassword, TypeOK
  <2>5. users[v].status # "absent" => users'[v].status # "absent"
    BY <1>1, <2>2 DEF SetPassword, TypeOK, Row
  <2>6. Alone(h) /\ at'[h].step \in {"returning", "idle"}
    BY <1>1, Moves DEF SetPassword, Idle
  <2> QED BY <1>1, <2>2, <2>3, <2>4, <2>5, <2>6, PasswordWritten DEF SetPassword
<1>2. CASE ProfileChange(h)
  <2>1. v \in Users
    BY <1>2, Place DEF ProfileChange, Changed
  <2>2. \A u \in Users \ {v} : users'[u] = users[u]
    BY <1>2, <2>1 DEF ProfileChange, TypeOK
  <2>3. users[v].status # "absent" => users'[v].status # "absent"
    BY <1>2, <2>1 DEF ProfileChange, TypeOK, Row
  <2>4. Alone(h) /\ at'[h].step = "idle" /\ at[h].step = "changing"
    BY <1>2, Moves DEF ProfileChange, Idle
  <2>5. UNCHANGED sessions /\ excused \subseteq excused' /\ LiveSessions(v) \subseteq excused'
    BY <1>2 DEF ProfileChange
  <2> QED BY <2>1, <2>2, <2>3, <2>4, <2>5, PasswordWritten
<1>3. CASE ResetPassword(h)
  <2>1. at[h] \in Resetting
    BY <1>3, Place DEF ResetPassword, Dropping
  <2>2. v \in Users /\ at[h].keep = {}
    BY <2>1 DEF Resetting
  <2>3. LiveSessions(v) \subseteq excused
    BY <1>3, <2>2 DEF ResetPassword, SessionsInv
  <2>4. \A u \in Users \ {v} : users'[u] = users[u]
    BY <1>3, <2>2 DEF ResetPassword, TypeOK
  <2>5. users[v].status # "absent" => users'[v].status # "absent"
    BY <1>3, <2>2 DEF ResetPassword, TypeOK, Row
  <2>6. Alone(h) /\ at'[h].step = "idle" /\ at[h].step = "setting"
    BY <1>3, Moves DEF ResetPassword, Idle
  <2>7. UNCHANGED sessions /\ UNCHANGED excused
    BY <1>3 DEF ResetPassword
  <2> QED BY <2>2, <2>3, <2>4, <2>5, <2>6, <2>7, PasswordWritten
<1>4. CASE InsertUser(h)
  <2>1. at[h] \in Creating
    BY <1>4, Place DEF InsertUser
  <2>2. v \in Users
    BY <2>1 DEF Creating
  <2>3. LiveSessions(v) = {}
    BY <1>4 DEF InsertUser, SessionsInv, LiveSessions, MintedFor
  <2>4. \A u \in Users \ {v} : users'[u] = users[u]
    BY <1>4, <2>2 DEF InsertUser, TypeOK
  <2>5. at'[h].step = "flagging"
    <3>1. [at[h] EXCEPT !.step = "flagging"].step = "flagging"
      BY <2>1 DEF Creating
    <3> QED BY <1>4, <3>1, Moves DEF InsertUser
  <2>6. Alone(h) /\ users[v].status = "absent" /\ UNCHANGED <<sessions, excused>>
    BY <1>4, Moves DEF InsertUser, accounts
  <2> QED BY <1>4, <2>2, <2>3, <2>4, <2>5, <2>6, PasswordWritten DEF InsertUser
<1>5. ASSUME NEW garbles \in BOOLEAN, ConfirmEmail(h, garbles)
      PROVE  SessionsInv'
  <2>1. v \in Users
    BY <1>5, Place DEF ConfirmEmail, Confirming
  <2>2. \A u \in Users \ {v} : users'[u] = users[u]
    BY <1>5, <2>1 DEF ConfirmEmail, TypeOK
  <2>3. /\ users'[v].status = users[v].status
        /\ ~garbles => users'[v].password = users[v].password
    <3>1. \A admin, flag, password, chosenBy : \A row \in Row :
             LET new == [row EXCEPT !.admin = admin, !.active = TRUE, !.mustChange = flag,
                             !.password = IF garbles THEN password ELSE @,
                             !.chosenBy = IF garbles THEN chosenBy ELSE @]
             IN new.status = row.status /\ (~garbles => new.password = row.password)
      BY DEF Row
    <3>2. users'[v] = [users[v] EXCEPT !.admin = at[h].row.admin, !.active = TRUE,
                          !.mustChange = at[h].row.mustChange,
                          !.password = IF garbles THEN Garbled ELSE @,
                          !.chosenBy = IF garbles THEN "self" ELSE @]
      BY <1>5, <2>1 DEF ConfirmEmail, TypeOK
    <3>3. users[v] \in Row
      BY <2>1 DEF TypeOK
    <3> QED BY <3>1, <3>2, <3>3
  <2>4. Alone(h) /\ at'[h].step = "idle" /\ at[h].step = "confirming"
    <3>1. Then(h, Idle) /\ at[h].step = "confirming"
      BY <1>5 DEF ConfirmEmail
    <3> QED BY <3>1, Moves DEF Idle
  <2>5. excused \subseteq excused' /\ UNCHANGED sessions
    BY <1>5 DEF ConfirmEmail
  <2>6. CASE garbles
    <3>1. LiveSessions(v) \subseteq excused'
      BY <1>5, <2>6 DEF ConfirmEmail
    <3> QED BY <2>1, <2>2, <2>3, <2>4, <2>5, <3>1, PasswordWritten
  <2>7. CASE ~garbles
    <3>2. PasswordsKept
      BY <2>2, <2>3, <2>7 DEF PasswordsKept
    <3>3. SessionsKept /\ NoneMinted
      BY <2>5, SameKept
    <3> QED BY <2>4, <2>5, <3>2, <3>3, SessionsFrame
  <2> QED BY <2>6, <2>7
<1>6. CASE OverridePassword(h)
  <2>1. at[h] \in Editing
    BY <1>6, Place DEF OverridePassword
  <2>2. v \in Users
    BY <2>1 DEF Editing
  <2>3. \A u \in Users \ {v} : users'[u] = users[u]
    BY <1>6, <2>2 DEF OverridePassword, TypeOK
  <2>4. users[v].status # "absent" => users'[v].status # "absent"
    BY <1>6, <2>2 DEF OverridePassword, TypeOK, Row
  <2>5. at'[h].step = "uninviting" /\ at'[h].user = v
    <3>1. /\ [at[h] EXCEPT !.step = "uninviting"].step = "uninviting"
          /\ [at[h] EXCEPT !.step = "uninviting"].user = v
      BY <2>1 DEF Editing
    <3> QED BY <1>6, <3>1, Moves DEF OverridePassword
  <2>6. Alone(h) /\ UNCHANGED <<sessions, excused>>
    BY <1>6, Moves DEF OverridePassword, accounts
  <2> QED BY <1>6, <2>2, <2>3, <2>4, <2>5, <2>6, PasswordWritten DEF OverridePassword
<1>7. CASE ApiInsert(h)
  <2>1. v \in Users
    BY <1>7, Place DEF ApiInsert, Inserting
  <2>2. LiveSessions(v) = {}
    BY <1>7 DEF ApiInsert, SessionsInv, LiveSessions, MintedFor
  <2>3. \A u \in Users \ {v} : users'[u] = users[u]
    BY <1>7, <2>1 DEF ApiInsert, TypeOK
  <2>4. /\ Alone(h) /\ users[v].status = "absent" /\ UNCHANGED <<sessions, excused>>
        /\ at'[h].step = "idle" /\ at[h].step = "inserting"
    BY <1>7, Moves DEF ApiInsert, accounts, Idle
  <2> QED BY <2>1, <2>2, <2>3, <2>4, PasswordWritten
<1>8. ASSUME NEW u \in Users, NEW form \in Forms, ApiUpdate(h, u, form)
      PROVE  SessionsInv'
  <2>1. \A w \in Users \ {u} : users'[w] = users[w]
    BY <1>8 DEF ApiUpdate, TypeOK
  <2>2. /\ users'[u].status = users[u].status
        /\ form.password = None => users'[u].password = users[u].password
    <3>1. \A password, chosenBy : \A row \in Row :
             LET new == [row EXCEPT !.admin = form.admin, !.active = form.active,
                            !.password = password, !.chosenBy = chosenBy]
             IN new.status = row.status /\ new.password = password
      BY DEF Row
    <3>2. users'[u] = [users[u] EXCEPT !.admin = form.admin, !.active = form.active,
             !.password = IF form.password = None THEN users[u].password ELSE form.password,
             !.chosenBy = IF form.password = None THEN users[u].chosenBy ELSE "api"]
      BY <1>8 DEF ApiUpdate, TypeOK
    <3>3. users[u] \in Row
      BY DEF TypeOK
    <3> QED BY <3>1, <3>2, <3>3
  <2>3. /\ Alone(h) /\ at'[h] = at[h] /\ at[h].step = "idle"
        /\ UNCHANGED sessions /\ excused \subseteq excused'
        /\ form.password # None => LiveSessions(u) \subseteq excused'
    BY <1>8, Moves DEF ApiUpdate
  <2>4. CASE form.password = None
    <3>1. PasswordsKept
      BY <2>1, <2>2, <2>4 DEF PasswordsKept
    <3>2. SessionsKept /\ NoneMinted
      BY <2>3, SameKept
    <3> QED BY <2>3, <3>1, <3>2, SessionsFrame
  <2>5. CASE form.password # None
    BY <2>1, <2>2, <2>3, <2>5, PasswordWritten
  <2> QED BY <2>4, <2>5
<1> QED BY <1>1, <1>2, <1>3, <1>4, <1>5, <1>6, <1>7, <1>8

LEMMA EndersOfSessions ==
    ASSUME TypeOK, SessionsInv, SessionsKept, NEW h \in Handlers,
           DropSessions(h) \/ FlagUser(h) \/ Uninvite(h) \/ Expel(h) \/ Abandon(h)
    PROVE  SessionsInv'
<1> USE DEF Doing
<1>0. UNCHANGED users => PasswordsKept
  BY DEF PasswordsKept
<1>1. CASE DropSessions(h)
  <2>1. at[h] \in Dropping \cup Resetting
    BY <1>1, Place DEF DropSessions
  <2>2. /\ [at[h] EXCEPT !.step = "setting"].step = "setting"
        /\ [at[h] EXCEPT !.step = "setting"].user = at[h].user
        /\ [at[h] EXCEPT !.step = "setting"].keep = at[h].keep
    BY <2>1 DEF Dropping, Resetting
  <2>3. at'[h].step = "setting" /\ at'[h].user = at[h].user /\ at'[h].keep = at[h].keep /\ Alone(h)
    BY <1>1, <2>2, Moves DEF DropSessions
  <2>4. \A u, keep : EndSessions(u, keep) => LiveSessions(u)' \subseteq keep
    <3> SUFFICES ASSUME NEW u, NEW keep, EndSessions(u, keep), NEW s \in LiveSessions(u)', s \notin keep
                 PROVE  FALSE
      OBVIOUS
    <3>1. s \in SessionIds /\ sessions'[s] # NoSession /\ sessions'[s].user = u
          /\ sessions'[s].status = "live"
      BY DEF LiveSessions, MintedFor
    <3>2. s \notin LiveSessions(u)
      <4>1. s \in LiveSessions(u) => sessions[s] \in Session
        BY SessionUser DEF LiveSessions, MintedFor
      <4>2. s \in LiveSessions(u) => sessions'[s] = [sessions[s] EXCEPT !.status = "ended"]
        BY <3>1 DEF EndSessions
      <4> QED BY <3>1, <4>1, <4>2 DEF Session
    <3>3. sessions'[s] = sessions[s]
      BY <3>1, <3>2 DEF EndSessions
    <3> QED BY <3>1, <3>2, <3>3 DEF LiveSessions, MintedFor
  <2>5. (LiveSessions(at[h].user) \subseteq excused \cup at[h].keep)'
    BY <1>1, <2>3, <2>4 DEF DropSessions, LiveSessions, MintedFor
  <2>6. NoneMinted
    BY <1>1, EndKeeps DEF DropSessions
  <2> QED BY <1>0, <1>1, <2>3, <2>5, <2>6, SessionsFrame DEF DropSessions
<1>2. CASE FlagUser(h)
  <2>1. at[h].user \in Users
    BY <1>2, Place DEF FlagUser, Creating
  <2>2. PasswordsKept
    BY <1>2, <2>1 DEF FlagUser, PasswordsKept, TypeOK, Row
  <2>3. Alone(h) /\ at'[h].step \in {"idle", "invalidating"}
    BY <1>2, Moves DEF FlagUser, Idle
  <2>4. NoneMinted /\ UNCHANGED excused
    BY <1>2, SameKept DEF FlagUser, accounts
  <2> QED BY <1>2, <2>2, <2>3, <2>4, SessionsFrame DEF FlagUser
<1>3. CASE Uninvite(h)
  <2>1. at[h] \in Editing
    BY <1>3, Place DEF Uninvite
  <2>2. /\ [at[h] EXCEPT !.step = "expelling"].step = "expelling"
        /\ [at[h] EXCEPT !.step = "expelling"].user = at[h].user
    BY <2>1 DEF Editing
  <2>3. at'[h].step = "expelling" /\ at'[h].user = at[h].user /\ Alone(h)
    BY <1>3, <2>2, Moves DEF Uninvite
  <2>4. NoneMinted /\ PasswordsKept /\ UNCHANGED excused
    BY <1>0, <1>3, SameKept DEF Uninvite
  <2> QED BY <2>3, <2>4, SessionsFrame
<1>4. CASE Expel(h)
  <2>1. NoneMinted
    BY <1>4, EndKeeps DEF Expel
  <2>2. \A u \in Users : u = at[h].user => LiveSessions(u)' \subseteq excused'
    <3> SUFFICES ASSUME NEW s \in SessionIds, NEW u \in Users, u = at[h].user,
                        sessions'[s] # NoSession, sessions'[s].user = u,
                        sessions'[s].status = "live"
                 PROVE  FALSE
      BY DEF LiveSessions, MintedFor
    <3>1. sessions[s] # NoSession /\ sessions[s].user = u /\ sessions[s].status = "live"
      BY <2>1 DEF NoneMinted, SessionsKept
    <3>2. s \in LiveSessions(u) /\ sessions[s] \in Session
      BY <3>1, SessionUser DEF LiveSessions, MintedFor
    <3>3. sessions'[s] = [sessions[s] EXCEPT !.status = "ended"]
      BY <1>4, <3>2 DEF Expel, EndSessions
    <3> QED BY <3>2, <3>3 DEF Session
  <2>3. Alone(h) /\ at'[h] = Idle /\ PasswordsKept /\ UNCHANGED excused
    BY <1>0, <1>4, Moves DEF Expel
  <2> QED BY <2>1, <2>2, <2>3, SessionsFrame DEF Idle
<1>5. CASE Abandon(h)
  <2>1. Alone(h) /\ at'[h] = Idle /\ PasswordsKept /\ NoneMinted /\ excused \subseteq excused'
    BY <1>0, <1>5, Moves, SameKept DEF Abandon
  <2>2. at[h].step \in {"uninviting", "expelling"} =>
          \A u \in Users : u = at[h].user => LiveSessions(u)' \subseteq excused'
    BY <1>5 DEF Abandon, LiveSessions, MintedFor
  <2> QED BY <2>1, <2>2, SessionsFrame DEF Idle
<1> QED BY <1>1, <1>2, <1>3, <1>4, <1>5

\* After any interleaving of sign-ins, password changes, resets, edits and failures a
\* live session stands on the valid password, unless the code is known to spare it.
THEOREM SessionsFollowPasswords == Spec => []SessionsCurrent
<1>1. Init => SessionsInv
  BY DEF Init, SessionsInv, SessionsCurrent, LiveSessions, MintedFor, Doing, Idle
<1>2. TypeOK /\ TypeOK' /\ SessionsInv /\ [Next]_vars => SessionsInv'
  <2> SUFFICES ASSUME TypeOK, TypeOK', SessionsInv, [Next]_vars
               PROVE  SessionsInv'
    OBVIOUS
  <2>1. UNCHANGED <<users, at, sessions, excused>> => SessionsInv'
    BY DEF SessionsInv, SessionsCurrent, LiveSessions, MintedFor, Expelling, Doing
  <2>2. CASE Next
    BY <2>1, <2>2, StepMoves, SilentSessions, MintSessions, WritersOfPasswords, EndersOfSessions
  <2>3. CASE UNCHANGED vars
    BY <2>1, <2>3 DEF vars, accounts
  <2> QED BY <2>2, <2>3
<1>3. SessionsInv => SessionsCurrent
  BY DEF SessionsInv
<1> QED BY <1>1, <1>2, <1>3, TypeCorrect, PTL DEF Spec

-----------------------------------------------------------------------------
(* Initial passwords. *)

\* The creation that will flag u's password has one to flag.
FlagsInitial(h, u) == Doing(h, "flagging") /\ at[h].user = u /\ at[h].password # None

InitialInv == \A u \in Users :
    users[u].chosenBy = "admin" =>
        users[u].mustChange \/ (\E h \in Handlers : FlagsInitial(h, u)) \/ u \in disturbed

\* A write to one user, which leaves that user's flag right.
LEMMA FlagWritten ==
    ASSUME InitialInv, disturbed \subseteq disturbed', NEW h \in Handlers, Alone(h),
           at[h].step # "flagging", NEW v \in Users,
           \A u \in Users \ {v} : users'[u] = users[u],
           users'[v].chosenBy = "admin" =>
               \/ users'[v].mustChange \/ FlagsInitial(h, v)' \/ v \in disturbed'
               \/ users[v].chosenBy = "admin" /\ (users[v].mustChange => users'[v].mustChange)
    PROVE  InitialInv'
BY DEF InitialInv, FlagsInitial, Doing, Alone

LEMMA InitialPasswordKept ==
    ASSUME TypeOK, TypeOK', InitialInv, NEW h \in Handlers,
           \/ SetPassword(h) \/ ProfileChange(h) \/ ResetPassword(h)
           \/ \E garbles \in BOOLEAN : ConfirmEmail(h, garbles)
           \/ InsertUser(h) \/ FlagUser(h) \/ OverridePassword(h)
           \/ ApiInsert(h) \/ \E u \in Users, form \in Forms : ApiUpdate(h, u, form)
    PROVE  InitialInv'
<1> USE DEF Doing
<1> DEFINE v == at[h].user
<1>1. CASE SetPassword(h)
  <2>1. v \in Users
    BY <1>1, Place DEF SetPassword, Dropping, Resetting
  <2>2. \A u \in Users \ {v} : users'[u] = users[u]
    BY <1>1, <2>1 DEF SetPassword, TypeOK
  <2>3. users'[v].chosenBy = "self"
    BY <1>1, <2>1 DEF SetPassword, TypeOK, Row
  <2>4. Alone(h) /\ at[h].step = "setting" /\ UNCHANGED disturbed
    BY <1>1, Moves DEF SetPassword
  <2> QED BY <2>1, <2>2, <2>3, <2>4, FlagWritten
<1>2. CASE ProfileChange(h)
  <2>1. v \in Users
    BY <1>2, Place DEF ProfileChange, Changed
  <2>2. \A u \in Users \ {v} : users'[u] = users[u]
    BY <1>2, <2>1 DEF ProfileChange, TypeOK
  <2>3. users'[v].chosenBy = "self"
    BY <1>2, <2>1 DEF ProfileChange, TypeOK, Row
  <2>4. Alone(h) /\ at[h].step = "changing" /\ UNCHANGED disturbed
    BY <1>2, Moves DEF ProfileChange
  <2> QED BY <2>1, <2>2, <2>3, <2>4, FlagWritten
<1>3. CASE ResetPassword(h)
  <2>1. at[h] \in Resetting
    BY <1>3, Place DEF ResetPassword, Dropping
  <2>2. v \in Users
    BY <2>1 DEF Resetting
  <2>3. \A u \in Users \ {v} : users'[u] = users[u]
    BY <1>3, <2>2 DEF ResetPassword, TypeOK
  <2>4. users'[v].chosenBy = "self"
    <3>1. users'[v] = [users[v] EXCEPT !.password = at[h].password, !.chosenBy = "self",
             !.admin = at[h].row.admin, !.active = at[h].row.active,
             !.mustChange = at[h].row.mustChange]
      BY <1>3, <2>2 DEF ResetPassword, TypeOK
    <3>2. \A password, admin, active, flag : \A row \in Row :
             [row EXCEPT !.password = password, !.chosenBy = "self", !.admin = admin,
                         !.active = active, !.mustChange = flag].chosenBy = "self"
      BY DEF Row
    <3> QED BY <2>2, <3>1, <3>2 DEF TypeOK
  <2>5. Alone(h) /\ at[h].step = "setting" /\ disturbed \subseteq disturbed'
    BY <1>3, Moves DEF ResetPassword
  <2> QED BY <2>2, <2>3, <2>4, <2>5, FlagWritten
<1>4. ASSUME NEW garbles \in BOOLEAN, ConfirmEmail(h, garbles)
      PROVE  InitialInv'
  <2>1. at[h] \in Confirming
    BY <1>4, Place DEF ConfirmEmail
  <2>2. v \in Users /\ at[h].row \in Row
    BY <2>1 DEF Confirming
  <2>3. \A u \in Users \ {v} : users'[u] = users[u]
    BY <1>4, <2>2 DEF ConfirmEmail, TypeOK
  <2>4. /\ garbles => users'[v].chosenBy = "self"
        /\ ~garbles => users'[v].chosenBy = users[v].chosenBy
        /\ users'[v].mustChange = at[h].row.mustChange
    <3>1. users'[v] = [users[v] EXCEPT !.admin = at[h].row.admin, !.active = TRUE,
                          !.mustChange = at[h].row.mustChange,
                          !.password = IF garbles THEN Garbled ELSE @,
                          !.chosenBy = IF garbles THEN "self" ELSE @]
      BY <1>4, <2>2 DEF ConfirmEmail, TypeOK
    <3>2. \A admin, flag, password : \A row \in Row :
             LET new == [row EXCEPT !.admin = admin, !.active = TRUE, !.mustChange = flag,
                             !.password = IF garbles THEN password ELSE @,
                             !.chosenBy = IF garbles THEN "self" ELSE @]
             IN /\ garbles => new.chosenBy = "self"
                /\ ~garbles => new.chosenBy = row.chosenBy
                /\ new.mustChange = flag
      BY DEF Row
    <3>3. users[v] \in Row
      BY <2>2 DEF TypeOK
    <3> QED BY <3>1, <3>2, <3>3
  <2>5. v \in disturbed' \/ at[h].row.mustChange = users[v].mustChange
    BY <1>4 DEF ConfirmEmail, Kept
  <2>6. Alone(h) /\ at[h].step = "confirming" /\ disturbed \subseteq disturbed'
    <3>1. Then(h, Idle) /\ at[h].step = "confirming" /\ disturbed \subseteq disturbed'
      BY <1>4 DEF ConfirmEmail
    <3> QED BY <3>1, Moves
  <2> QED BY <2>2, <2>3, <2>4, <2>5, <2>6, FlagWritten
<1>5. CASE InsertUser(h)
  <2>1. at[h] \in Creating
    BY <1>5, Place DEF InsertUser
  <2>2. v \in Users
    BY <2>1 DEF Creating
  <2>3. \A u \in Users \ {v} : users'[u] = users[u]
    BY <1>5, <2>2 DEF InsertUser, TypeOK
  <2>4. /\ [at[h] EXCEPT !.step = "flagging"].step = "flagging"
        /\ [at[h] EXCEPT !.step = "flagging"].user = v
        /\ [at[h] EXCEPT !.step = "flagging"].password = at[h].password
    BY <2>1 DEF Creating
  <2>5. at'[h].step = "flagging" /\ at'[h].user = v /\ at'[h].password = at[h].password
    BY <1>5, <2>4, Moves DEF InsertUser
  <2>6. users'[v].chosenBy = "admin" => at[h].password # None
    BY <1>5, <2>2 DEF InsertUser, NewUser, TypeOK
  <2>7. Alone(h) /\ at[h].step = "creating" /\ UNCHANGED disturbed
    BY <1>5, Moves DEF InsertUser, accounts
  <2> QED BY <2>2, <2>3, <2>5, <2>6, <2>7, FlagWritten DEF FlagsInitial
<1>6. CASE FlagUser(h)
  <2>1. v \in Users
    BY <1>6, Place DEF FlagUser, Creating
  <2>2. \A u \in Users \ {v} : users'[u] = users[u]
    BY <1>6, <2>1 DEF FlagUser, TypeOK
  <2>3. /\ \A row \in Row : LET new == [row EXCEPT !.mustChange = row.mustChange \/ TRUE]
                            IN new.chosenBy = row.chosenBy /\ new.mustChange
        /\ \A row \in Row : LET new == [row EXCEPT !.mustChange = row.mustChange \/ FALSE]
                            IN new.chosenBy = row.chosenBy /\ new.mustChange = row.mustChange
    BY DEF Row
  <2>4. users'[v] = [users[v] EXCEPT !.mustChange = users[v].mustChange \/ at[h].password # None]
    BY <1>6, <2>1 DEF FlagUser, TypeOK
  <2>5. users[v] \in Row
    BY <2>1 DEF TypeOK
  <2>6. /\ users'[v].chosenBy = users[v].chosenBy
        /\ users[v].mustChange \/ at[h].password # None => users'[v].mustChange
    <3>1. CASE at[h].password # None
      <4>1. users'[v] = [users[v] EXCEPT !.mustChange = users[v].mustChange \/ TRUE]
        BY <2>4, <3>1
      <4> QED BY <2>3, <2>5, <3>1, <4>1
    <3>2. CASE at[h].password = None
      <4>1. users'[v] = [users[v] EXCEPT !.mustChange = users[v].mustChange \/ FALSE]
        BY <2>4, <3>2
      <4> QED BY <2>3, <2>5, <3>2, <4>1
    <3> QED BY <3>1, <3>2
  <2>7. Alone(h) /\ UNCHANGED disturbed
    BY <1>6, Moves DEF FlagUser, accounts
  <2>8. \A g \in Handlers, u \in Users :
           FlagsInitial(g, u) => (u = v /\ at[h].password # None) \/ FlagsInitial(g, u)'
    BY <2>7 DEF FlagsInitial, Alone
  <2> QED BY <2>1, <2>2, <2>6, <2>7, <2>8 DEF InitialInv
<1>7. CASE OverridePassword(h)
  <2>1. v \in Users
    BY <1>7, Place DEF OverridePassword, Editing
  <2>2. \A u \in Users \ {v} : users'[u] = users[u]
    BY <1>7, <2>1 DEF OverridePassword, TypeOK
  <2>3. users'[v].mustChange
    BY <1>7, <2>1 DEF OverridePassword, TypeOK, Row
  <2>4. Alone(h) /\ at[h].step = "overriding" /\ UNCHANGED disturbed
    BY <1>7, Moves DEF OverridePassword, accounts
  <2> QED BY <2>1, <2>2, <2>3, <2>4, FlagWritten
<1>8. CASE ApiInsert(h)
  <2>1. v \in Users
    BY <1>8, Place DEF ApiInsert, Inserting
  <2>2. \A u \in Users \ {v} : users'[u] = users[u]
    BY <1>8, <2>1 DEF ApiInsert, TypeOK
  <2>3. users'[v].chosenBy # "admin"
    BY <1>8, <2>1 DEF ApiInsert, NewUser, TypeOK
  <2>4. Alone(h) /\ at[h].step = "inserting" /\ UNCHANGED disturbed
    BY <1>8, Moves DEF ApiInsert, accounts
  <2> QED BY <2>1, <2>2, <2>3, <2>4, FlagWritten
<1>9. ASSUME NEW u \in Users, NEW form \in Forms, ApiUpdate(h, u, form)
      PROVE  InitialInv'
  <2>1. \A w \in Users \ {u} : users'[w] = users[w]
    BY <1>9 DEF ApiUpdate, TypeOK
  <2>2. users'[u].chosenBy \in {users[u].chosenBy, "api"} /\ users'[u].mustChange = users[u].mustChange
    <3>1. \A password, chosenBy : \A row \in Row :
             LET new == [row EXCEPT !.admin = form.admin, !.active = form.active,
                            !.password = password, !.chosenBy = chosenBy]
             IN new.chosenBy = chosenBy /\ new.mustChange = row.mustChange
      BY DEF Row
    <3>2. users'[u] = [users[u] EXCEPT !.admin = form.admin, !.active = form.active,
             !.password = IF form.password = None THEN users[u].password ELSE form.password,
             !.chosenBy = IF form.password = None THEN users[u].chosenBy ELSE "api"]
      BY <1>9 DEF ApiUpdate, TypeOK
    <3>3. users[u] \in Row
      BY DEF TypeOK
    <3> QED BY <3>1, <3>2, <3>3
  <2>3. Alone(h) /\ at[h].step = "idle" /\ UNCHANGED disturbed
    BY <1>9, Moves DEF ApiUpdate
  <2> QED BY <2>1, <2>2, <2>3, FlagWritten
<1> QED BY <1>1, <1>2, <1>3, <1>4, <1>5, <1>6, <1>7, <1>8, <1>9

\* Whatever overlaps, a password an admin chose has to be changed, unless a creation
\* was cut short or a stale write-back took the flag away.
THEOREM InitialPasswordsChange == Spec => []InitialPasswordMustChange
<1>1. Init => InitialInv
  BY AccountsAssumption DEF Init, InitialInv
<1>2. TypeOK /\ TypeOK' /\ InitialInv /\ [Next]_vars => InitialInv'
  <2> SUFFICES ASSUME TypeOK, TypeOK', InitialInv, [Next]_vars
               PROVE  InitialInv'
    OBVIOUS
  <2>1. UNCHANGED <<users, at, disturbed>> => InitialInv'
    BY DEF InitialInv, FlagsInitial, Doing
  <2>2. ASSUME NEW h \in Handlers, Alone(h), UsersKept, disturbed \subseteq disturbed',
               \A u \in Users : FlagsInitial(h, u) => u \in disturbed'
        PROVE  InitialInv'
    <3>1. \A u \in Users, g \in Handlers :
             FlagsInitial(g, u) => u \in disturbed' \/ FlagsInitial(g, u)'
      BY <2>2 DEF FlagsInitial, Doing, Alone
    <3> QED BY <2>2, <3>1 DEF InitialInv, UsersKept
  <2>3. UNCHANGED users => UsersKept
    BY DEF UsersKept
  <2>4. ASSUME NEW h \in Handlers,
               \/ Silent(h) \/ \E s \in SessionIds : Mint(h, s)
               \/ DropSessions(h) \/ Uninvite(h) \/ Expel(h)
        PROVE  InitialInv'
    <3>1. Alone(h) /\ at[h].step # "flagging" /\ UsersKept /\ UNCHANGED disturbed
      BY <2>3, <2>4, Moves DEF Silent, Checked, Mint, DropSessions, Uninvite, Expel, Doing
    <3> QED BY <2>2, <3>1 DEF FlagsInitial, Doing
  <2>5. ASSUME NEW h \in Handlers, Abandon(h)
        PROVE  InitialInv'
    <3>1. Alone(h) /\ UsersKept /\ disturbed \subseteq disturbed'
      BY <2>3, <2>5, Moves DEF Abandon
    <3>2. \A u \in Users : FlagsInitial(h, u) => u \in disturbed'
      BY <2>5 DEF Abandon, FlagsInitial
    <3> QED BY <2>2, <3>1, <3>2
  <2>6. CASE Next
    BY <2>1, <2>4, <2>5, <2>6, StepMoves, InitialPasswordKept
  <2>7. CASE UNCHANGED vars
    BY <2>1, <2>7 DEF vars, accounts
  <2> QED BY <2>6, <2>7
<1>3. InitialInv => InitialPasswordMustChange
  BY DEF InitialInv, FlagsInitial, InitialPasswordMustChange, Flagging
<1> QED BY <1>1, <1>2, <1>3, TypeCorrect, PTL DEF Spec

-----------------------------------------------------------------------------
(* A link code links once. *)

\* No profile gets a code.
CodesKept == \A u \in Users : users'[u].code \in {users[u].code, None}

LEMMA SessionStepCodes ==
    ASSUME TypeOK, NEW h \in Handlers, SessionStep(h)
    PROVE  CodesKept
<1>1. ASSUME NEW u \in Users, NEW password, NEW chosenBy, NEW flag,
             users' = [users EXCEPT ![u].password = password, ![u].chosenBy = chosenBy,
                                    ![u].mustChange = flag]
      PROVE  CodesKept
  BY <1>1 DEF CodesKept, TypeOK, Row
<1>2. CASE SetPassword(h)
  <2>1. at[h].user \in Users
    BY <1>2, Place DEF SetPassword, Doing, Dropping, Resetting
  <2> QED BY <1>1, <1>2, <2>1 DEF SetPassword, TypeOK
<1>3. CASE ProfileChange(h)
  <2>1. at[h].user \in Users
    BY <1>3, Place DEF ProfileChange, Doing, Changed
  <2> QED BY <1>1, <1>3, <2>1 DEF ProfileChange
<1>4. SetPassword(h) \/ ProfileChange(h) \/ UNCHANGED users
  BY DEF SessionStep, SignIn, ForcedChange, ReadForProfile, Mint, Logout, Refresh, ApiChange,
         AskForToken, RevokeInvite, IssueToken, CheckToken, Invalidate, ClaimToken, DropSessions,
         Return
<1>5. UNCHANGED users => CodesKept
  BY DEF CodesKept
<1> QED BY <1>2, <1>3, <1>4, <1>5

LEMMA AdminStepCodes ==
    ASSUME TypeOK, NEW h \in Handlers, AdminStep(h)
    PROVE  CodesKept
<1> DEFINE v == at[h].user
<1>1. (\A u \in Users \ {v} : users'[u] = users[u]) /\ users'[v].code \in {users[v].code, None}
        => CodesKept
  BY DEF CodesKept
<1>2. UNCHANGED users => CodesKept
  BY DEF CodesKept
<1>3. CASE ResetPassword(h)
  <2>1. v \in Users
    BY <1>3, Place DEF ResetPassword, Doing, Dropping, Resetting
  <2>2. (\A u \in Users \ {v} : users'[u] = users[u]) /\ users'[v].code = users[v].code
    BY <1>3, <2>1 DEF ResetPassword, TypeOK, Row
  <2> QED BY <1>1, <2>2
<1>4. ASSUME NEW garbles \in BOOLEAN, ConfirmEmail(h, garbles)
      PROVE  CodesKept
  <2>1. v \in Users
    BY <1>4, Place DEF ConfirmEmail, Doing, Confirming
  <2>2. \A u \in Users \ {v} : users'[u] = users[u]
    BY <1>4, <2>1 DEF ConfirmEmail, TypeOK
  <2>3. users'[v].code = users[v].code
    <3>1. \A admin, flag, password, chosenBy : \A row \in Row :
             [row EXCEPT !.admin = admin, !.active = TRUE, !.mustChange = flag,
                         !.password = IF garbles THEN password ELSE @,
                         !.chosenBy = IF garbles THEN chosenBy ELSE @].code = row.code
      BY DEF Row
    <3>2. users'[v] = [users[v] EXCEPT !.admin = at[h].row.admin, !.active = TRUE,
                          !.mustChange = at[h].row.mustChange,
                          !.password = IF garbles THEN Garbled ELSE @,
                          !.chosenBy = IF garbles THEN "self" ELSE @]
      BY <1>4, <2>1 DEF ConfirmEmail, TypeOK
    <3>3. users[v] \in Row
      BY <2>1 DEF TypeOK
    <3> QED BY <3>1, <3>2, <3>3
  <2> QED BY <1>1, <2>2, <2>3
<1>5. CASE InsertUser(h)
  <2>1. v \in Users
    BY <1>5, Place DEF InsertUser, Doing, Creating
  <2> QED BY <1>5, <2>1 DEF InsertUser, NewUser, CodesKept, TypeOK
<1>6. CASE FlagUser(h)
  <2>1. v \in Users
    BY <1>6, Place DEF FlagUser, Doing, Creating
  <2> QED BY <1>6, <2>1 DEF FlagUser, CodesKept, TypeOK, Row
<1>7. CASE WriteUser(h) \/ WriteFields(h) \/ OverridePassword(h)
  <2>1. v \in Users
    BY <1>7, Place DEF WriteUser, WriteFields, OverridePassword, Doing, Editing
  <2>2. CASE WriteUser(h)
    <3>1. \A a, b : \A row \in Row : [row EXCEPT !.admin = a, !.active = b].code = row.code
      BY DEF Row
    <3>2. users' = [users EXCEPT ![v] = [@ EXCEPT !.admin = at[h].form.admin,
                                                  !.active = at[h].form.active]]
      BY <2>1, <2>2 DEF WriteUser, TypeOK
    <3> QED BY <1>1, <2>1, <3>1, <3>2 DEF TypeOK
  <2>3. CASE WriteFields(h)
    BY <2>1, <2>3 DEF WriteFields, CodesKept, TypeOK, Row
  <2>4. CASE OverridePassword(h)
    <3>1. (\A u \in Users \ {v} : users'[u] = users[u]) /\ users'[v].code = users[v].code
      BY <2>1, <2>4 DEF OverridePassword, TypeOK, Row
    <3> QED BY <1>1, <3>1
  <2> QED BY <1>7, <2>2, <2>3, <2>4
<1>8. CASE RemoveUser(h)
  <2>1. v \in Users
    BY <1>8, Place DEF RemoveUser, Doing, Removing
  <2> QED BY <1>8, <2>1 DEF RemoveUser, CodesKept, TypeOK, Row
<1>9. ASSUME NEW u \in Users, ApiRemove(h, u)
      PROVE  CodesKept
  BY <1>9 DEF ApiRemove, CodesKept, TypeOK, Row
<1>10. CASE ApiInsert(h)
  <2>1. v \in Users
    BY <1>10, Place DEF ApiInsert, Doing, Inserting
  <2> QED BY <1>10, <2>1 DEF ApiInsert, NewUser, CodesKept, TypeOK
<1>11. ASSUME NEW u \in Users, NEW form \in Forms, ApiUpdate(h, u, form)
      PROVE  CodesKept
  <2>1. \A password, chosenBy : \A row \in Row :
           [row EXCEPT !.admin = form.admin, !.active = form.active,
                       !.password = password, !.chosenBy = chosenBy].code = row.code
    BY DEF Row
  <2>2. users' = [users EXCEPT ![u] = [@ EXCEPT !.admin = form.admin, !.active = form.active,
             !.password = IF form.password = None THEN users[u].password ELSE form.password,
             !.chosenBy = IF form.password = None THEN users[u].chosenBy ELSE "api"]]
    BY <1>11 DEF ApiUpdate, TypeOK
  <2>3. users[u] \in Row /\ users \in [Users -> Row]
    BY DEF TypeOK
  <2> QED BY <2>1, <2>2, <2>3 DEF CodesKept
<1>12. \/ ResetPassword(h) \/ \E garbles \in BOOLEAN : ConfirmEmail(h, garbles)
       \/ InsertUser(h) \/ FlagUser(h) \/ WriteUser(h) \/ WriteFields(h) \/ OverridePassword(h)
       \/ RemoveUser(h) \/ \E u \in Users : ApiRemove(h, u)
       \/ ApiInsert(h) \/ \E u \in Users, form \in Forms : ApiUpdate(h, u, form)
       \/ UNCHANGED users
  BY DEF AdminStep, ReadForApiCreate, ReadForReset, ReadForConfirm, ReadForCreate, ReadForEdit, EndForDeactivation,
         Uninvite, Expel, ReadForDelete, CountAdmins, FindTarget, EndForDelete
<1> QED BY <1>2, <1>3, <1>4, <1>5, <1>6, <1>7, <1>8, <1>9, <1>10, <1>11, <1>12

\* A code was generated, is on one profile, and on none once it has linked a chat.
CodesInv ==
    /\ \A u \in Users : users[u].code # None => users[u].code <= codes
    /\ \A u, v \in Users : users[u].code = users[v].code => u = v \/ users[u].code = None
    /\ \A i \in Codes \ displaced : linked[i] # {} =>
          /\ i <= codes /\ Cardinality(linked[i]) = 1
          /\ \A u \in Users : users[u].code # i

LEMMA CodesInvKept ==
    ASSUME TypeOK, CodesInv, CodesKept, UNCHANGED <<codes, linked, displaced>>
    PROVE  CodesInv'
BY UsersAssumption DEF CodesInv, CodesKept, Codes

LEMMA IssueKeepsCodes ==
    ASSUME TypeOK, CodesInv, NEW h \in Handlers, NEW u \in Users, IssueCode(h, u)
    PROVE  CodesInv'
<1>1. codes' = codes + 1 /\ codes \in Nat /\ UNCHANGED <<linked, displaced>>
  BY UsersAssumption DEF IssueCode, TypeOK
<1>2. \A v \in Users : users'[v].code = IF v = u THEN codes + 1 ELSE users[v].code
  BY DEF IssueCode, TypeOK, Row
<1>3. \A v \in Users : users[v].code \in Codes \cup {None}
  BY DEF TypeOK, Row
<1>4. codes + 1 # None /\ \A i \in Codes : i \in Nat
  BY <1>1, UsersAssumption DEF IssueCode, Codes
<1> QED BY <1>1, <1>2, <1>3, <1>4 DEF CodesInv

LEMMA LinkKeepsCodes ==
    ASSUME TypeOK, CodesInv, NEW h \in Handlers, LinkChat(h)
    PROVE  CodesInv'
<1> DEFINE u == at[h].user
           n == at[h].code
<1>1. u \in Users /\ n \in Codes \cup {None}
  BY Place DEF LinkChat, Doing, Linking
<1>2. \A v \in Users : users'[v].code = IF v = u THEN None ELSE users[v].code
  BY <1>1 DEF LinkChat, TypeOK, Row
<1>3. /\ UNCHANGED codes
      /\ \A i \in Codes : linked'[i] = IF i = n THEN linked[i] \cup {at[h].chat} ELSE linked[i]
      /\ n # None /\ users[u].code # n => n \in displaced'
      /\ displaced \subseteq displaced'
  BY DEF LinkChat
<1>4. ASSUME NEW i \in Codes \ displaced', linked'[i] # {}
      PROVE  /\ i <= codes /\ Cardinality(linked'[i]) = 1
             /\ \A v \in Users : users'[v].code # i
  <2>1. i # None
    BY UsersAssumption DEF Codes
  <2>2. CASE i = n
    <3>1. users[u].code = i
      BY <1>3, <1>4, <2>1, <2>2
    <3>2. linked'[i] = {at[h].chat}
      BY <1>1, <1>3, <1>4, <2>2, <3>1 DEF CodesInv
    <3>3. \A v \in Users : v # u => users[v].code # i
      BY <1>1, <2>1, <3>1 DEF CodesInv
    <3>4. Cardinality(linked'[i]) = 1
      BY <3>2, FS_Singleton
    <3>5. \A w \in Users : users'[w].code # i
      BY <1>2, <2>1, <3>3
    <3>6. i <= codes
      BY <1>1, <2>1, <3>1 DEF CodesInv
    <3> QED BY <3>4, <3>5, <3>6
  <2>3. CASE i # n
    BY <1>2, <1>3, <1>4, <2>1, <2>3 DEF CodesInv
  <2> QED BY <2>2, <2>3
<1> QED BY <1>2, <1>3, <1>4 DEF CodesInv

\* A one-time code links one chat, whoever else looks it up at the same time, unless it had
\* left the profile between the look-up and the write.
THEOREM CodesLinkOnce == Spec => []CodeLinksOnce
<1>1. Init => CodesInv
  BY AccountsAssumption DEF Init, CodesInv
<1>2. TypeOK /\ CodesInv /\ [Next]_vars => CodesInv'
  <2> SUFFICES ASSUME TypeOK, CodesInv, [Next]_vars
               PROVE  CodesInv'
    OBVIOUS
  <2>1. UNCHANGED <<users, links>> => CodesInv'
    BY DEF CodesInv, links
  <2>2. ASSUME NEW h \in Handlers, SessionStep(h) \/ AdminStep(h), UNCHANGED links
        PROVE  CodesInv'
    BY <2>2, SessionStepCodes, AdminStepCodes, CodesInvKept DEF links
  <2>3. ASSUME NEW h \in Handlers, LinkStep(h)
        PROVE  CodesInv'
    <3>1. ASSUME NEW u \in Users, Unlink(h, u)
          PROVE  CodesInv'
      <4>1. CodesKept
        BY <3>1 DEF Unlink, CodesKept, TypeOK, Row
      <4> QED BY <3>1, <4>1, CodesInvKept DEF Unlink, links
    <3>2. ASSUME NEW m \in Messages, TakeUpdate(h, m)
          PROVE  CodesInv'
      BY <3>2 DEF TakeUpdate, CodesInv
    <3>3. ASSUME NEW u \in Users, FindCode(h, u) \/ \E p \in Passwords, c \in Chats : Credentials(h, u, p, c)
          PROVE  CodesInv'
      BY <2>1, <3>3 DEF FindCode, Credentials
    <3>4. ASSUME CheckTaken(h)
          PROVE  CodesInv'
      BY <2>1, <3>4 DEF CheckTaken
    <3> QED BY <2>3, <3>1, <3>2, <3>3, <3>4, IssueKeepsCodes, LinkKeepsCodes DEF LinkStep
  <2>4. ASSUME NEW h \in Handlers, NotifyStep(h), UNCHANGED <<accounts, links>>
        PROVE  CodesInv'
    BY <2>1, <2>4, NotifyStepMoves
  <2>5. ASSUME NEW h \in Handlers, Abandon(h), UNCHANGED links
        PROVE  CodesInv'
    BY <2>1, <2>5 DEF Abandon
  <2>6. ASSUME NEW t \in TokenIds, Expire(t), UNCHANGED links
        PROVE  CodesInv'
    BY <2>1, <2>6 DEF Expire
  <2>7. CASE UNCHANGED vars
    BY <2>1, <2>7 DEF vars
  <2> QED BY <2>2, <2>3, <2>4, <2>5, <2>6, <2>7 DEF Next
<1>3. CodesInv => CodeLinksOnce
  <2> SUFFICES ASSUME CodesInv, NEW i \in Codes \ displaced
               PROVE  Cardinality(linked[i]) <= 1
    BY DEF CodeLinksOnce
  <2>1. CASE linked[i] = {}
    BY <2>1, FS_EmptySet
  <2>2. CASE linked[i] # {}
    BY <2>2 DEF CodesInv
  <2> QED BY <2>1, <2>2
<1> QED BY <1>1, <1>2, <1>3, TypeCorrect, PTL DEF Spec

-----------------------------------------------------------------------------
(* Deleting admins. *)

\* The other steps of a request that writes leave no deletion behind.
LEMMA WritersChecked ==
    ASSUME TypeOK, NEW h \in Handlers,
           \/ \E s \in SessionIds : Mint(h, s)
           \/ DropSessions(h) \/ SetPassword(h) \/ ProfileChange(h)
           \/ ResetPassword(h) \/ \E garbles \in BOOLEAN : ConfirmEmail(h, garbles)
           \/ InsertUser(h) \/ FlagUser(h) \/ OverridePassword(h)
           \/ Uninvite(h) \/ Expel(h) \/ Abandon(h)
           \/ ApiInsert(h) \/ \E u \in Users, form \in Forms : ApiUpdate(h, u, form)
    PROVE  /\ Alone(h)
           /\ at'[h].step \notin {"ending", "removing"} \cup Couriers
           /\ at[h].step # "removing" \/ UNCHANGED users
<1> USE DEF Doing
<1>1. ASSUME \/ \E s \in SessionIds : Mint(h, s)
             \/ ProfileChange(h) \/ ResetPassword(h)
             \/ \E garbles \in BOOLEAN : ConfirmEmail(h, garbles)
             \/ Expel(h) \/ Abandon(h) \/ ApiInsert(h)
      PROVE  Then(h, Idle) /\ (at[h].step # "removing" \/ UNCHANGED users)
  BY <1>1 DEF Mint, ProfileChange, ResetPassword, ConfirmEmail, Expel, Abandon, ApiInsert
<1>2. CASE DropSessions(h)
  <2>1. [at[h] EXCEPT !.step = "setting"].step = "setting"
    BY <1>2, Place DEF DropSessions, Dropping, Resetting
  <2> QED BY <1>2, <2>1, Moves DEF Couriers, DropSessions
<1>3. CASE SetPassword(h)
  BY <1>3, Moves DEF Couriers, SetPassword, Idle
<1>4. CASE InsertUser(h)
  <2>1. [at[h] EXCEPT !.step = "flagging"].step = "flagging"
    BY <1>4, Place DEF InsertUser, Creating
  <2> QED BY <1>4, <2>1, Moves DEF Couriers, InsertUser
<1>5. CASE FlagUser(h)
  BY <1>5, Moves DEF Couriers, FlagUser, Idle
<1>6. CASE OverridePassword(h)
  <2>1. [at[h] EXCEPT !.step = "uninviting"].step = "uninviting"
    BY <1>6, Place DEF OverridePassword, Editing
  <2> QED BY <1>6, <2>1, Moves DEF Couriers, OverridePassword
<1>7. CASE Uninvite(h)
  <2>1. [at[h] EXCEPT !.step = "expelling"].step = "expelling"
    BY <1>7, Place DEF Uninvite, Editing
  <2> QED BY <1>7, <2>1, Moves DEF Couriers, Uninvite
<1>8. ASSUME NEW u \in Users, NEW form \in Forms, ApiUpdate(h, u, form)
      PROVE  Alone(h) /\ at'[h].step = "idle" /\ at[h].step = "idle"
  BY <1>8, Moves DEF ApiUpdate
<1> QED BY <1>1, <1>2, <1>3, <1>4, <1>5, <1>6, <1>7, <1>8, Moves DEF Couriers, Idle

\* A deletion on the admin screen leaves an active admin when what it counted and read is
\* still so as it writes, whatever the other requests do meanwhile.
THEOREM DeletionsKeepAdmin == Spec => DeleteKeepsAdmin
<1> DEFINE AllChecked == \A h \in Handlers : Checked(h)
<1>1. Init => AllChecked
  BY DEF Init, Checked, Idle
<1>2. TypeOK /\ AllChecked /\ [Next]_vars => AllChecked'
  <2> SUFFICES ASSUME TypeOK, AllChecked, [Next]_vars, NEW g \in Handlers
               PROVE  Checked(g)'
    OBVIOUS
  <2>1. UNCHANGED at => Checked(g)'
    BY DEF Checked
  <2>2. \A h \in Handlers : Alone(h) /\ h # g => Checked(g)'
    BY DEF Alone, Checked
  <2>3. \A h \in Handlers : Silent(h) => Checked(g)'
    BY <2>2 DEF Silent
  <2>4. CASE Next
    BY <2>1, <2>2, <2>3, <2>4, StepMoves, WritersChecked DEF Checked
  <2> QED BY <2>1, <2>4 DEF vars
<1>3. TypeOK /\ AllChecked /\ Next =>
        \A h \in Handlers : Removes(h) /\ CountStands(h) /\ ActiveAdmins # {} => ActiveAdmins' # {}
  <2> SUFFICES ASSUME TypeOK, AllChecked, Next, NEW h \in Handlers, Removes(h),
                      CountStands(h), ActiveAdmins # {}
               PROVE  ActiveAdmins' # {}
    OBVIOUS
  <2>1. \A g \in Handlers : Alone(g) => g = h
    BY DEF Alone, Removes, Doing, Idle
  <2>2. RemoveUser(h)
    BY <2>1, StepMoves, WritersChecked DEF Silent, Removes, Doing
  <2>3. ASSUME NEW v \in ActiveAdmins, v # at[h].user
        PROVE  ActiveAdmins' # {}
    <3>1. v \in Users
      BY DEF ActiveAdmins
    <3>2. users'[v] = users[v]
      BY <2>2, <2>3, <3>1 DEF RemoveUser, TypeOK
    <3> QED BY <3>1, <3>2 DEF ActiveAdmins, Admitted, Live
  <2>4. CASE at[h].wasAdmin
    <3>1. at[h].others # {}
      BY <2>4 DEF Checked, Removes, Doing
    <3> QED BY <2>3, <3>1 DEF CountStands
  <2>5. CASE ~at[h].wasAdmin
    <3>1. at[h].user \notin ActiveAdmins
      BY <2>5 DEF CountStands, IsAdmin, ActiveAdmins, Admitted
    <3> QED BY <2>3, <3>1
  <2> QED BY <2>4, <2>5
<1>4. Spec => []AllChecked
  BY <1>1, <1>2, TypeCorrect, PTL DEF Spec
<1>5. TypeOK /\ AllChecked /\ [Next]_vars =>
        [\A h \in Handlers :
           Removes(h) /\ CountStands(h) /\ ActiveAdmins # {} => ActiveAdmins' # {}]_vars
  BY <1>3
<1> QED BY <1>4, <1>5, TypeCorrect, PTL DEF Spec, DeleteKeepsAdmin

-----------------------------------------------------------------------------
(* No message goes out without its row. *)

Telling(h) == at[h].step \in {"sending", "marking"}

\* Handlers that have a message about an event still to send to a user.
Pending(p) == {h \in Handlers : Telling(h) /\ at[h].event = p[2] /\ p[1] \in Names(at[h].to)}

\* A row stands for every message that was delivered or is still to be sent, no handler
\* sends a user two, and what is being marked was delivered.
OutboxInv ==
    /\ \A h \in Handlers : at[h].step \in Couriers =>
          \A r, s \in at[h].to : r.user = s.user => r = s
    /\ \A h \in Handlers : at[h].step = "marking" =>
          at[h].sent \in Users /\ delivered[<<at[h].sent, at[h].event>>] > 0
    /\ \A p \in Pairs : /\ IsFiniteSet(Pending(p))
                        /\ delivered[p] + Cardinality(Pending(p)) <= rows[p]
                        /\ marked[p] > 0 => delivered[p] > 0

\* What the step of one handler does to the messages still to be sent.
LEMMA PendingMoves ==
    ASSUME NEW h \in Handlers, Alone(h), NEW p, IsFiniteSet(Pending(p))
    PROVE  /\ IsFiniteSet(Pending(p))' /\ Cardinality(Pending(p)') \in Nat
           /\ Cardinality(Pending(p)) \in Nat
           /\ Cardinality(Pending(p)') <= Cardinality(Pending(p)) + 1
           /\ (h \in Pending(p)' => h \in Pending(p)) => Cardinality(Pending(p)') <= Cardinality(Pending(p))
           /\ h \in Pending(p) /\ h \notin Pending(p)' =>
                 Cardinality(Pending(p)') + 1 = Cardinality(Pending(p))
<1> DEFINE now == Pending(p)
           then == Pending(p)'
<1>1. \A g \in Handlers \ {h} : g \in then <=> g \in now
  BY DEF Alone, Pending, Telling
<1>2. then \subseteq now \cup {h} /\ now \subseteq Handlers /\ then \subseteq Handlers
  BY <1>1 DEF Pending
<1>3. /\ IsFiniteSet(now \cup {h})
      /\ Cardinality(now \cup {h}) = IF h \in now THEN Cardinality(now) ELSE Cardinality(now) + 1
  BY FS_AddElement
<1>4. /\ IsFiniteSet(now \ {h})
      /\ Cardinality(now \ {h}) = IF h \in now THEN Cardinality(now) - 1 ELSE Cardinality(now)
  BY FS_RemoveElement
<1>5. IsFiniteSet(then) /\ Cardinality(then) <= Cardinality(now \cup {h})
  BY <1>2, <1>3, FS_Subset
<1>6. Cardinality(now) \in Nat /\ Cardinality(then) \in Nat
  BY <1>5, FS_CardinalityType
<1>7. (h \in then => h \in now) => Cardinality(then) <= Cardinality(now)
  <2>1. (h \in then => h \in now) => then \subseteq now
    BY <1>2
  <2> QED BY <2>1, FS_Subset
<1>8. h \in now /\ h \notin then => then = now \ {h}
  BY <1>1, <1>2
<1> HIDE DEF now, then
<1>9. Cardinality(then) <= Cardinality(now) + 1
  BY <1>3, <1>5, <1>6
<1>10. h \in now /\ h \notin then => Cardinality(then) + 1 = Cardinality(now)
  BY <1>4, <1>6, <1>8
<1> QED BY <1>5, <1>6, <1>7, <1>9, <1>10 DEF now, then

\* Whoever sends nothing leaves the invariant alone.
LEMMA QuietOutbox ==
    ASSUME TypeOK, OutboxInv, NEW h \in Handlers, Alone(h), at'[h].step \notin Couriers,
           UNCHANGED outbox
    PROVE  OutboxInv'
<1>1. \A g \in Handlers : at'[g].step \in Couriers => at'[g] = at[g]
  BY DEF Alone
<1>2. UNCHANGED <<rows, marked, delivered>>
  BY DEF outbox
<1>3. ASSUME NEW p \in Pairs
      PROVE  IsFiniteSet(Pending(p))' /\ delivered'[p] + Cardinality(Pending(p)') <= rows'[p]
  <2>1. h \notin Pending(p)'
    BY DEF Pending, Telling, Couriers
  <2>2. IsFiniteSet(Pending(p)) /\ delivered[p] + Cardinality(Pending(p)) <= rows[p]
    BY DEF OutboxInv
  <2>3. /\ IsFiniteSet(Pending(p))' /\ Cardinality(Pending(p)') \in Nat
        /\ Cardinality(Pending(p)) \in Nat /\ Cardinality(Pending(p)') <= Cardinality(Pending(p))
    BY <2>1, <2>2, PendingMoves
  <2>4. delivered[p] \in Nat /\ rows[p] \in Nat
    BY DEF TypeOK
  <2> QED BY <1>2, <2>2, <2>3, <2>4
<1>4. \A g \in Handlers : at'[g].step \in Couriers => \A r, s \in at'[g].to : r.user = s.user => r = s
  BY <1>1 DEF OutboxInv
<1>5. \A g \in Handlers : at'[g].step = "marking" =>
         at'[g].sent \in Users /\ delivered'[<<at'[g].sent, at'[g].event>>] > 0
  BY <1>1, <1>2 DEF OutboxInv, Couriers
<1>6. \A p \in Pairs : marked'[p] > 0 => delivered'[p] > 0
  BY <1>2 DEF OutboxInv
<1> QED BY <1>3, <1>4, <1>5, <1>6 DEF OutboxInv

\* Of a step that sends: what it does to one handler, to the messages it has left and
\* to the three columns.
LEMMA StepOutbox ==
    ASSUME TypeOK, TypeOK', OutboxInv, NEW h \in Handlers, Alone(h),
           at'[h].step \in Couriers =>
              \A r, s \in at'[h].to : r.user = s.user => r = s,
           at'[h].step = "marking" =>
              at'[h].sent \in Users /\ delivered'[<<at'[h].sent, at'[h].event>>] > 0,
           \A p \in Pairs :
              /\ delivered'[p] >= delivered[p]
              /\ marked'[p] > 0 => delivered'[p] > 0
              /\ \/ delivered'[p] = delivered[p] /\ rows'[p] = rows[p] + 1
                 \/ /\ delivered'[p] = delivered[p] /\ rows'[p] = rows[p]
                    /\ h \in Pending(p)' => h \in Pending(p)
                 \/ /\ delivered'[p] = delivered[p] + 1 /\ rows'[p] = rows[p]
                    /\ h \in Pending(p) /\ h \notin Pending(p)'
    PROVE  OutboxInv'
<1>1. ASSUME NEW p \in Pairs
      PROVE  IsFiniteSet(Pending(p))' /\ delivered'[p] + Cardinality(Pending(p)') <= rows'[p]
  <2>1. IsFiniteSet(Pending(p)) /\ delivered[p] + Cardinality(Pending(p)) <= rows[p]
    BY DEF OutboxInv
  <2>2. delivered[p] \in Nat /\ rows[p] \in Nat
    BY DEF TypeOK
  <2> DEFINE now == Cardinality(Pending(p))
             then == Cardinality(Pending(p)')
  <2>3. /\ IsFiniteSet(Pending(p))' /\ then \in Nat /\ now \in Nat /\ then <= now + 1
        /\ (h \in Pending(p)' => h \in Pending(p)) => then <= now
        /\ h \in Pending(p) /\ h \notin Pending(p)' => then + 1 = now
    BY <2>1, PendingMoves
  <2>4. delivered[p] + now <= rows[p]
    BY <2>1
  <2>5. \/ delivered'[p] = delivered[p] /\ rows'[p] = rows[p] + 1
        \/ delivered'[p] = delivered[p] /\ rows'[p] = rows[p] /\ then <= now
        \/ delivered'[p] = delivered[p] + 1 /\ rows'[p] = rows[p] /\ then + 1 = now
    BY <2>3
  <2> HIDE DEF now, then
  <2>6. delivered'[p] + then <= rows'[p]
    BY <2>2, <2>3, <2>4, <2>5
  <2> QED BY <2>3, <2>6 DEF then
<1>2. \A g \in Handlers \ {h} : at'[g] = at[g]
  BY DEF Alone
<1>3. ASSUME NEW g \in Handlers, at'[g].step = "marking"
      PROVE  at'[g].sent \in Users /\ delivered'[<<at'[g].sent, at'[g].event>>] > 0
  <2>1. CASE g # h
    <3>1. at[g].step = "marking" /\ at'[g] = at[g]
      BY <1>2, <1>3, <2>1
    <3>2. at[g].sent \in Users /\ delivered[<<at[g].sent, at[g].event>>] > 0
      BY <3>1 DEF OutboxInv
    <3>3. <<at[g].sent, at[g].event>> \in Pairs
      BY <3>1, <3>2, Place DEF Sending, Pairs
    <3> QED BY <3>1, <3>2, <3>3 DEF TypeOK
  <2>2. CASE g = h
    BY <1>3, <2>2
  <2> QED BY <2>1, <2>2
<1>4. \A g \in Handlers : at'[g].step \in Couriers => \A r, s \in at'[g].to : r.user = s.user => r = s
  BY <1>2 DEF OutboxInv
<1> QED BY <1>1, <1>3, <1>4 DEF OutboxInv

LEMMA NotifyStepOutbox ==
    ASSUME TypeOK, TypeOK', OutboxInv, NEW h \in Handlers, NotifyStep(h)
    PROVE  OutboxInv'
<1> USE DEF Doing
<1>1. \A p \in Pairs : /\ delivered[p] \in Nat /\ rows[p] \in Nat
                       /\ delivered[p] >= delivered[p]
                       /\ marked[p] > 0 => delivered[p] > 0
  BY DEF TypeOK, OutboxInv
<1>2. ASSUME NEW e \in Events, NEW named \in SUBSET Users, Notify(h, e, named)
      PROVE  OutboxInv'
  <2> DEFINE to == {[user |-> u, chat |-> users[u].telegram] : u \in Recipients(e, named)}
  <2>1. Alone(h) /\ at'[h] = [step |-> "recording", event |-> e, to |-> to]
    BY <1>2, Moves DEF Notify
  <2>2. \A r, s \in to : r.user = s.user => r = s
    OBVIOUS
  <2> HIDE DEF to
  <2>3. at'[h].step = "recording" /\ at'[h].to = to
    BY <2>1
  <2>4. \A p : h \notin Pending(p)'
    BY <2>3 DEF Pending, Telling
  <2>5. UNCHANGED <<rows, marked, delivered>>
    BY <1>2 DEF Notify, outbox
  <2> QED BY <1>1, <2>1, <2>2, <2>3, <2>4, <2>5, StepOutbox
<1>3. CASE Record(h)
  <2> DEFINE kept == {r \in at[h].to : r.chat # None}
  <2>1. at[h] \in Recording /\ Alone(h)
    BY <1>3, Place, Moves DEF Record
  <2>2. at'[h] = [step |-> "sending", event |-> at[h].event, sent |-> None, to |-> kept]
    BY <1>3, Moves DEF Record
  <2>3. \A r, s \in at[h].to : r.user = s.user => r = s
    BY <1>3 DEF Record, OutboxInv, Couriers
  <2>4. at'[h].step = "sending" /\ at'[h].event = at[h].event /\ at'[h].to = kept
    BY <2>2
  <2>5. UNCHANGED <<marked, delivered>>
    BY <1>3 DEF Record
  <2>6. \A p \in Pairs : rows'[p] = IF p[1] \in Names(at[h].to) /\ p[2] = at[h].event
                                     THEN rows[p] + 1 ELSE rows[p]
    BY <1>3 DEF Record
  <2>7. \A p \in Pairs : h \in Pending(p)' => p[1] \in Names(at[h].to) /\ p[2] = at[h].event
    BY <2>4 DEF Pending, Telling, Names
  <2>8. \A r, s \in at'[h].to : r.user = s.user => r = s
    BY <2>3, <2>4
  <2>9. \A p \in Pairs :
          \/ delivered'[p] = delivered[p] /\ rows'[p] = rows[p] + 1
          \/ delivered'[p] = delivered[p] /\ rows'[p] = rows[p] /\ h \notin Pending(p)'
    BY <2>5, <2>6, <2>7
  <2> QED BY <1>1, <2>1, <2>4, <2>5, <2>8, <2>9, StepOutbox
<1>4. CASE MarkSent(h)
  <2>1. at[h] \in Sending /\ Alone(h) /\ at[h].step = "marking"
    BY <1>4, Place, Moves DEF MarkSent
  <2>2. at'[h] = [at[h] EXCEPT !.step = "sending"]
    BY <1>4, Moves DEF MarkSent
  <2>3. at'[h].step = "sending" /\ at'[h].event = at[h].event /\ at'[h].to = at[h].to
    BY <2>1, <2>2 DEF Sending
  <2>4. at[h].sent \in Users /\ delivered[<<at[h].sent, at[h].event>>] > 0
    BY <2>1 DEF OutboxInv
  <2>5. UNCHANGED <<rows, delivered>>
    BY <1>4 DEF MarkSent
  <2>6. \A p \in Pairs : marked'[p] > 0 => delivered[p] > 0
    BY <1>1, <1>4, <2>4 DEF MarkSent, TypeOK
  <2>7. \A p \in Pairs : h \in Pending(p)' => h \in Pending(p)
    BY <2>1, <2>3 DEF Pending, Telling
  <2>8. \A r, s \in at'[h].to : r.user = s.user => r = s
    BY <2>1, <2>3 DEF OutboxInv, Couriers
  <2> QED BY <1>1, <2>1, <2>3, <2>5, <2>6, <2>7, <2>8, StepOutbox
<1>5. CASE Finish(h)
  <2>1. Alone(h) /\ at'[h].step = "idle" /\ UNCHANGED outbox
    BY <1>5, Moves DEF Finish, Idle
  <2> QED BY <2>1, QuietOutbox DEF Couriers
<1>6. ASSUME NEW r \in Recipient, NEW ok \in BOOLEAN, Send(h, r, ok)
      PROVE  OutboxInv'
  <2> DEFINE q == <<r.user, at[h].event>>
  <2>1. at[h] \in Sending /\ Alone(h) /\ at[h].step = "sending" /\ r \in at[h].to
    BY <1>6, Place, Moves DEF Send
  <2>2. r.user \in Users /\ q \in Pairs
    BY <2>1 DEF Sending, Recipient, Pairs
  <2>3. /\ at'[h].step = IF ok THEN "marking" ELSE "sending"
        /\ at'[h].event = at[h].event /\ at'[h].to = at[h].to \ {r} /\ at'[h].sent = r.user
    <3>1. at'[h] = [at[h] EXCEPT !.to = @ \ {r}, !.step = IF ok THEN "marking" ELSE "sending",
                                 !.sent = r.user]
      BY <1>6, Moves DEF Send
    <3> QED BY <2>1, <3>1 DEF Sending
  <2>4. UNCHANGED <<rows, marked>>
    BY <1>6 DEF Send
  <2>5. \A s, t \in at[h].to : s.user = t.user => s = t
    BY <2>1 DEF OutboxInv, Couriers
  <2>6. \A s, t \in at'[h].to : s.user = t.user => s = t
    BY <2>3, <2>5
  <2>7. \A p \in Pairs : h \in Pending(p)' => h \in Pending(p)
    BY <2>1, <2>3 DEF Pending, Telling, Names
  <2>8. ASSUME NEW p, p = q
        PROVE  h \in Pending(p) /\ h \notin Pending(p)'
    <3>1. r.user \in Names(at[h].to) /\ r.user \notin Names(at'[h].to)
      BY <2>1, <2>3, <2>5 DEF Names
    <3>2. p[1] = r.user /\ p[2] = at[h].event
      BY <2>8
    <3> QED BY <2>1, <3>1, <3>2 DEF Pending, Telling
  <2>9. CASE ok
    <3>1. \A p \in Pairs : delivered'[p] = IF p = q THEN delivered[p] + 1 ELSE delivered[p]
      BY <1>6, <2>2, <2>9 DEF Send, TypeOK
    <3>2. at'[h].sent \in Users /\ delivered'[<<at'[h].sent, at'[h].event>>] > 0
      BY <1>1, <2>2, <2>3, <3>1
    <3>3. \A p \in Pairs :
             /\ delivered'[p] >= delivered[p] /\ (marked'[p] > 0 => delivered'[p] > 0)
             /\ \/ delivered'[p] = delivered[p] /\ rows'[p] = rows[p]
                   /\ (h \in Pending(p)' => h \in Pending(p))
                \/ delivered'[p] = delivered[p] + 1 /\ rows'[p] = rows[p]
                   /\ h \in Pending(p) /\ h \notin Pending(p)'
      <4> SUFFICES ASSUME NEW p \in Pairs
                   PROVE  /\ delivered'[p] >= delivered[p] /\ (marked'[p] > 0 => delivered'[p] > 0)
                          /\ \/ delivered'[p] = delivered[p] /\ rows'[p] = rows[p]
                                /\ (h \in Pending(p)' => h \in Pending(p))
                             \/ delivered'[p] = delivered[p] + 1 /\ rows'[p] = rows[p]
                                /\ h \in Pending(p) /\ h \notin Pending(p)'
        OBVIOUS
      <4>1. rows'[p] = rows[p] /\ marked'[p] = marked[p]
        BY <2>4
      <4>2. CASE p = q
        <5>1. delivered'[p] = delivered[p] + 1
          BY <3>1, <4>2
        <5>2. h \in Pending(p) /\ h \notin Pending(p)'
          BY <2>8, <4>2
        <5> QED BY <1>1, <4>1, <5>1, <5>2
      <4>3. CASE p # q
        <5>1. delivered'[p] = delivered[p]
          BY <3>1, <4>3
        <5> QED BY <1>1, <2>7, <4>1, <5>1
      <4> QED BY <4>2, <4>3
    <3> QED BY <2>1, <2>6, <3>2, <3>3, StepOutbox
  <2>10. CASE ~ok
    <3>1. UNCHANGED delivered /\ at'[h].step = "sending"
      BY <1>6, <2>3, <2>10 DEF Send
    <3> QED BY <1>1, <2>1, <2>4, <2>6, <2>7, <3>1, StepOutbox
  <2> QED BY <2>9, <2>10
<1>7. ASSUME NEW u \in Users, MarkAllRead(h, u)
      PROVE  OutboxInv'
  <2>1. Alone(h) /\ at'[h] = at[h] /\ at[h].step = "idle"
    BY <1>7, Moves DEF MarkAllRead
  <2>2. \A p : h \notin Pending(p)'
    BY <2>1 DEF Pending, Telling
  <2>3. UNCHANGED <<rows, marked, delivered>>
    BY <1>7 DEF MarkAllRead
  <2> QED BY <1>1, <2>1, <2>2, <2>3, StepOutbox DEF Couriers
<1> QED BY <1>2, <1>3, <1>4, <1>5, <1>6, <1>7 DEF NotifyStep

\* In-app rows first, for any number of notifications under way to the same user and about
\* the same event: none is sent without its row, and none marked that did not go out.
THEOREM MessagesHaveRows == Spec => []RowsBeforeMessages
<1>1. Init => OutboxInv
  <2> SUFFICES ASSUME Init PROVE OutboxInv
    OBVIOUS
  <2>1. \A h \in Handlers : at[h].step = "idle"
    BY DEF Init, Idle
  <2>2. \A p : Pending(p) = {}
    BY <2>1 DEF Pending, Telling
  <2>3. \A p \in Pairs : rows[p] = 0 /\ marked[p] = 0 /\ delivered[p] = 0
    BY DEF Init
  <2> QED BY <2>1, <2>2, <2>3, FS_EmptySet DEF OutboxInv, Couriers
<1>2. TypeOK /\ TypeOK' /\ OutboxInv /\ [Next]_vars => OutboxInv'
  <2> SUFFICES ASSUME TypeOK, TypeOK', OutboxInv, [Next]_vars
               PROVE  OutboxInv'
    OBVIOUS
  <2>1. UNCHANGED <<at, outbox>> => OutboxInv'
    BY DEF OutboxInv, Pending, Telling, outbox
  <2>2. ASSUME NEW h \in Handlers, UNCHANGED outbox,
               SessionStep(h) \/ AdminStep(h) \/ (LinkStep(h) /\ UNCHANGED accounts) \/ Abandon(h)
        PROVE  OutboxInv'
    <3>1. Alone(h) /\ at'[h].step \notin Couriers
      BY <2>2, SessionStepMoves, AdminStepMoves, LinkStepMoves, WritersChecked DEF Quiet, Silent
    <3> QED BY <2>2, <3>1, QuietOutbox
  <2>3. ASSUME NEW t \in TokenIds, Expire(t), UNCHANGED outbox
        PROVE  OutboxInv'
    BY <2>1, <2>3 DEF Expire
  <2>4. CASE UNCHANGED vars
    BY <2>1, <2>4 DEF vars
  <2> QED BY <2>2, <2>3, <2>4, NotifyStepOutbox DEF Next
<1>3. TypeOK /\ OutboxInv => RowsBeforeMessages
  <2> SUFFICES ASSUME TypeOK, OutboxInv, NEW p \in Pairs
               PROVE  delivered[p] <= rows[p] /\ (marked[p] > 0 => delivered[p] > 0)
    BY DEF RowsBeforeMessages
  <2>1. Cardinality(Pending(p)) \in Nat /\ delivered[p] + Cardinality(Pending(p)) <= rows[p]
    BY FS_CardinalityType DEF OutboxInv
  <2>2. delivered[p] \in Nat /\ rows[p] \in Nat
    BY DEF TypeOK
  <2> DEFINE left == Cardinality(Pending(p))
  <2>3. left \in Nat /\ delivered[p] + left <= rows[p]
    BY <2>1
  <2> HIDE DEF left
  <2>4. delivered[p] <= rows[p]
    BY <2>2, <2>3
  <2> QED BY <2>4 DEF OutboxInv
<1> QED BY <1>1, <1>2, <1>3, TypeCorrect, PTL DEF Spec

=============================================================================
