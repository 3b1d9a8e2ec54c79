------------------------ MODULE StockRequestsProofs ------------------------
(* Stock requests over the ledger, for any number of handlers and documents. *)
EXTENDS StockRequests, StockLedgerProofs

\* A handler inside a request is at one of the three steps, for one request.
LEMMA WhereItStands ==
  ASSUME TypeOK, NEW h \in Handlers
  PROVE  /\ at[h] # Idle => at[h].step \in Steps /\ at[h].request \in Requests
         /\ at[h] = Idle => at[h].step = "idle"
         /\ \A s \in Steps : Doing(h, s) <=> at[h].step = s
BY DEF TypeOK, Doing, Steps, Idle

-----------------------------------------------------------------------------
(* Types, and every step moves stock the way the ledger allows or not at all. *)

LEMMA InitType == Init => TypeOK
BY LedgerInitInv DEF Init, TypeOK, LedgerInv, Statuses, Idle

\* Where a ledger step of this module comes from.
LEMMA LedgerSimulation == TypeOK /\ [Next]_vars => [LedgerNext]_ledgerVars
<1> SUFFICES ASSUME TypeOK, [Next]_vars PROVE [LedgerNext]_ledgerVars
  OBVIOUS
<1>1. ASSUME NEW h \in Handlers, MoveStock(h)
      PROVE  LedgerNext
  <2>1. PICK r \in Requests : r = at[h].request
    BY <1>1, WhereItStands DEF MoveStock, Doing
  <2>2. ItemOf[r] \in Items /\ -QtyOf[r] \in Deltas /\ r \in Refs
    BY StockRequestsAssumption
  <2> QED BY <1>1, <2>1, <2>2 DEF MoveStock, LedgerNext
<1>2. ASSUME NEW h \in Handlers, NEW i \in Items, NEW d \in Adjustments, BeginAdjustment(h, i, d)
      PROVE  LedgerNext
  <2>1. d \in Deltas /\ i \in Refs
    BY StockRequestsAssumption
  <2> QED BY <1>2, <2>1 DEF BeginAdjustment, LedgerNext
<1>3. ASSUME NEW h \in Handlers, Fulfil(h) \/ CommitAdjustment(h)
      PROVE  LedgerNext
  BY <1>3 DEF Fulfil, CommitAdjustment, LedgerNext
<1>4. ASSUME NEW h \in Handlers, Abandon(h)
      PROVE  LedgerNext \/ UNCHANGED ledgerVars
  <2>1. CASE moving[h] = NoMovement
    BY <1>4, <2>1 DEF Abandon, ledgerVars, TypeOK, LedgerTypeOK
  <2>2. CASE moving[h] # NoMovement
    BY <1>4, <2>2 DEF Abandon, LedgerNext, RollbackMovement
  <2> QED BY <2>1, <2>2
<1>5. ASSUME NEW h \in Handlers,
             \/ Approve(h) \/ Reject(h) \/ RefuseIssue(h)
             \/ \E r \in Requests : ReadForApproval(h, r) \/ ReadForRejection(h, r) \/ LockRequest(h, r)
      PROVE  UNCHANGED ledgerVars
  BY <1>5 DEF Approve, Reject, RefuseIssue, ReadForApproval, ReadForRejection, LockRequest
<1>6. ASSUME NEW r \in Requests, Create(r)
      PROVE  UNCHANGED ledgerVars
  BY <1>6 DEF Create
<1>7. CASE UNCHANGED vars
  BY <1>7 DEF vars
<1> QED BY <1>1, <1>2, <1>3, <1>4, <1>5, <1>6, <1>7, StockRequestsAssumption DEF Next

LEMMA TypeStep == TypeOK /\ LedgerTypeOK' /\ [Next]_vars => TypeOK'
<1> SUFFICES ASSUME TypeOK, LedgerTypeOK', [Next]_vars PROVE TypeOK'
  OBVIOUS
<1> USE DEF TypeOK, Statuses, Steps
<1>1. ASSUME NEW r \in Requests, Create(r) PROVE TypeOK'
  BY <1>1 DEF Create, SetStatus
<1>2. ASSUME NEW h \in Handlers, NEW r \in Requests,
             ReadForApproval(h, r) \/ ReadForRejection(h, r) \/ LockRequest(h, r)
      PROVE  TypeOK'
  BY <1>2 DEF ReadForApproval, ReadForRejection, LockRequest, Goto
<1>3. ASSUME NEW h \in Handlers, Approve(h) \/ Reject(h) PROVE TypeOK'
  BY <1>3, WhereItStands DEF Approve, Reject, SetStatus, Leave, Doing
<1>4. ASSUME NEW h \in Handlers, Fulfil(h) PROVE TypeOK'
  <2>1. PICK r \in Requests : r = at[h].request
    BY <1>4, WhereItStands DEF Fulfil, Doing
  <2>2. status' \in [Requests -> Statuses] /\ at' \in [Handlers -> {Idle} \cup [step : Steps, request : Requests]]
    BY <1>4 DEF Fulfil, SetStatus, Leave
  <2>3. reorders' \in [Items -> Seq(Requests)]
    BY <1>4, <2>1, StockRequestsAssumption DEF Fulfil
  <2> QED BY <2>2, <2>3
<1>5. ASSUME NEW h \in Handlers, MoveStock(h) \/ RefuseIssue(h) \/ CommitAdjustment(h) \/ Abandon(h)
      PROVE  TypeOK'
  BY <1>5 DEF MoveStock, RefuseIssue, CommitAdjustment, Abandon, Leave, ledgerVars
<1>6. ASSUME NEW h \in Handlers, NEW i \in Items, NEW d \in Adjustments, BeginAdjustment(h, i, d)
      PROVE  TypeOK'
  BY <1>6 DEF BeginAdjustment
<1>7. CASE UNCHANGED vars
  BY <1>7 DEF vars, ledgerVars
<1> QED BY <1>1, <1>2, <1>3, <1>4, <1>5, <1>6, <1>7, StockRequestsAssumption DEF Next

\* The ledger's invariant and the types, carried together: a ledger step needs
\* to know which request a handler stands at.
LEMMA TypedLedger == Spec => [](TypeOK /\ LedgerInv)
<1>1. Init => TypeOK /\ LedgerInv
  BY InitType, LedgerInitInv DEF Init
<1>2. TypeOK /\ LedgerInv /\ [Next]_vars => (TypeOK /\ LedgerInv)'
  <2>1. LedgerInv' => LedgerTypeOK'
    BY DEF LedgerInv
  <2> QED BY <2>1, LedgerSimulation, LedgerStep, TypeStep
<1> QED BY <1>1, <1>2, PTL DEF Spec

\* The status, the handlers and the reorder drafts keep their types.
THEOREM TypeCorrect == Spec => []TypeOK
BY TypedLedger, PTL

\* Stock requests and adjustments, interleaved in any way, are a behaviour of
\* the stock ledger: nothing moves stock but a locked movement.
THEOREM ImplementsLedger == Spec => LedgerSpec
<1>1. Init => LedgerInit
  BY DEF Init
<1> QED BY <1>1, LedgerSimulation, TypedLedger, PTL DEF Spec, LedgerSpec

\* So balance_after is the running balance of every item, at every commit,
THEOREM BalancesRun == Spec => []RunningBalance
<1>1. LedgerInv => RunningBalance
  BY DEF LedgerInv
<1> QED BY <1>1, ImplementsLedger, LedgerCorrect, PTL

\* no issue or adjustment ever takes stock below zero (applyMovement's sign check is
\* made on the balance it writes),
THEOREM StockNotNegative == Spec => []NeverNegative
<1>1. LedgerInv => NeverNegative
  BY DEF LedgerInv
<1> QED BY <1>1, ImplementsLedger, LedgerCorrect, PTL

\* and of the transactions in flight one at a time holds an item, with a balance that
\* still follows from the committed stock.
THEOREM MovementsApart == Spec => []MovementExclusive
<1>1. LedgerInv => MovementExclusive
  BY DEF LedgerInv
<1> QED BY <1>1, ImplementsLedger, LedgerCorrect, PTL

-----------------------------------------------------------------------------
(* What the request row's lock protects. *)

\* A movement in flight belongs to the request its handler holds, or to an
\* adjustment; a request held for fulfilment is still open, and held once.
HandlerInv == \A h \in Handlers :
    /\ moving[h] # NoMovement /\ at[h] = Idle => moving[h].ref \in Items
    /\ moving[h] # NoMovement /\ at[h] # Idle =>
          /\ at[h].step = "fulfilling"
          /\ moving[h].ref = at[h].request
          /\ moving[h].item = ItemOf[at[h].request]
          /\ moving[h].delta = -QtyOf[at[h].request]
    /\ Doing(h, "fulfilling") =>
          /\ status[at[h].request] \in {"pending", "approved"}
          /\ \A g \in Handlers \ {h} :
                Doing(g, "fulfilling") => at[g].request # at[h].request

LEMMA HandlerStep == TypeOK /\ HandlerInv /\ [Next]_vars => HandlerInv'
<1> SUFFICES ASSUME TypeOK, HandlerInv, [Next]_vars PROVE HandlerInv'
  OBVIOUS
<1> USE DEF HandlerInv, TypeOK, LedgerTypeOK, Doing, Idle, Steps
<1>1. ASSUME NEW r \in Requests, Create(r) PROVE HandlerInv'
  BY <1>1 DEF Create, SetStatus, ledgerVars
<1>2. ASSUME NEW h \in Handlers, NEW r \in Requests, ReadForApproval(h, r) \/ ReadForRejection(h, r)
      PROVE  HandlerInv'
  <2>1. PICK s \in {"approving", "rejecting"} : at' = [at EXCEPT ![h] = [step |-> s, request |-> r]]
    BY <1>2 DEF ReadForApproval, ReadForRejection, Goto
  <2>2. at[h] = Idle /\ moving[h] = NoMovement /\ UNCHANGED <<ledgerVars, status>>
    BY <1>2 DEF ReadForApproval, ReadForRejection, Free
  <2> QED BY <2>1, <2>2 DEF ledgerVars
<1>3. ASSUME NEW h \in Handlers, NEW r \in Requests, LockRequest(h, r)
      PROVE  HandlerInv'
  BY <1>3 DEF LockRequest, RequestLocked, Free, Goto, ledgerVars
<1>4. ASSUME NEW h \in Handlers, Approve(h) \/ Reject(h) PROVE HandlerInv'
  <2>1. PICK r \in Requests, new \in Statuses :
          /\ r = at[h].request /\ ~RequestLocked(r)
          /\ at[h] # Idle /\ at[h].step \in {"approving", "rejecting"}
          /\ status' = [status EXCEPT ![r] = new]
          /\ at' = [at EXCEPT ![h] = Idle] /\ UNCHANGED ledgerVars
    BY <1>4 DEF Approve, Reject, SetStatus, Leave, Statuses
  <2> QED BY <2>1 DEF RequestLocked, ledgerVars
<1>5. ASSUME NEW h \in Handlers, MoveStock(h) PROVE HandlerInv'
  BY <1>5 DEF MoveStock, BeginMovement
<1>6. ASSUME NEW h \in Handlers, Fulfil(h) PROVE HandlerInv'
  BY <1>6 DEF Fulfil, CommitMovement, SetStatus, Leave
<1>7. ASSUME NEW h \in Handlers, RefuseIssue(h) \/ Abandon(h) PROVE HandlerInv'
  <2>1. /\ at' = [at EXCEPT ![h] = Idle] /\ moving' = [moving EXCEPT ![h] = NoMovement]
        /\ UNCHANGED status
    BY <1>7 DEF RefuseIssue, Abandon, Leave, ledgerVars
  <2> QED BY <2>1
<1>8. ASSUME NEW h \in Handlers, NEW i \in Items, NEW d \in Adjustments, BeginAdjustment(h, i, d)
      PROVE  HandlerInv'
  BY <1>8 DEF BeginAdjustment, BeginMovement, Free
<1>9. ASSUME NEW h \in Handlers, CommitAdjustment(h) PROVE HandlerInv'
  BY <1>9 DEF CommitAdjustment, CommitMovement
<1>10. CASE UNCHANGED vars
  BY <1>10 DEF vars, ledgerVars
<1> QED BY <1>1, <1>2, <1>3, <1>4, <1>5, <1>6, <1>7, <1>8, <1>9, <1>10,
           StockRequestsAssumption DEF Next

\* The rows already in the ledger stay, and the commit of a movement adds the
\* one row that names its document.
LEMMA IssuesAfterCommit ==
  ASSUME TypeOK, NEW h \in Handlers, CommitMovement(h), NEW r \in Requests
  PROVE  /\ \A k \in Issues(r) : k \in Issues(r)' /\ ledger'[ItemOf[r]][k] = ledger[ItemOf[r]][k]
         /\ \A k \in Issues(r)' \ Issues(r) :
               /\ k = Len(ledger[ItemOf[r]]) + 1
               /\ moving[h].ref = r /\ moving[h].item = ItemOf[r]
               /\ ledger'[ItemOf[r]][k].delta = moving[h].delta
         /\ moving[h].ref = r /\ moving[h].item = ItemOf[r] => Issues(r)' # {}
<1> USE DEF TypeOK, LedgerTypeOK
<1>1. PICK m \in Movement : m = moving[h]
  BY DEF CommitMovement
<1>2. PICK row \in Row :
        /\ row.ref = m.ref /\ row.delta = m.delta
        /\ ledger' = [ledger EXCEPT ![m.item] = Append(@, row)]
  <2>1. [delta |-> m.delta, ref |-> m.ref, balanceAfter |-> m.balanceAfter] \in Row
    BY DEF Movement, Row
  <2> QED BY <1>1, <2>1 DEF CommitMovement
<1>3. PICK i \in Items : i = ItemOf[r]
  BY StockRequestsAssumption
<1>4. CASE m.item # i
  <2>1. ledger'[i] = ledger[i]
    BY <1>2, <1>4
  <2> QED BY <1>1, <1>3, <1>4, <2>1 DEF Issues
<1>5. CASE m.item = i
  <2>1. ledger[i] \in Seq(Row) /\ ledger'[i] = Append(ledger[i], row)
    BY <1>2, <1>5
  <2>2. /\ Len(ledger[i]) \in Nat /\ Len(ledger'[i]) = Len(ledger[i]) + 1
        /\ ledger'[i][Len(ledger[i]) + 1] = row
        /\ \A k \in 1..Len(ledger[i]) : ledger'[i][k] = ledger[i][k]
    BY <2>1
  <2>3. Issues(r) = {k \in 1..Len(ledger[i]) : ledger[i][k].ref = r}
    BY <1>3 DEF Issues
  <2>4. Issues(r)' = {k \in 1..(Len(ledger[i]) + 1) : ledger'[i][k].ref = r}
    BY <1>3, <2>2 DEF Issues
  <2>5. \A k \in Issues(r) : k \in Issues(r)' /\ ledger'[i][k] = ledger[i][k]
    BY <2>2, <2>3, <2>4
  <2>6. \A k \in Issues(r)' \ Issues(r) : k = Len(ledger[i]) + 1
    BY <2>2, <2>3, <2>4
  <2>7. Len(ledger[i]) + 1 \in Issues(r)' <=> m.ref = r
    BY <1>2, <2>2, <2>4
  <2> QED BY <1>1, <1>2, <1>3, <1>5, <2>2, <2>5, <2>6, <2>7
<1> QED BY <1>4, <1>5

\* A commit is a fulfilment or an adjustment; every other step leaves the ledger.
LEMMA CommitOrSame ==
  ASSUME TypeOK, [Next]_vars
  PROVE  \/ ledger' = ledger
         \/ \E h \in Handlers : Fulfil(h) \/ CommitAdjustment(h)
BY StockRequestsAssumption
   DEF Next, vars, ledgerVars, Create, Approve, ReadForApproval, Reject, ReadForRejection,
       MoveStock, RefuseIssue, LockRequest, BeginAdjustment, BeginMovement, Abandon

LEMMA IssueStep ==
  TypeOK /\ HandlerInv /\ FulfilledWasIssued /\ IssuesMatchRequest /\ [Next]_vars
    => (FulfilledWasIssued /\ IssuesMatchRequest)'
<1> SUFFICES ASSUME TypeOK, HandlerInv, FulfilledWasIssued, IssuesMatchRequest, [Next]_vars,
                    NEW r \in Requests
             PROVE  /\ status'[r] = "fulfilled" => Issues(r)' # {}
                    /\ \A k \in Issues(r)' : ledger'[ItemOf[r]][k].delta = -QtyOf[r]
  BY DEF FulfilledWasIssued, IssuesMatchRequest
<1>1. ASSUME NEW h \in Handlers, Fulfil(h)
      PROVE  /\ status'[r] = "fulfilled" => Issues(r)' # {}
             /\ \A k \in Issues(r)' : ledger'[ItemOf[r]][k].delta = -QtyOf[r]
  <2>1. /\ CommitMovement(h) /\ at[h] # Idle /\ moving[h] # NoMovement
        /\ status' = [status EXCEPT ![at[h].request] = "fulfilled"]
    BY <1>1 DEF Fulfil, Doing, CommitMovement, SetStatus
  <2>2. /\ moving[h].ref = at[h].request /\ moving[h].item = ItemOf[at[h].request]
        /\ moving[h].delta = -QtyOf[at[h].request]
    BY <2>1 DEF HandlerInv
  <2>3. r # at[h].request => status'[r] = status[r]
    BY <2>1 DEF TypeOK
  <2> QED BY <2>1, <2>2, <2>3, IssuesAfterCommit DEF FulfilledWasIssued, IssuesMatchRequest
<1>2. ASSUME NEW h \in Handlers, CommitAdjustment(h)
      PROVE  /\ status'[r] = "fulfilled" => Issues(r)' # {}
             /\ \A k \in Issues(r)' : ledger'[ItemOf[r]][k].delta = -QtyOf[r]
  <2>1. CommitMovement(h) /\ at[h] = Idle /\ moving[h] # NoMovement /\ status' = status
    BY <1>2 DEF CommitAdjustment, CommitMovement
  <2>2. moving[h].ref # r
    BY <2>1, StockRequestsAssumption DEF HandlerInv
  <2> QED BY <2>1, <2>2, IssuesAfterCommit DEF FulfilledWasIssued, IssuesMatchRequest
<1>3. CASE ledger' = ledger /\ ~\E h \in Handlers : Fulfil(h)
  <2>1. status'[r] = "fulfilled" => status[r] = "fulfilled"
    BY <1>3, StockRequestsAssumption
       DEF TypeOK, Next, vars, ledgerVars, Create, Approve, ReadForApproval, Reject,
           ReadForRejection, MoveStock, RefuseIssue, LockRequest, BeginAdjustment,
           CommitAdjustment, Abandon, SetStatus
  <2>2. Issues(r)' = Issues(r)
    BY <1>3 DEF Issues
  <2> QED BY <1>3, <2>1, <2>2 DEF FulfilledWasIssued, IssuesMatchRequest
<1> QED BY <1>1, <1>2, <1>3, CommitOrSame

LEMMA FulfilmentSound == Spec => [](HandlerInv /\ FulfilledWasIssued /\ IssuesMatchRequest)
<1>1. Init => HandlerInv /\ FulfilledWasIssued /\ IssuesMatchRequest
  BY StockRequestsAssumption
     DEF Init, LedgerInit, HandlerInv, Doing, Idle, FulfilledWasIssued, IssuesMatchRequest, Issues
<1> QED BY <1>1, TypeCorrect, HandlerStep, IssueStep, PTL DEF Spec

\* A request that reads fulfilled has its goods out of stock: the row lock and the
\* transaction are enough for that, whatever approve and reject overwrite.
THEOREM FulfilledHasIssue == Spec => []FulfilledWasIssued
BY FulfilmentSound, PTL

\* Every movement in a request's name is for the quantity it asked for.
THEOREM IssuedAsAsked == Spec => []IssuesMatchRequest
BY FulfilmentSound, PTL

-----------------------------------------------------------------------------
(* Every low issue has its draft. *)

\* low says which ledger row of the item each draft was raised for.
RaisedFor(i, low) ==
    LET drafts == 1..Len(reorders[i]) IN
    /\ low \in [drafts -> LowIssues(i)]
    /\ \A m, n \in drafts : m < n => low[m] < low[n]
    /\ \A k \in LowIssues(i) : \E n \in drafts : low[n] = k
    /\ \A n \in drafts : reorders[i][n] = ledger[i][low[n]].ref

LEMMA Raised == ReordersFollowIssues <=> \A i \in Items : \E low : RaisedFor(i, low)
BY DEF ReordersFollowIssues, RaisedFor

\* A row that is no low issue raises no draft, and the earlier ones stand.
LEMMA DraftsStand ==
  ASSUME NEW i \in Items, ledger[i] \in Seq(Row), NEW row \in Row, ~LowIssue(i, row),
         ledger'[i] = Append(ledger[i], row), reorders'[i] = reorders[i],
         NEW low, RaisedFor(i, low)
  PROVE  RaisedFor(i, low)'
<1>1. /\ Len(ledger[i]) \in Nat /\ Len(ledger'[i]) = Len(ledger[i]) + 1
      /\ ledger'[i][Len(ledger[i]) + 1] = row
      /\ \A k \in 1..Len(ledger[i]) : ledger'[i][k] = ledger[i][k]
  OBVIOUS
<1>2. LowIssues(i)' = LowIssues(i)
  BY <1>1 DEF LowIssues, LowIssue, NeedsReorder
<1>3. \A k \in LowIssues(i) : ledger'[i][k] = ledger[i][k]
  BY <1>1 DEF LowIssues
<1> QED BY <1>2, <1>3 DEF RaisedFor

\* A low issue, with its draft, is one more pair.
LEMMA DraftRaised ==
  ASSUME NEW i \in Items, ledger[i] \in Seq(Row), NEW row \in Row, LowIssue(i, row),
         ledger'[i] = Append(ledger[i], row),
         reorders[i] \in Seq(Requests), reorders'[i] = Append(reorders[i], row.ref),
         row.ref \in Requests, NEW low, RaisedFor(i, low)
  PROVE  \E new : RaisedFor(i, new)'
<1> DEFINE last == Len(ledger[i]) + 1
           n == Len(reorders[i])
<1>1. /\ Len(ledger[i]) \in Nat /\ Len(ledger'[i]) = last /\ ledger'[i][last] = row
      /\ \A k \in 1..Len(ledger[i]) : ledger'[i][k] = ledger[i][k]
  OBVIOUS
<1>2. /\ n \in Nat /\ Len(reorders'[i]) = n + 1 /\ reorders'[i][n + 1] = row.ref
      /\ \A m \in 1..n : reorders'[i][m] = reorders[i][m]
  OBVIOUS
<1>3. LowIssues(i)' = LowIssues(i) \cup {last}
  BY <1>1 DEF LowIssues, LowIssue, NeedsReorder
<1>4. \A k \in LowIssues(i) : k \in 1..Len(ledger[i]) /\ k < last /\ ledger'[i][k] = ledger[i][k]
  BY <1>1 DEF LowIssues
<1>5. /\ low \in [1..n -> LowIssues(i)]
      /\ \A l, m \in 1..n : l < m => low[l] < low[m]
      /\ \A k \in LowIssues(i) : \E m \in 1..n : low[m] = k
      /\ \A m \in 1..n : reorders[i][m] = ledger[i][low[m]].ref
  BY DEF RaisedFor
<1>6. PICK new : new = [m \in 1..(n + 1) |-> IF m = n + 1 THEN last ELSE low[m]]
  OBVIOUS
<1>7. new[n + 1] = last /\ \A m \in 1..n : new[m] = low[m] /\ new[m] < last
  <2>1. n + 1 \in 1..(n + 1) /\ \A m \in 1..n : m \in 1..(n + 1) /\ m # n + 1
    BY <1>2
  <2>2. new[n + 1] = last /\ \A m \in 1..n : new[m] = low[m]
    BY <1>6, <2>1
  <2> QED BY <1>4, <1>5, <2>2
<1> HIDE DEF last
<1>8. new \in [1..(n + 1) -> LowIssues(i)']
  BY <1>2, <1>3, <1>5, <1>6
<1>9. \A l, m \in 1..(n + 1) : l < m => new[l] < new[m]
  <2> SUFFICES ASSUME NEW l \in 1..(n + 1), NEW m \in 1..(n + 1), l < m PROVE new[l] < new[m]
    OBVIOUS
  <2>1. l \in 1..n
    BY <1>2
  <2>2. CASE m = n + 1
    BY <1>7, <2>1, <2>2
  <2>3. CASE m \in 1..n
    BY <1>5, <1>7, <2>1, <2>3
  <2> QED BY <1>2, <2>2, <2>3
<1>10. \A k \in LowIssues(i)' : \E m \in 1..(n + 1) : new[m] = k
  <2>1. \A m \in 1..n : m \in 1..(n + 1)
    BY <1>2
  <2>2. n + 1 \in 1..(n + 1)
    BY <1>2
  <2> QED BY <1>3, <1>5, <1>7, <2>1, <2>2
<1>11. \A m \in 1..(n + 1) : reorders'[i][m] = ledger'[i][new[m]].ref
  <2>1. ASSUME NEW m \in 1..n PROVE reorders'[i][m] = ledger'[i][new[m]].ref
    BY <1>2, <1>4, <1>5, <1>7
  <2>2. reorders'[i][n + 1] = ledger'[i][new[n + 1]].ref
    BY <1>1, <1>2, <1>7
  <2>3. \A m \in 1..(n + 1) : m \in 1..n \/ m = n + 1
    BY <1>2
  <2> QED BY <2>1, <2>2, <2>3
<1>12. RaisedFor(i, new)'
  BY <1>2, <1>8, <1>9, <1>10, <1>11 DEF RaisedFor
<1> QED BY <1>12

LEMMA DraftStep ==
  TypeOK /\ HandlerInv /\ ReordersFollowIssues /\ [Next]_vars => ReordersFollowIssues'
<1> SUFFICES ASSUME TypeOK, HandlerInv, ReordersFollowIssues, [Next]_vars, NEW i \in Items
             PROVE  \E low : RaisedFor(i, low)'
  BY DEF ReordersFollowIssues, RaisedFor
<1>1. PICK low : RaisedFor(i, low)
  BY Raised
<1>2. ledger \in [Items -> Seq(Row)] /\ reorders \in [Items -> Seq(Requests)]
  BY DEF TypeOK, LedgerTypeOK
<1>3. ASSUME ledger'[i] = ledger[i], reorders'[i] = reorders[i]
      PROVE  \E any : RaisedFor(i, any)'
  <2>1. RaisedFor(i, low)'
    BY <1>1, <1>3 DEF RaisedFor, LowIssues, LowIssue, NeedsReorder
  <2> QED BY <2>1
<1>4. ASSUME NEW h \in Handlers, Fulfil(h) \/ CommitAdjustment(h)
      PROVE  \E any : RaisedFor(i, any)'
  <2>1. PICK m \in Movement : m = moving[h]
    BY <1>4 DEF Fulfil, CommitAdjustment, CommitMovement, TypeOK, LedgerTypeOK
  <2>2. PICK row \in Row :
          /\ row.ref = m.ref /\ row.balanceAfter = m.balanceAfter
          /\ ledger' = [ledger EXCEPT ![m.item] = Append(@, row)]
    <3>1. [delta |-> m.delta, ref |-> m.ref, balanceAfter |-> m.balanceAfter] \in Row
      BY DEF Movement, Row
    <3> QED BY <1>4, <2>1, <3>1 DEF Fulfil, CommitAdjustment, CommitMovement
  <2>3. m.item \in Items /\ m # NoMovement
    BY LedgerAssumption DEF Movement
  <2>4. CASE CommitAdjustment(h)
    <3>1. row.ref \notin Requests /\ reorders' = reorders
      BY <2>1, <2>2, <2>3, <2>4, StockRequestsAssumption DEF CommitAdjustment, HandlerInv
    <3>2. CASE m.item # i
      BY <1>2, <1>3, <2>2, <3>1, <3>2
    <3>3. CASE m.item = i
      <4>1. ledger'[i] = Append(ledger[i], row) /\ ~LowIssue(i, row)
        BY <1>2, <2>2, <3>1, <3>3 DEF LowIssue
      <4> QED BY <1>1, <1>2, <3>1, <4>1, DraftsStand
    <3> QED BY <3>2, <3>3
  <2>5. CASE Fulfil(h)
    <3>1. PICK r \in Requests : r = at[h].request
      BY <2>5, WhereItStands DEF Fulfil, Doing
    <3>2. m.ref = r /\ m.item = ItemOf[r]
      BY <2>1, <2>3, <2>5, <3>1 DEF Fulfil, HandlerInv, Doing
    <3>3. reorders' = IF NeedsReorder(m.item, m.balanceAfter)
                        THEN [reorders EXCEPT ![m.item] = Append(@, r)] ELSE reorders
      BY <2>1, <2>5, <3>1, <3>2 DEF Fulfil
    <3>4. CASE m.item # i
      BY <1>2, <1>3, <2>2, <3>3, <3>4
    <3>5. CASE m.item = i
      <4>1. ledger'[i] = Append(ledger[i], row) /\ (LowIssue(i, row) <=> NeedsReorder(i, m.balanceAfter))
        BY <1>2, <2>2, <3>2, <3>5 DEF LowIssue
      <4>2. CASE LowIssue(i, row)
        <5>1. reorders'[i] = Append(reorders[i], row.ref) /\ row.ref \in Requests
          BY <1>2, <2>2, <3>2, <3>3, <3>5, <4>1, <4>2
        <5> QED BY <1>1, <1>2, <4>1, <4>2, <5>1, DraftRaised
      <4>3. CASE ~LowIssue(i, row)
        <5>1. reorders'[i] = reorders[i]
          BY <3>3, <3>5, <4>1, <4>3
        <5> QED BY <1>1, <1>2, <4>1, <4>3, <5>1, DraftsStand
      <4> QED BY <4>2, <4>3
    <3> QED BY <3>4, <3>5
  <2> QED BY <1>4, <2>4, <2>5
<1>5. CASE ledger' = ledger /\ ~\E h \in Handlers : Fulfil(h)
  <2>1. reorders' = reorders
    BY <1>5, StockRequestsAssumption
       DEF Next, vars, Create, Approve, ReadForApproval, Reject, ReadForRejection, MoveStock,
           RefuseIssue, LockRequest, BeginAdjustment, CommitAdjustment, Abandon
  <2> QED BY <1>3, <1>5, <2>1
<1> QED BY <1>4, <1>5, CommitOrSame

\* createReorderDraft runs inside the fulfilment's transaction, on the balance it has
\* just written: the drafts of an item name its low issues, all of them and in
\* order, whatever is approved, rejected, adjusted or abandoned in between.
THEOREM DraftsFollowIssues == Spec => []ReordersFollowIssues
<1>1. Init => HandlerInv /\ ReordersFollowIssues
  <2> SUFFICES ASSUME Init PROVE HandlerInv /\ ReordersFollowIssues
    OBVIOUS
  <2>1. HandlerInv
    BY StockRequestsAssumption DEF Init, LedgerInit, HandlerInv, Doing, Idle
  <2>2. ASSUME NEW i \in Items PROVE RaisedFor(i, <<>>)
    <3>1. reorders[i] = <<>> /\ ledger[i] = <<>>
      BY DEF Init, LedgerInit
    <3> QED BY <3>1 DEF RaisedFor, LowIssues
  <2> QED BY <2>1, <2>2, Raised
<1> QED BY <1>1, TypeCorrect, HandlerStep, DraftStep, PTL DEF Spec

-----------------------------------------------------------------------------
(* Fulfilled once, while no approval overlaps the fulfilment. *)

\* No request is between approve's read and its update, and fulfilled, at once.
ApprovalsApart == \A g, h \in Handlers :
    Doing(g, "approving") /\ Doing(h, "fulfilling") => at[g].request # at[h].request

\* Once the goods are out, the request is closed to fulfil.
IssuedIsClosed == \A r \in Requests :
    Issues(r) # {} => status[r] \in {"fulfilled", "rejected"}

\* Nothing has gone out for a request about to be overwritten with "approved".
ApprovingUnissued == \A h \in Handlers : Doing(h, "approving") => Issues(at[h].request) = {}

OnceInv == IssuedIsClosed /\ ApprovingUnissued /\ FulfilledOnce

LEMMA OnceStep ==
  ASSUME TypeOK, HandlerInv, ApprovalsApart, OnceInv, [Next]_vars
  PROVE  OnceInv'
<1> USE DEF OnceInv
<1>1. ASSUME ledger' = ledger PROVE \A r \in Requests : Issues(r)' = Issues(r)
  BY <1>1 DEF Issues
\* Who still approves after the step was already approving, or has just read "pending".
<1>2. ASSUME NEW g \in Handlers, Doing(g, "approving")'
      PROVE  \/ Doing(g, "approving") /\ at'[g] = at[g]
             \/ \E r \in Requests : ReadForApproval(g, r) /\ at'[g].request = r
  <2>1. \/ at' = at
        \/ \E h \in Handlers : Leave(h)
        \/ \E h \in Handlers, r \in Requests :
              \/ Goto(h, "rejecting", r) \/ Goto(h, "fulfilling", r)
              \/ ReadForApproval(h, r) /\ Goto(h, "approving", r)
    <3>1. CASE \E r \in Requests : Create(r)
      BY <3>1 DEF Create
    <3>2. CASE \E h \in Approvers : Approve(h) \/ \E r \in Requests : ReadForApproval(h, r)
      BY <3>2, StockRequestsAssumption DEF Approve, ReadForApproval
    <3>3. CASE \E h \in Rejecters : Reject(h) \/ \E r \in Requests : ReadForRejection(h, r)
      BY <3>3, StockRequestsAssumption DEF Reject, ReadForRejection
    <3>4. CASE \E h \in Fulfillers : \/ MoveStock(h) \/ RefuseIssue(h) \/ Fulfil(h)
                                     \/ \E r \in Requests : LockRequest(h, r)
      BY <3>4, StockRequestsAssumption DEF MoveStock, RefuseIssue, Fulfil, LockRequest
    <3>5. CASE \E h \in Adjusters : \/ CommitAdjustment(h)
                                    \/ \E i \in Items, d \in Adjustments : BeginAdjustment(h, i, d)
      BY <3>5 DEF CommitAdjustment, BeginAdjustment
    <3>6. CASE \E h \in Handlers : Abandon(h)
      BY <3>6 DEF Abandon
    <3>7. CASE UNCHANGED vars
      BY <3>7 DEF vars
    <3> QED BY <3>1, <3>2, <3>3, <3>4, <3>5, <3>6, <3>7 DEF Next
  <2>2. at \in [Handlers -> {Idle} \cup [step : Steps, request : Requests]]
    BY DEF TypeOK
  <2>3. ASSUME NEW h \in Handlers, NEW r \in Requests, NEW s, Goto(h, s, r)
        PROVE  /\ g # h => at'[g] = at[g]
               /\ g = h => s = "approving" /\ at'[g].request = r
    BY <1>2, <2>2, <2>3 DEF Goto, Doing
  <2> QED BY <1>2, <2>1, <2>2, <2>3 DEF Leave, Doing
<1>3. ASSUME NEW h \in Handlers, Fulfil(h), NEW r \in Requests
      PROVE  /\ Issues(r)' # {} => status'[r] \in {"fulfilled", "rejected"}
             /\ r # at[h].request => Issues(r)' = Issues(r)
             /\ \A j, k \in Issues(r)' : j = k
  <2>1. /\ CommitMovement(h) /\ at[h] # Idle /\ moving[h] # NoMovement /\ Doing(h, "fulfilling")
        /\ status' = [status EXCEPT ![at[h].request] = "fulfilled"]
    BY <1>3 DEF Fulfil, Doing, CommitMovement, SetStatus
  <2>2. /\ moving[h].ref = at[h].request
        /\ status[at[h].request] \in {"pending", "approved"}
    BY <2>1 DEF HandlerInv
  <2>3. CASE r = at[h].request
    <3>1. Issues(r) = {}
      BY <2>2, <2>3 DEF IssuedIsClosed
    <3>2. status'[r] = "fulfilled"
      BY <2>1, <2>3 DEF TypeOK
    <3> QED BY <2>1, <2>3, <3>1, <3>2, IssuesAfterCommit
  <2>4. CASE r # at[h].request
    <3>1. status'[r] = status[r]
      BY <2>1, <2>4 DEF TypeOK
    <3>2. Issues(r)' = Issues(r)
      BY <2>1, <2>2, <2>4, IssuesAfterCommit
    <3> QED BY <2>4, <3>1, <3>2 DEF IssuedIsClosed, FulfilledOnce
  <2> QED BY <2>3, <2>4
<1>4. ASSUME NEW h \in Handlers, CommitAdjustment(h), NEW r \in Requests
      PROVE  Issues(r)' = Issues(r) /\ status' = status
  <2>1. CommitMovement(h) /\ at[h] = Idle /\ moving[h] # NoMovement /\ status' = status
    BY <1>4 DEF CommitAdjustment, CommitMovement
  <2>2. moving[h].ref # r
    BY <2>1, StockRequestsAssumption DEF HandlerInv
  <2>3. \A k \in Issues(r)' \ Issues(r) : moving[h].ref = r
    BY <2>1, IssuesAfterCommit
  <2>4. \A k \in Issues(r) : k \in Issues(r)'
    BY <2>1, IssuesAfterCommit
  <2> QED BY <2>1, <2>2, <2>3, <2>4
<1>5. ASSUME ledger' = ledger, ~\E h \in Handlers : Fulfil(h), NEW r \in Requests, Issues(r) # {},
             status[r] \in {"fulfilled", "rejected"}
      PROVE  status'[r] \in {"fulfilled", "rejected"}
  <2>1. ASSUME NEW h \in Approvers, Approve(h) PROVE status'[r] = status[r]
    <3>1. /\ h \in Handlers /\ Doing(h, "approving")
          /\ status' = [status EXCEPT ![at[h].request] = "approved"]
      BY <2>1, StockRequestsAssumption DEF Approve, SetStatus
    <3> QED BY <1>5, <3>1 DEF ApprovingUnissued, TypeOK
  <2> QED BY <1>5, <2>1, StockRequestsAssumption
          DEF TypeOK, Next, vars, ledgerVars, Create, Reject, ReadForRejection, MoveStock,
              ReadForApproval, RefuseIssue, LockRequest, BeginAdjustment, CommitAdjustment,
              Abandon, SetStatus
<1>6. IssuedIsClosed' /\ FulfilledOnce'
  <2> SUFFICES ASSUME NEW r \in Requests
               PROVE  /\ Issues(r)' # {} => status'[r] \in {"fulfilled", "rejected"}
                      /\ \A j, k \in Issues(r)' : j = k
    BY DEF IssuedIsClosed, FulfilledOnce
  <2>1. CASE ledger' = ledger /\ ~\E h \in Handlers : Fulfil(h)
    BY <1>1, <1>5, <2>1 DEF IssuedIsClosed, FulfilledOnce
  <2>2. CASE \E h \in Handlers : CommitAdjustment(h)
    BY <1>4, <2>2 DEF IssuedIsClosed, FulfilledOnce
  <2> QED BY <1>3, <2>1, <2>2, CommitOrSame
<1>7. ApprovingUnissued'
  <2> SUFFICES ASSUME NEW g \in Handlers, Doing(g, "approving")'
               PROVE  (Issues(at[g].request) = {})'
    BY DEF ApprovingUnissued
  <2>1. PICK r \in Requests : /\ r = at'[g].request /\ Issues(r) = {}
                              /\ \/ Doing(g, "approving") /\ at[g].request = r
                                 \/ ReadForApproval(g, r)
    <3>1. CASE Doing(g, "approving") /\ at'[g] = at[g]
      BY <3>1, WhereItStands DEF ApprovingUnissued, Doing
    <3>2. ASSUME NEW r \in Requests, ReadForApproval(g, r) PROVE Issues(r) = {}
      BY <3>2 DEF ReadForApproval, IssuedIsClosed
    <3> QED BY <1>2, <3>1, <3>2
  <2>2. CASE ReadForApproval(g, r)
    <3>1. ledger' = ledger
      BY <2>2 DEF ReadForApproval, ledgerVars
    <3>2. Issues(r)' = Issues(r)
      BY <1>1, <3>1
    <3> QED BY <2>1, <3>2 DEF Issues
  <2>3. CASE Doing(g, "approving") /\ at[g].request = r
    <3>1. ASSUME NEW h \in Handlers, Fulfil(h) PROVE Issues(r)' = Issues(r)
      <4>1. at[h].request # r
        BY <2>3, <3>1 DEF ApprovalsApart, Fulfil
      <4> QED BY <1>3, <3>1, <4>1
    <3>2. Issues(r)' = Issues(r)
      BY <1>1, <1>4, <3>1, CommitOrSame
    <3> QED BY <2>1, <3>2 DEF Issues
  <2> QED BY <2>1, <2>2, <2>3
<1> QED BY <1>6, <1>7

\* fulfil "locks the request (so it is fulfilled once)": true of any number of
\* concurrent fulfilments, rejections and adjustments in every behaviour where no
\* approve of a request overlaps its fulfilment - approve's update is the one write
\* that can reopen a closed request.
THEOREM FulfilledOnceUnlessOverlapped ==
    Spec /\ []ApprovalsApart => []FulfilledOnce
<1>1. Init => HandlerInv /\ OnceInv
  BY StockRequestsAssumption
     DEF Init, LedgerInit, HandlerInv, OnceInv, ApprovingUnissued, Doing, Idle, IssuedIsClosed,
         FulfilledOnce, Issues
<1>2. TypeOK /\ HandlerInv /\ ApprovalsApart /\ OnceInv /\ [Next]_vars => OnceInv'
  BY OnceStep
<1>3. OnceInv => FulfilledOnce
  BY DEF OnceInv
<1> QED BY <1>1, <1>2, <1>3, TypeCorrect, HandlerStep, PTL DEF Spec

-----------------------------------------------------------------------------
(* No deadlock.  ENABLED is out of the prover's reach, so the guards of      *)
(* Continue are written out: CanGo(h) is ENABLED Continue(h).                *)

CanGo(h) ==
    \/ Doing(h, "approving") /\ ~RequestLocked(at[h].request)
    \/ Doing(h, "rejecting") /\ ~RequestLocked(at[h].request)
    \/ /\ Doing(h, "fulfilling") /\ moving[h] = NoMovement
       /\ LET r == at[h].request
              i == ItemOf[r]
          IN ~ItemLocked(i) /\ (stockQty[i] + -QtyOf[r] >= 0 \/ stockQty[i] < QtyOf[r])
    \/ Doing(h, "fulfilling") /\ moving[h] # NoMovement
    \/ at[h] = Idle /\ moving[h] # NoMovement

\* g holds the row h waits for.
Blocks(g, h) ==
    \/ /\ Doing(h, "approving") \/ Doing(h, "rejecting")
       /\ Doing(g, "fulfilling") /\ at[g].request = at[h].request
    \/ /\ Doing(h, "fulfilling") /\ moving[h] = NoMovement
       /\ moving[g] # NoMovement /\ moving[g].item = ItemOf[at[h].request]

\* Every wait ends at a handler that can go on, after at most two rows.
WaitsEnd == \A h \in Handlers : ~Free(h) =>
    \/ CanGo(h)
    \/ \E g \in Handlers : Blocks(g, h) /\
          (CanGo(g) \/ \E f \in Handlers : Blocks(f, g) /\ CanGo(f))

LEMMA WaitOrGo == TypeOK /\ LedgerInv /\ HandlerInv => WaitsEnd
<1> SUFFICES ASSUME TypeOK, LedgerInv, HandlerInv PROVE WaitsEnd
  OBVIOUS
\* A movement under way commits without waiting,
<1>1. ASSUME NEW h \in Handlers, moving[h] # NoMovement PROVE CanGo(h)
  BY <1>1, WhereItStands DEF CanGo, HandlerInv, Doing
\* an issue goes on, is refused, or waits for one,
<1>2. ASSUME NEW h \in Handlers, Doing(h, "fulfilling"), ~CanGo(h)
      PROVE  \E g \in Handlers : Blocks(g, h) /\ CanGo(g)
  <2> DEFINE r == at[h].request
             i == ItemOf[r]
  <2>1. moving[h] = NoMovement
    BY <1>1, <1>2
  <2>2. r \in Requests
    BY <1>2, WhereItStands DEF Doing
  <2>3. QtyOf[r] \in Nat /\ stockQty[i] \in Int
    BY <2>2, StockRequestsAssumption DEF LedgerInv, LedgerTypeOK
  <2>4. stockQty[i] + -QtyOf[r] >= 0 \/ stockQty[i] < QtyOf[r]
    BY <2>3
  <2>5. ItemLocked(i)
    BY <1>2, <2>1, <2>4 DEF CanGo
  <2>6. PICK g \in Handlers : moving[g] # NoMovement /\ moving[g].item = i
    BY <2>5 DEF ItemLocked
  <2>7. Blocks(g, h)
    BY <1>2, <2>1, <2>6 DEF Blocks
  <2> QED BY <1>1, <2>6, <2>7
\* and a decision waits for an issue.
<1>3. ASSUME NEW h \in Handlers, Doing(h, "approving") \/ Doing(h, "rejecting"), ~CanGo(h)
      PROVE  \E g \in Handlers : Blocks(g, h) /\ Doing(g, "fulfilling")
  <2>1. RequestLocked(at[h].request)
    BY <1>3 DEF CanGo
  <2>2. PICK g \in Handlers : Doing(g, "fulfilling") /\ at[g].request = at[h].request
    BY <2>1 DEF RequestLocked
  <2> QED BY <1>3, <2>2 DEF Blocks
<1> SUFFICES ASSUME NEW h \in Handlers, ~Free(h), ~CanGo(h)
             PROVE  \E g \in Handlers : Blocks(g, h) /\
                       (CanGo(g) \/ \E f \in Handlers : Blocks(f, g) /\ CanGo(f))
  BY DEF WaitsEnd
<1>4. Doing(h, "approving") \/ Doing(h, "rejecting") \/ Doing(h, "fulfilling")
  BY <1>1, WhereItStands DEF Free, Doing, Steps
<1>5. CASE Doing(h, "fulfilling")
  BY <1>2, <1>5
<1>6. CASE Doing(h, "approving") \/ Doing(h, "rejecting")
  <2>1. PICK g \in Handlers : Blocks(g, h) /\ Doing(g, "fulfilling")
    BY <1>3, <1>6
  <2>2. CanGo(g) \/ \E f \in Handlers : Blocks(f, g) /\ CanGo(f)
    BY <1>2, <2>1
  <2> QED BY <2>1, <2>2
<1> QED BY <1>4, <1>5, <1>6

\* No deadlock, for any number of handlers: fulfil takes the request before the item, an
\* adjustment only the item, approve and reject only wait for the request, so a chain of
\* waits is at most two rows long and ends at a transaction that can go on.
THEOREM NoDeadlock == Spec => []WaitsEnd
BY TypedLedger, FulfilmentSound, WaitOrGo, PTL

=============================================================================
