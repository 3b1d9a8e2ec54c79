--------------------------- MODULE StockRequests ---------------------------
(***************************************************************************)
(* Stock requests (StockRequestsService) and manual stock adjustments      *)
(* (InventoryService.adjustStock) over the shared stock ledger.            *)
(*                                                                         *)
(* fulfil is one transaction that locks the request row, then the item     *)
(* row.  approve and reject are not: each reads the request, checks what   *)
(* it read, and then updates the row whatever it holds by then.  `at`      *)
(* says where each handler stands between those awaits.                    *)
(***************************************************************************)
EXTENDS StockLedger

CONSTANTS
    Requests,       \* stock_requests rows that can be created
    ItemOf,         \* the item a request asks for
    QtyOf,          \* and how much of it
    ReorderPoint,   \* inventory_items.reorder_point
    ReorderQty,     \* inventory_items.reorder_qty
    Approvers,      \* handlers that run approve
    Rejecters,      \* handlers that run reject
    Fulfillers,     \* handlers that run fulfil
    Adjusters,      \* handlers that run adjustStock
    Adjustments,    \* the deltas a manager enters
    MaxMovements    \* bound: no adjustment is started on an item with this many rows

ASSUME StockRequestsAssumption ==
    /\ ItemOf \in [Requests -> Items]
    /\ QtyOf \in [Requests -> Nat \ {0}]
    /\ ReorderPoint \in [Items -> Nat] /\ ReorderQty \in [Items -> Nat]
    /\ Handlers = Approvers \cup Rejecters \cup Fulfillers \cup Adjusters
    /\ Requests \subseteq Refs /\ Items \subseteq Refs /\ Requests \cap Items = {}
    /\ Adjustments \subseteq Deltas
    /\ \A r \in Requests : -QtyOf[r] \in Deltas
    /\ MaxMovements \in Nat

VARIABLES
    status,         \* stock_requests.status, or "absent" before create
    at,             \* where each handler stands
    reorders        \* draft reorder requests raised for each item, in commit order

vars == <<ledgerVars, status, at, reorders>>

Statuses == {"absent", "pending", "approved", "rejected", "fulfilled"}
Steps == {"approving", "rejecting", "fulfilling"}
Idle == [step |-> "idle"]

TypeOK ==
    /\ LedgerTypeOK
    /\ status \in [Requests -> Statuses]
    /\ at \in [Handlers -> {Idle} \cup [step : Steps, request : Requests]]
    /\ reorders \in [Items -> Seq(Requests)]

Init ==
    /\ LedgerInit
    /\ status = [r \in Requests |-> "absent"]
    /\ at = [h \in Handlers |-> Idle]
    /\ reorders = [i \in Items |-> <<>>]

-----------------------------------------------------------------------------

\* The handler is between requests: nothing read, no transaction open.
Free(h) == at[h] = Idle /\ moving[h] = NoMovement

Goto(h, step, r) == at' = [at EXCEPT ![h] = [step |-> step, request |-> r]]
Leave(h) == at' = [at EXCEPT ![h] = Idle]
Doing(h, step) == at[h] # Idle /\ at[h].step = step

\* fulfil holds the request row FOR UPDATE from its read to its commit; a plain
\* UPDATE of the row waits for it.
RequestLocked(r) == \E h \in Handlers : Doing(h, "fulfilling") /\ at[h].request = r

SetStatus(r, s) == status' = [status EXCEPT ![r] = s]

-----------------------------------------------------------------------------

Create(r) ==
    /\ status[r] = "absent"
    /\ SetStatus(r, "pending")
    /\ UNCHANGED <<ledgerVars, at, reorders>>

\* approve: the read and its check ...
ReadForApproval(h, r) ==
    /\ Free(h)
    /\ status[r] = "pending"
    /\ Goto(h, "approving", r)
    /\ UNCHANGED <<ledgerVars, status, reorders>>

\* ... and the update, which does not look at the status again.
Approve(h) ==
    /\ Doing(h, "approving")
    /\ ~RequestLocked(at[h].request)
    /\ SetStatus(at[h].request, "approved")
    /\ Leave(h)
    /\ UNCHANGED <<ledgerVars, reorders>>

\* reject: refuses a fulfilled request only; any other status may be rejected.
ReadForRejection(h, r) ==
    /\ Free(h)
    /\ status[r] \notin {"absent", "fulfilled"}
    /\ Goto(h, "rejecting", r)
    /\ UNCHANGED <<ledgerVars, status, reorders>>

\* Slip: the status of another document's enum.
RejectWrongEnum(h) ==
    /\ Doing(h, "rejecting")
    /\ ~RequestLocked(at[h].request)
    /\ SetStatus(at[h].request, "cancelled")
    /\ Leave(h)
    /\ UNCHANGED <<ledgerVars, reorders>>

Reject(h) ==
    /\ Doing(h, "rejecting")
    /\ ~RequestLocked(at[h].request)
    /\ SetStatus(at[h].request, "rejected")
    /\ Leave(h)
    /\ UNCHANGED <<ledgerVars, reorders>>

\* fulfil: the request row FOR UPDATE; refused when fulfilled or rejected.
LockRequest(h, r) ==
    /\ Free(h)
    /\ ~RequestLocked(r)
    /\ status[r] \in {"pending", "approved"}
    /\ Goto(h, "fulfilling", r)
    /\ UNCHANGED <<ledgerVars, status, reorders>>

MoveStock(h) ==
    /\ Doing(h, "fulfilling")
    /\ LET r == at[h].request IN BeginMovement(h, ItemOf[r], -QtyOf[r], r)
    /\ UNCHANGED <<status, at, reorders>>

\* needsReorder, on the locked item row with its new balance.
NeedsReorder(i, balance) == balance <= ReorderPoint[i] /\ ReorderQty[i] > 0

\* Slip: the status is written outside the transaction, which then rolls back.
FulfilRolledBack(h) ==
    /\ Doing(h, "fulfilling")
    /\ RollbackMovement(h)
    /\ SetStatus(at[h].request, "fulfilled")
    /\ Leave(h)
    /\ UNCHANGED reorders

\* Slip: the reorder point is compared with the balance before the movement.
FulfilStaleReorder(h) ==
    /\ Doing(h, "fulfilling")
    /\ CommitMovement(h)
    /\ LET r == at[h].request
           i == ItemOf[r]
       IN /\ SetStatus(r, "fulfilled")
          /\ reorders' = IF NeedsReorder(i, stockQty[i])
                           THEN [reorders EXCEPT ![i] = Append(@, r)]
                           ELSE reorders
    /\ Leave(h)

\* The commit of fulfil: the stock, the ledger row, the status and the draft
\* reorder request become visible together.
Fulfil(h) ==
    /\ Doing(h, "fulfilling")
    /\ CommitMovement(h)
    /\ LET r == at[h].request
           i == ItemOf[r]
       IN /\ SetStatus(r, "fulfilled")
          /\ reorders' = IF NeedsReorder(i, moving[h].balanceAfter)
                           THEN [reorders EXCEPT ![i] = Append(@, r)]
                           ELSE reorders
    /\ Leave(h)

\* adjustStock: one transaction, the item row its only lock.
BeginAdjustment(h, i, d) ==
    /\ Free(h)
    /\ Len(ledger[i]) < MaxMovements
    /\ BeginMovement(h, i, d, i)
    /\ UNCHANGED <<status, at, reorders>>

\* Slip: the balance is written without its ledger row.
CommitAdjustmentNoRow(h) ==
    /\ at[h] = Idle
    /\ moving[h] # NoMovement
    /\ stockQty' = [stockQty EXCEPT ![moving[h].item] = moving[h].balanceAfter]
    /\ moving' = [moving EXCEPT ![h] = NoMovement]
    /\ UNCHANGED <<ledger, status, at, reorders>>

CommitAdjustment(h) ==
    /\ at[h] = Idle
    /\ CommitMovement(h)
    /\ UNCHANGED <<status, at, reorders>>

\* Slip: short stock is waited for, with the request row held.
RefuseIssueNever(h) == Doing(h, "fulfilling") /\ FALSE

\* applyMovement refuses a negative balance, and the transaction rolls back.
RefuseIssue(h) ==
    /\ Doing(h, "fulfilling")
    /\ moving[h] = NoMovement
    /\ LET r == at[h].request
       IN ~ItemLocked(ItemOf[r]) /\ stockQty[ItemOf[r]] < QtyOf[r]
    /\ Leave(h)
    /\ UNCHANGED <<ledgerVars, status, reorders>>

\* A database error or a crash at any await: an open transaction rolls back,
\* an unlocked handler never reaches its update.
Abandon(h) ==
    /\ ~Free(h)
    /\ Leave(h)
    /\ moving' = [moving EXCEPT ![h] = NoMovement]
    /\ UNCHANGED <<stockQty, ledger, status, reorders>>

-----------------------------------------------------------------------------

Next ==
    \/ \E r \in Requests : Create(r)
    \/ \E h \in Approvers : Approve(h) \/ \E r \in Requests : ReadForApproval(h, r)
    \/ \E h \in Rejecters : Reject(h) \/ \E r \in Requests : ReadForRejection(h, r)
    \/ \E h \in Fulfillers :
          \/ MoveStock(h) \/ RefuseIssue(h) \/ Fulfil(h)
          \/ \E r \in Requests : LockRequest(h, r)
    \/ \E h \in Adjusters :
          \/ CommitAdjustment(h)
          \/ \E i \in Items, d \in Adjustments : BeginAdjustment(h, i, d)
    \/ \E h \in Handlers : Abandon(h)

\* Every awaited query returns, so a handler inside a request goes on.  Strong
\* fairness, because the step may wait for a row lock: PostgreSQL queues the
\* waiters of a row, and none is passed over for ever.  Nothing obliges a person
\* to start a request, or a handler to fail.
Continue(h) ==
    \/ Approve(h) \/ Reject(h)
    \/ MoveStock(h) \/ RefuseIssue(h) \/ Fulfil(h)
    \/ CommitAdjustment(h)

Fairness == \A h \in Handlers : SF_vars(Continue(h))

Spec == Init /\ [][Next]_vars
FairSpec == Spec /\ Fairness

-----------------------------------------------------------------------------
(* Properties. *)

\* The ledger rows a request has caused.
Issues(r) == {k \in 1..Len(ledger[ItemOf[r]]) : ledger[ItemOf[r]][k].ref = r}

\* A request that reads fulfilled has its goods out of stock: the status and
\* the movement commit together (fulfil, one transaction).
FulfilledWasIssued == \A r \in Requests : status[r] = "fulfilled" => Issues(r) # {}

\* Every issue is for the quantity asked, whoever else moves the same item.
IssuesMatchRequest == \A r \in Requests : \A k \in Issues(r) :
    ledger[ItemOf[r]][k].delta = -QtyOf[r]

\* fulfil "locks the request (so it is fulfilled once)": one request, at most
\* one movement out of stock.
FulfilledOnce == \A r \in Requests : \A j, k \in Issues(r) : j = k

\* A movement out of stock that lands at or below the reorder point has its
\* draft reorder request, raised in the same transaction, and no draft exists
\* without one: the drafts name the low issues of the item in ledger order.
LowIssue(i, row) == row.ref \in Requests /\ NeedsReorder(i, row.balanceAfter)
LowIssues(i) == {k \in 1..Len(ledger[i]) : LowIssue(i, ledger[i][k])}
ReordersFollowIssues == \A i \in Items :
    LET drafts == 1..Len(reorders[i]) IN
    \E low \in [drafts -> LowIssues(i)] :
        /\ \A m, n \in drafts : m < n => low[m] < low[n]
        /\ \A k \in LowIssues(i) : \E n \in drafts : low[n] = k
        /\ \A n \in drafts : reorders[i][n] = ledger[i][low[n]].ref

\* No handler waits for ever on a row lock.
HandlersFinish == \A h \in Handlers : ~Free(h) ~> Free(h)

=============================================================================
