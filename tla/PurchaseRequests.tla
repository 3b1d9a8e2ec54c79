-------------------------- MODULE PurchaseRequests --------------------------
(***************************************************************************)
(* Purchase requests from their creation to the purchase orders raised     *)
(* from them (PurchaseRequestsService, RatesService,                       *)
(* ApprovalThresholdsService.check and                                     *)
(* PurchaseOrdersService.createFromRequest).                               *)
(*                                                                         *)
(* No operation here locks the request.  Each one reads the row, checks    *)
(* what it read, awaits other queries, and then writes by id: `at` keeps   *)
(* the row a handler has read (`seen`) until its write.  An UPDATE by id   *)
(* of a row deleted meanwhile touches nothing, a DELETE of a row an order  *)
(* refers to is refused by the foreign key, and so is an order for a row   *)
(* that is gone.                                                           *)
(***************************************************************************)
EXTENDS Sequences, FiniteSets, Money

CONSTANTS
    Requests,       \* purchase_requests rows people create
    Reorders,       \* those that fulfilling a stock request drafts
    Total,          \* total_original of a request, fixed at creation
    Foreign,        \* the requests in a foreign currency; the others are in USD
    Rates,          \* rates finance may set for the foreign currency
    NoRate,         \* no rate on file yet
    Limit,          \* each decider's approval limit in USD (its role's threshold row)
    Unlimited,      \* max_amount_usd is null
    NoThreshold,    \* the role has no threshold row: it approves nothing
    NoOne,          \* approver_id is null
    Submitters,     \* handlers that run create and submit
    Deciders,       \* handlers that run decide
    Cancellers,     \* handlers that run cancel
    Removers,       \* handlers that run remove
    Buyers,         \* handlers that run createFromRequest
    OrderTotals,    \* the totals a buyer may enter
    MaxOrders       \* bound: purchase orders raised in all

ASSUME PurchaseRequestsAssumption ==
    /\ Reorders \subseteq Requests \ Foreign
    /\ Total \in [Requests -> Nat] /\ \A r \in Reorders : Total[r] = 0
    /\ Rates \subseteq Nat \ {0} /\ NoRate \notin Nat
    /\ Limit \in [Deciders -> Nat \cup {Unlimited, NoThreshold}]
    /\ NoOne \notin Deciders
    /\ OrderTotals \subseteq Nat /\ MaxOrders \in Nat

VARIABLES
    pr,             \* the purchase_requests rows
    orders,         \* the purchase_orders rows, in commit order
    rate,           \* the foreign currency's current rate
    at              \* where each handler stands, and the row it has read

vars == <<pr, orders, rate, at>>

Handlers == Submitters \cup Deciders \cup Cancellers \cup Removers \cup Buyers
Statuses == {"absent", "draft", "pending", "approved", "rejected",
             "cancelled", "converted", "deleted"}
Row == [status : Statuses, rate : Nat \ {0}, totalUsd : Nat, approver : Deciders \cup {NoOne}]
Steps == {"creating", "submitting", "rated", "approving", "rejecting",
          "cancelling", "removing", "ordering"}
Idle == [step |-> "idle"]

TypeOK ==
    /\ pr \in [Requests -> Row]
    /\ orders \in Seq([request : Requests, rate : Nat \ {0}, totalUsd : Nat])
    /\ rate \in Rates \cup {NoRate}
    /\ at \in [Handlers -> {Idle} \cup [step : Steps, request : Requests, seen : Row]]

Init ==
    /\ pr = [r \in Requests |->
                [status |-> "absent", rate |-> 1, totalUsd |-> 0, approver |-> NoOne]]
    /\ orders = <<>>
    /\ rate = NoRate
    /\ at = [h \in Handlers |-> Idle]

-----------------------------------------------------------------------------

\* getCurrentRate: USD is always 1; a foreign currency may have no rate.
CurrentRate(r) == IF r \in Foreign THEN rate ELSE 1

\* The row that create inserts and submit relocks: the rate and the USD total together.
AtRate(row, r, q) == [row EXCEPT !.rate = q, !.totalUsd = ToUsd(Total[r], q)]

\* thresholds.check: may this decider approve this amount?
Covers(h, usd) == IF Limit[h] \in {Unlimited, NoThreshold}
                    THEN Limit[h] = Unlimited
                    ELSE usd <= Limit[h]

Doing(h, step) == at[h] # Idle /\ at[h].step = step
Goto(h, step, r, seen) == at' = [at EXCEPT ![h] = [step |-> step, request |-> r, seen |-> seen]]
Leave(h) == at' = [at EXCEPT ![h] = Idle]

\* findOneForActor, then the guard on the status it returned.
Read(h, step, r, statuses) ==
    /\ at[h] = Idle
    /\ pr[r].status \in statuses
    /\ Goto(h, step, r, pr[r])
    /\ UNCHANGED <<pr, orders, rate>>

\* UPDATE ... WHERE id: whatever the row holds by now, if it is still there.
UpdateRow(h, row) ==
    /\ pr' = IF pr[at[h].request].status = "deleted" THEN pr
             ELSE [pr EXCEPT ![at[h].request] = row]
    /\ Leave(h)
    /\ UNCHANGED <<orders, rate>>

Referenced(r) == \E k \in 1..Len(orders) : orders[k].request = r

-----------------------------------------------------------------------------

\* create: the rate is read, and the row is inserted at that rate.
ReadRateForCreate(h, r, status) ==
    /\ at[h] = Idle
    /\ r \notin Reorders
    /\ pr[r].status = "absent"
    /\ CurrentRate(r) # NoRate
    /\ Goto(h, "creating", r, AtRate([pr[r] EXCEPT !.status = status], r, CurrentRate(r)))
    /\ UNCHANGED <<pr, orders, rate>>

Create(h) ==
    /\ Doing(h, "creating")
    /\ pr[at[h].request].status = "absent"
    /\ UpdateRow(h, at[h].seen)

\* createReorderDraft: a zero-priced USD draft, in the transaction of fulfil.
CreateReorderDraft(r) ==
    /\ r \in Reorders
    /\ pr[r].status = "absent"
    /\ pr' = [pr EXCEPT ![r].status = "draft"]
    /\ UNCHANGED <<orders, rate, at>>

\* submit: the draft is read, then today's rate, and then the row is written.
ReadForSubmit(h, r) == Read(h, "submitting", r, {"draft"})

LockRate(h) ==
    /\ Doing(h, "submitting")
    /\ LET r == at[h].request IN
       /\ CurrentRate(r) # NoRate
       /\ Goto(h, "rated", r, AtRate(at[h].seen, r, CurrentRate(r)))
    /\ UNCHANGED <<pr, orders, rate>>

\* Slip: the rate is relocked and the USD total left as it was.
SubmitRateOnly(h) ==
    /\ Doing(h, "rated")
    /\ UpdateRow(h, [pr[at[h].request] EXCEPT !.status = "pending", !.rate = at[h].seen.rate])

Submit(h) ==
    /\ Doing(h, "rated")
    /\ LET r == at[h].request
           seen == at[h].seen
       IN UpdateRow(h, [pr[r] EXCEPT !.status = "pending", !.rate = seen.rate,
                                     !.totalUsd = seen.totalUsd])

\* Slip: the permission is taken for the limit.
ReadForApprovalUnlimited(h, r) == Read(h, "approving", r, {"pending"})

\* decide: the limit is checked against the total that was read.
ReadForApproval(h, r) ==
    /\ Covers(h, pr[r].totalUsd)
    /\ Read(h, "approving", r, {"pending"})

ReadForRejection(h, r) == Read(h, "rejecting", r, {"pending"})

Decide(h) == \E decision \in {"approved", "rejected"} :
    /\ Doing(h, IF decision = "approved" THEN "approving" ELSE "rejecting")
    /\ UpdateRow(h, [pr[at[h].request] EXCEPT !.status = decision, !.approver = h])

\* Slip: whatever is not closed can be cancelled.
ReadForCancelConverted(h, r) ==
    Read(h, "cancelling", r, {"draft", "pending", "approved", "converted"})

ReadForCancel(h, r) == Read(h, "cancelling", r, {"draft", "pending", "approved"})

\* Slip: a status the enum does not have.
CancelWrongEnum(h) ==
    /\ Doing(h, "cancelling")
    /\ UpdateRow(h, [pr[at[h].request] EXCEPT !.status = "closed"])

Cancel(h) ==
    /\ Doing(h, "cancelling")
    /\ UpdateRow(h, [pr[at[h].request] EXCEPT !.status = "cancelled"])

\* Slip: whatever can be cancelled can be deleted.
ReadForRemoveApproved(h, r) ==
    Read(h, "removing", r, {"draft", "pending", "approved", "cancelled", "rejected"})

ReadForRemove(h, r) ==
    Read(h, "removing", r, {"draft", "pending", "cancelled", "rejected"})

\* Slip: the foreign key does not protect the request.
RemoveReferenced(h) ==
    /\ Doing(h, "removing")
    /\ UpdateRow(h, [pr[at[h].request] EXCEPT !.status = "deleted"])

\* DELETE ... WHERE id; the foreign key keeps a row an order refers to.
Remove(h) ==
    /\ Doing(h, "removing")
    /\ IF Referenced(at[h].request)
         THEN Leave(h) /\ UNCHANGED <<pr, orders, rate>>
         ELSE UpdateRow(h, [pr[at[h].request] EXCEPT !.status = "deleted"])

\* Slip: a pending request can become an order.
ReadForOrderPending(h, r) == Read(h, "ordering", r, {"pending", "approved"})

\* createFromRequest: the request is read before the transaction ...
ReadForOrder(h, r) == Read(h, "ordering", r, {"approved"})

\* Slip: the order takes today's rate.
CreateOrderToday(h, total) ==
    /\ Doing(h, "ordering")
    /\ Len(orders) < MaxOrders
    /\ LET r == at[h].request
           q == CurrentRate(r)
       IN /\ pr[r].status # "deleted"
          /\ orders' = Append(orders, [request |-> r, rate |-> q, totalUsd |-> ToUsd(total, q)])
          /\ pr' = [pr EXCEPT ![r].status = "converted"]
    /\ Leave(h)
    /\ UNCHANGED rate

\* ... which inserts the order at the rate that was read and flips the request.
CreateOrder(h, total) ==
    /\ Doing(h, "ordering")
    /\ Len(orders) < MaxOrders
    /\ LET r == at[h].request
           q == at[h].seen.rate
       IN /\ pr[r].status # "deleted"
          /\ orders' = Append(orders, [request |-> r, rate |-> q, totalUsd |-> ToUsd(total, q)])
          /\ pr' = [pr EXCEPT ![r].status = "converted"]
    /\ Leave(h)
    /\ UNCHANGED rate

\* setManualRate, for today.
SetRate(q) ==
    /\ rate # q
    /\ rate' = q
    /\ UNCHANGED <<pr, orders, at>>

\* A refusal after the read (no rate on file, an order for a deleted request),
\* a database error or a crash: nothing has been written yet.
Abandon(h) ==
    /\ at[h] # Idle
    /\ Leave(h)
    /\ UNCHANGED <<pr, orders, rate>>

-----------------------------------------------------------------------------

Next ==
    \/ \E r \in Requests : CreateReorderDraft(r)
    \/ \E q \in Rates : SetRate(q)
    \/ \E h \in Submitters :
          \/ Create(h) \/ LockRate(h) \/ Submit(h)
          \/ \E r \in Requests :
                ReadForSubmit(h, r) \/ \E s \in {"draft", "pending"} : ReadRateForCreate(h, r, s)
    \/ \E h \in Deciders :
          Decide(h) \/ \E r \in Requests : ReadForApproval(h, r) \/ ReadForRejection(h, r)
    \/ \E h \in Cancellers : Cancel(h) \/ \E r \in Requests : ReadForCancel(h, r)
    \/ \E h \in Removers : Remove(h) \/ \E r \in Requests : ReadForRemove(h, r)
    \/ \E h \in Buyers :
          \/ \E total \in OrderTotals : CreateOrder(h, total)
          \/ \E r \in Requests : ReadForOrder(h, r)
    \/ \E h \in Handlers : Abandon(h)

Spec == Init /\ [][Next]_vars

-----------------------------------------------------------------------------
(* Properties. *)

\* The USD total of a request always follows from the rate locked on it: the two
\* are written together, however many submits race.
UsdFollowsRate == \A r \in Requests :
    pr[r].status # "absent" => pr[r].totalUsd = ToUsd(Total[r], pr[r].rate)

\* An order's request is never deleted from under it (remove's status guard, and
\* the foreign key when the guard's answer is out of date).
OrderHasRequest == \A k \in 1..Len(orders) :
    pr[orders[k].request].status \notin {"absent", "deleted"}

\* No order without a decision on its request.
OrderWasDecided == \A k \in 1..Len(orders) : pr[orders[k].request].approver # NoOne

\* "The order inherits the rate the request locked, not today's": the two rates
\* agree, and would for good if no submit came after the order.
OrderAtLockedRate == \A k \in 1..Len(orders) :
    orders[k].rate = pr[orders[k].request].rate

\* C2: an approved request's USD total is within its approver's limit.
ApprovedWithinLimit == \A r \in Requests :
    pr[r].status = "approved" => Covers(pr[r].approver, pr[r].totalUsd)

\* No two handlers are between submit's read and its write of one request.
Submitting(h) == Doing(h, "submitting") \/ Doing(h, "rated")
SubmissionsApart == \A g, h \in Submitters :
    Submitting(g) /\ Submitting(h) /\ at[g].request = at[h].request => g = h

\* Neither holds of every behaviour: a second submit that still believes in the draft
\* moves the rate and the total of a request already decided or ordered.  Both hold
\* as long as no two submissions of one request overlap.
LimitUnlessResubmitted == []SubmissionsApart => []ApprovedWithinLimit
RateUnlessResubmitted == []SubmissionsApart => []OrderAtLockedRate

\* "A converted request cannot be cancelled", nor decided again: one that has an
\* order reads converted, neither closed under its order nor put back among those
\* an order can be raised from.
OrderedIsConverted == \A k \in 1..Len(orders) : pr[orders[k].request].status = "converted"

\* No two handlers are inside an operation on one request.
OneAtATime == \A g, h \in Handlers :
    at[g] # Idle /\ at[h] # Idle /\ at[g].request = at[h].request => g = h

\* A cancellation or a decision that read the request before it was converted breaks
\* that.  If operations on one request never overlap, the guards are enough.
ConvertedUnlessOverlapped == []OneAtATime => []OrderedIsConverted

\* "only an approved request can become an order"
OrderFromApproved == [][Len(orders') > Len(orders) =>
    pr[orders'[Len(orders')].request].status = "approved"]_vars

\* While requests are served one at a time, the status guards add up to the
\* lifecycle: one submission, one decision, one order.
OrdersOf(r) == Cardinality({k \in 1..Len(orders) : orders[k].request = r})
Lifecycle == INSTANCE RequestLifecycle WITH
    stage <- [r \in Requests |-> pr[r].status],
    ordered <- [r \in Requests |-> OrdersOf(r)]
FollowsLifecycle == Lifecycle!Spec

=============================================================================
