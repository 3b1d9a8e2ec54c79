----------------------------- MODULE Receiving -----------------------------
(***************************************************************************)
(* Goods receipts: claims against purchase order lines (ClaimsService),    *)
(* the order's line and status (PurchaseOrdersService.receive, cancel) and *)
(* the stock they bring in (StockLedger).                                  *)
(*                                                                         *)
(* confirm is one READ COMMITTED transaction that locks, in this order,    *)
(* the claim, its order line, the order and the item.  Its writes are kept *)
(* in `rx` and `moving` and reach the committed rows only with the commit, *)
(* so another transaction counting the outstanding lines in between sees   *)
(* the old ones.  Rejecting a claim and cancelling an order are a read, a  *)
(* check and a later update that only waits for the row lock.              *)
(***************************************************************************)
EXTENDS StockLedger, FiniteSets, Functions

CONSTANTS
    Orders, Lines, OrderOf, QtyOrdered,
    Claims, LineOf, ClaimQty, ItemOf,
    TolerancePct,
    Confirmers,     \* handlers that run claims.confirm
    Rejecters,      \* handlers that run claims.reject
    Cancellers      \* handlers that run purchaseOrders.cancel

VARIABLES
    claimStatus,    \* inventory_claims.status, or "absent" before create
    qtyClaimed,     \* purchase_order_items.qty_claimed
    poStatus,       \* purchase_orders.status
    rx              \* where each handler stands, and what its transaction will write

vars == <<ledgerVars, claimStatus, qtyClaimed, poStatus, rx>>

\* The atomic receipt, over the committed rows.
Atomic == INSTANCE Receipts

ASSUME ReceivingAssumption ==
    /\ OrderOf \in [Lines -> Orders] /\ QtyOrdered \in [Lines -> Nat \ {0}]
    /\ LineOf \in [Claims -> Lines] /\ ItemOf \in [Claims -> Items]
    /\ ClaimQty \in [Claims -> Nat \ {0}]
    /\ TolerancePct \in Nat
    /\ Handlers = Confirmers \cup Rejecters \cup Cancellers
    /\ Claims \subseteq Refs
    /\ \A c \in Claims : ClaimQty[c] \in Deltas

ClaimStatuses == {"absent", "pending", "confirmed", "rejected"}
OrderStatuses == {"open", "partial", "complete", "cancelled"}
Idle == [step |-> "idle"]

TypeOK ==
    /\ LedgerTypeOK
    /\ claimStatus \in [Claims -> ClaimStatuses]
    /\ qtyClaimed \in [Lines -> Nat]
    /\ poStatus \in [Orders -> OrderStatuses]
    /\ rx \in [Handlers ->
          {Idle}
          \cup [step : {"claim", "rejecting"}, claim : Claims]
          \cup [step : {"line", "order"}, claim : Claims, qty : Nat]
          \cup [step : {"item"}, claim : Claims, qty : Nat, po : OrderStatuses]
          \cup [step : {"cancelling"}, order : Orders]]

Init ==
    /\ LedgerInit
    /\ claimStatus = [c \in Claims |-> "absent"]
    /\ qtyClaimed = [l \in Lines |-> 0]
    /\ poStatus = [o \in Orders |-> "open"]
    /\ rx = [h \in Handlers |-> Idle]

-----------------------------------------------------------------------------
(* Row locks: what a transaction holds follows from how far it has come.   *)

At(h, steps) == rx[h].step \in steps

ClaimLocked(c) == \E h \in Handlers :
    At(h, {"claim", "line", "order", "item"}) /\ rx[h].claim = c
LineLocked(l) == \E h \in Handlers :
    At(h, {"line", "order", "item"}) /\ LineOf[rx[h].claim] = l
OrderLocked(o) == \E h \in Handlers :
    At(h, {"order", "item"}) /\ OrderOf[LineOf[rx[h].claim]] = o

Leave(h) == rx' = [rx EXCEPT ![h] = Idle]

\* The received quantities as h's transaction sees them: the committed rows
\* and its own write.
SeenBy(h) == [qtyClaimed EXCEPT ![LineOf[rx[h].claim]] = rx[h].qty]

-----------------------------------------------------------------------------
(* Claims. *)

\* create: the claimant's form is refused when the claim no longer fits.  The
\* read and the insert are one step: a claim filed on an older read could as
\* well have been filed then.
File(c) ==
    /\ claimStatus[c] = "absent"
    /\ Atomic!WithinTolerance(LineOf[c], qtyClaimed[LineOf[c]] + ClaimQty[c])
    /\ claimStatus' = [claimStatus EXCEPT ![c] = "pending"]
    /\ UNCHANGED <<ledgerVars, qtyClaimed, poStatus, rx>>

\* Slip: the claim is read without FOR UPDATE.
LockClaimUnlocked(h, c) ==
    /\ rx[h] = Idle
    /\ claimStatus[c] = "pending"
    /\ rx' = [rx EXCEPT ![h] = [step |-> "claim", claim |-> c]]
    /\ UNCHANGED <<ledgerVars, claimStatus, qtyClaimed, poStatus>>

\* confirm: the claim row, so that it is confirmed once.
LockClaim(h, c) ==
    /\ rx[h] = Idle
    /\ ~ClaimLocked(c)
    /\ claimStatus[c] = "pending"
    /\ rx' = [rx EXCEPT ![h] = [step |-> "claim", claim |-> c]]
    /\ UNCHANGED <<ledgerVars, claimStatus, qtyClaimed, poStatus>>

\* Slip: the check made when the claim was filed is trusted.
LockLineUnchecked(h) ==
    /\ At(h, {"claim"})
    /\ LET c == rx[h].claim
           l == LineOf[c]
       IN /\ ~LineLocked(l)
          /\ rx' = [rx EXCEPT ![h] = [step |-> "line", claim |-> c,
                                      qty |-> qtyClaimed[l] + ClaimQty[c]]]
    /\ UNCHANGED <<ledgerVars, claimStatus, qtyClaimed, poStatus>>

\* Slip: the line is read without FOR UPDATE.
LockLineUnlocked(h) ==
    /\ At(h, {"claim"})
    /\ LET c == rx[h].claim
           l == LineOf[c]
           qty == qtyClaimed[l] + ClaimQty[c]
       IN /\ Atomic!WithinTolerance(l, qty)
          /\ rx' = [rx EXCEPT ![h] = [step |-> "line", claim |-> c, qty |-> qty]]
    /\ UNCHANGED <<ledgerVars, claimStatus, qtyClaimed, poStatus>>

\* receive: the order line, the over-receipt guard on what it holds now, and
\* the line's new quantity.
LockLine(h) ==
    /\ At(h, {"claim"})
    /\ LET c == rx[h].claim
           l == LineOf[c]
           qty == qtyClaimed[l] + ClaimQty[c]
       IN /\ ~LineLocked(l)
          /\ Atomic!WithinTolerance(l, qty)
          /\ rx' = [rx EXCEPT ![h] = [step |-> "line", claim |-> c, qty |-> qty]]
    /\ UNCHANGED <<ledgerVars, claimStatus, qtyClaimed, poStatus>>

\* Slip: an over-receipt neither fails nor goes on.
RefuseOverReceiptNever(h) == At(h, {"claim"}) /\ FALSE

\* The guard fails: the transaction rolls back and the claim stays pending.
RefuseOverReceipt(h) ==
    /\ At(h, {"claim"})
    /\ LET c == rx[h].claim
           l == LineOf[c]
       IN /\ ~LineLocked(l)
          /\ ~Atomic!WithinTolerance(l, qtyClaimed[l] + ClaimQty[c])
    /\ Leave(h)
    /\ UNCHANGED <<ledgerVars, claimStatus, qtyClaimed, poStatus>>

\* Slip: the order is read without FOR UPDATE.
LockOrderUnlocked(h) ==
    /\ At(h, {"line"})
    /\ rx' = [rx EXCEPT ![h] = [step |-> "order", claim |-> rx[h].claim, qty |-> rx[h].qty]]
    /\ UNCHANGED <<ledgerVars, claimStatus, qtyClaimed, poStatus>>

LockOrder(h) ==
    /\ At(h, {"line"})
    /\ ~OrderLocked(OrderOf[LineOf[rx[h].claim]])
    /\ rx' = [rx EXCEPT ![h] = [step |-> "order", claim |-> rx[h].claim, qty |-> rx[h].qty]]
    /\ UNCHANGED <<ledgerVars, claimStatus, qtyClaimed, poStatus>>

\* Slip: the outstanding lines are counted outside the transaction, without its write.
RollUpBlind(h) ==
    /\ At(h, {"order"})
    /\ LET c == rx[h].claim
       IN rx' = [rx EXCEPT ![h] = [step |-> "item", claim |-> c, qty |-> rx[h].qty,
                     po |-> Atomic!RolledUp(OrderOf[LineOf[c]], qtyClaimed)]]
    /\ UNCHANGED <<ledgerVars, claimStatus, qtyClaimed, poStatus>>

\* The outstanding lines are counted under the order lock.
RollUp(h) ==
    /\ At(h, {"order"})
    /\ LET c == rx[h].claim
       IN rx' = [rx EXCEPT ![h] = [step |-> "item", claim |-> c, qty |-> rx[h].qty,
                     po |-> Atomic!RolledUp(OrderOf[LineOf[c]], SeenBy(h))]]
    /\ UNCHANGED <<ledgerVars, claimStatus, qtyClaimed, poStatus>>

MoveStock(h) ==
    /\ At(h, {"item"})
    /\ LET c == rx[h].claim IN BeginMovement(h, ItemOf[c], ClaimQty[c], c)
    /\ UNCHANGED <<claimStatus, qtyClaimed, poStatus, rx>>

\* The commit: every row the transaction wrote, and every lock it held.
Confirm(h) ==
    /\ At(h, {"item"})
    /\ CommitMovement(h)
    /\ LET c == rx[h].claim
           l == LineOf[c]
       IN /\ claimStatus' = [claimStatus EXCEPT ![c] = "confirmed"]
          /\ qtyClaimed' = [qtyClaimed EXCEPT ![l] = rx[h].qty]
          /\ poStatus' = [poStatus EXCEPT ![OrderOf[l]] = rx[h].po]
    /\ Leave(h)

\* reject: reads a pending claim; the update overwrites what is there by then.
ReadForRejection(h, c) ==
    /\ rx[h] = Idle
    /\ claimStatus[c] = "pending"
    /\ rx' = [rx EXCEPT ![h] = [step |-> "rejecting", claim |-> c]]
    /\ UNCHANGED <<ledgerVars, claimStatus, qtyClaimed, poStatus>>

Reject(h) ==
    /\ At(h, {"rejecting"})
    /\ ~ClaimLocked(rx[h].claim)
    /\ claimStatus' = [claimStatus EXCEPT ![rx[h].claim] = "rejected"]
    /\ Leave(h)
    /\ UNCHANGED <<ledgerVars, qtyClaimed, poStatus>>

-----------------------------------------------------------------------------
(* Orders. *)

\* PurchaseOrdersService.cancel: refused when cancelled or complete as read.
ReadForCancel(h, o) ==
    /\ rx[h] = Idle
    /\ poStatus[o] \notin {"cancelled", "complete"}
    /\ rx' = [rx EXCEPT ![h] = [step |-> "cancelling", order |-> o]]
    /\ UNCHANGED <<ledgerVars, claimStatus, qtyClaimed, poStatus>>

\* Slip: the status of another document's enum.
CancelWrongEnum(h) ==
    /\ At(h, {"cancelling"})
    /\ ~OrderLocked(rx[h].order)
    /\ poStatus' = [poStatus EXCEPT ![rx[h].order] = "rejected"]
    /\ Leave(h)
    /\ UNCHANGED <<ledgerVars, claimStatus, qtyClaimed>>

Cancel(h) ==
    /\ At(h, {"cancelling"})
    /\ ~OrderLocked(rx[h].order)
    /\ poStatus' = [poStatus EXCEPT ![rx[h].order] = "cancelled"]
    /\ Leave(h)
    /\ UNCHANGED <<ledgerVars, claimStatus, qtyClaimed>>

\* A database error or a crash at any await: nothing of it was committed.
Abandon(h) ==
    /\ rx[h] # Idle
    /\ Leave(h)
    /\ moving' = [moving EXCEPT ![h] = NoMovement]
    /\ UNCHANGED <<stockQty, ledger, claimStatus, qtyClaimed, poStatus>>

-----------------------------------------------------------------------------

\* What a handler inside a request does next.
Continue(h) ==
    \/ LockLine(h) \/ RefuseOverReceipt(h) \/ LockOrder(h) \/ RollUp(h)
    \/ MoveStock(h) \/ Confirm(h)
    \/ Reject(h)
    \/ Cancel(h)

Next ==
    \/ \E c \in Claims : File(c)
    \/ \E h \in Confirmers, c \in Claims : LockClaim(h, c)
    \/ \E h \in Rejecters, c \in Claims : ReadForRejection(h, c)
    \/ \E h \in Cancellers, o \in Orders : ReadForCancel(h, o)
    \/ \E h \in Handlers : Continue(h) \/ Abandon(h)

\* As in StockRequests: queries return, and the waiters of a row are queued.
Fairness == \A h \in Handlers : SF_vars(Continue(h))

Spec == Init /\ [][Next]_vars
FairSpec == Spec /\ Fairness

-----------------------------------------------------------------------------
(* Properties. *)

\* confirm, with its four locks and its writes held back to the commit, is one
\* atomic receipt; nothing else touches lines, stock or ledger.
AtomicReceipts == Atomic!Spec

\* The over-receipt guard (C3): however many claims were filed while each still
\* fitted, and whichever are confirmed at the same time, a line is never
\* received past its ordered quantity plus the tolerance.
NeverOverReceived == \A l \in Lines : Atomic!WithinTolerance(l, qtyClaimed[l])

\* The ledger rows a claim has caused.
Movements(c) == {k \in 1..Len(ledger[ItemOf[c]]) : ledger[ItemOf[c]][k].ref = c}
Received(c) == Movements(c) # {}

\* "The claim row is locked first so it can only be confirmed once": one claim
\* moves stock at most once, and a confirmed claim did.
ReceivedOnce == \A c \in Claims :
    /\ Cardinality(Movements(c)) <= 1
    /\ claimStatus[c] = "confirmed" => Received(c)

ReceivedOn(l) == {c \in Claims : LineOf[c] = l /\ Received(c)}

\* No receipt is lost: what a line has received is what the ledger says of its claims.
ReceiptsAccounted == \A l \in Lines :
    qtyClaimed[l] = SumFunctionOnSet(ClaimQty, ReceivedOn(l))

\* The order's status follows its lines at every commit (T3): open before the
\* first receipt, complete exactly when no line is short, unless cancelled.
\* Two confirmations of the last two lines at once must not both see the
\* other's line short.
OrderFollowsLines == \A o \in Orders : poStatus[o] # "cancelled" =>
    poStatus[o] = IF \A l \in Lines : OrderOf[l] = o => qtyClaimed[l] = 0 THEN "open"
                  ELSE IF Atomic!NothingOutstanding(o, qtyClaimed) THEN "complete"
                  ELSE "partial"

\* A claim is decided once: "pending -> confirmed | rejected".
DecidedOnce == [][\A c \in Claims :
    claimStatus[c] \in {"confirmed", "rejected"} => claimStatus'[c] = claimStatus[c]]_vars

\* No confirmation, rejection or cancellation waits for ever on a row lock.
HandlersFinish == \A h \in Handlers : rx[h] # Idle ~> rx[h] = Idle

=============================================================================
