------------------------------ MODULE Receipts ------------------------------
(***************************************************************************)
(* What confirming a goods receipt promises, with no transactions, locks   *)
(* or handlers: one indivisible step that moves the claim, the order line, *)
(* the order, the stock and the ledger together.  Receiving, where         *)
(* ClaimsService.confirm takes four row locks one after another, is shown  *)
(* to implement it.                                                        *)
(***************************************************************************)
EXTENDS Integers, Sequences

CONSTANTS
    Items,          \* inventory_items rows
    OpeningStock,   \* stock of an item before its first ledger row
    Orders,         \* purchase_orders rows
    Lines,          \* purchase_order_items rows
    OrderOf,        \* the order a line belongs to
    QtyOrdered,     \* purchase_order_items.qty_ordered
    Claims,         \* inventory_claims rows that can be filed
    LineOf,         \* the line a claim receives against
    ClaimQty,       \* inventory_claims.qty_claimed
    ItemOf,         \* the item it receives into
    TolerancePct    \* receipt_tolerance_pct, in percent

VARIABLES claimStatus, qtyClaimed, poStatus, stockQty, ledger

receiptVars == <<claimStatus, qtyClaimed, poStatus, stockQty, ledger>>

\* qty stays within the ordered quantity of line l plus the tolerance.
WithinTolerance(l, qty) == 100 * qty <= QtyOrdered[l] * (100 + TolerancePct)

\* An order no line of which is short, were the received quantities `qtys`.
NothingOutstanding(o, qtys) ==
    \A l \in Lines : OrderOf[l] = o => qtys[l] >= QtyOrdered[l]

\* The status an order takes from its lines; a cancelled order keeps its own.
RolledUp(o, qtys) ==
    IF poStatus[o] = "cancelled" THEN "cancelled"
    ELSE IF NothingOutstanding(o, qtys) THEN "complete" ELSE "partial"

Init ==
    /\ claimStatus = [c \in Claims |-> "absent"]
    /\ qtyClaimed = [l \in Lines |-> 0]
    /\ poStatus = [o \in Orders |-> "open"]
    /\ stockQty = OpeningStock
    /\ ledger = [i \in Items |-> <<>>]

\* Filing a claim against a line, refused up front when it cannot fit.
File(c) ==
    /\ claimStatus[c] = "absent"
    /\ WithinTolerance(LineOf[c], qtyClaimed[LineOf[c]] + ClaimQty[c])
    /\ claimStatus' = [claimStatus EXCEPT ![c] = "pending"]
    /\ UNCHANGED <<qtyClaimed, poStatus, stockQty, ledger>>

Confirm(c) ==
    LET l == LineOf[c]
        o == OrderOf[l]
        i == ItemOf[c]
    IN /\ claimStatus[c] = "pending"
       /\ WithinTolerance(l, qtyClaimed[l] + ClaimQty[c])
       /\ claimStatus' = [claimStatus EXCEPT ![c] = "confirmed"]
       /\ qtyClaimed' = [qtyClaimed EXCEPT ![l] = @ + ClaimQty[c]]
       /\ poStatus' = [poStatus EXCEPT ![o] = RolledUp(o, qtyClaimed')]
       /\ stockQty' = [stockQty EXCEPT ![i] = @ + ClaimQty[c]]
       /\ ledger' = [ledger EXCEPT ![i] = Append(@,
              [delta |-> ClaimQty[c], ref |-> c, balanceAfter |-> stockQty[i] + ClaimQty[c]])]

\* Rejecting a claim and cancelling an order are plain updates: what the
\* handler read before them is not part of what they promise.
Reject(c) ==
    /\ claimStatus[c] # "absent"
    /\ claimStatus' = [claimStatus EXCEPT ![c] = "rejected"]
    /\ UNCHANGED <<qtyClaimed, poStatus, stockQty, ledger>>

Cancel(o) ==
    /\ poStatus' = [poStatus EXCEPT ![o] = "cancelled"]
    /\ UNCHANGED <<claimStatus, qtyClaimed, stockQty, ledger>>

Next ==
    \/ \E c \in Claims : File(c) \/ Confirm(c) \/ Reject(c)
    \/ \E o \in Orders : Cancel(o)

Spec == Init /\ [][Next]_receiptVars

=============================================================================
