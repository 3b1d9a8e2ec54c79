-------------------------- MODULE MCStockRequests --------------------------
(* Finite instances of StockRequests for TLC. *)
EXTENDS StockRequests, TLC

CONSTANTS approver, rejecter, f1, f2, adjuster, r1, r2, item

\* Three on hand and two requests for two: each fits alone, together they
\* overdraw, and the first one already reaches the reorder point.
MCItemOf == [r \in Requests |-> item]
MCQtyOf == [r \in Requests |-> 2]
MCQtyOne == [r \in Requests |-> 1]
MCOpeningStock == [i \in Items |-> 3]
MCReorderPoint == [i \in Items |-> 1]
MCReorderQty == [i \in Items |-> 5]
MCHandlers == Approvers \cup Rejecters \cup Fulfillers \cup Adjusters
MCRefs == Requests \cup Items
MCDeltas == {-2, -1, 1, 2}
MCAdjustments == {-1, 2}

=============================================================================
