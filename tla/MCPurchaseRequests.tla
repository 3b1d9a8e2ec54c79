------------------------- MODULE MCPurchaseRequests -------------------------
(* Finite instances of PurchaseRequests for TLC. *)
EXTENDS PurchaseRequests, TLC

CONSTANTS s1, s2, d1, d2, c1, x1, b1, b2, r1, r2

\* 9 units at 2 to the dollar are 5 USD (4.5, rounded up), within a limit of 5;
\* at 1 to the dollar they are 9 USD, above it.
MCTotal == [r \in Requests |-> IF r \in Reorders THEN 0 ELSE 9]
MCRates == {1, 2}
MCLimit == [d \in Deciders |-> 5]
MCLimits == [d \in Deciders |-> IF d = d1 THEN 5 ELSE Unlimited]
MCOrderTotals == {9}

=============================================================================
