---------------------------- MODULE MCReceiving ----------------------------
(* Finite instances of Receiving for TLC. *)
EXTENDS Receiving, TLC

CONSTANTS h1, h2, clerk, po, l1, l2, c1, c2, c3, c4, item

\* One order of two lines for one item, received within 50 %: l1 takes at most 3
\* of its 2.  c1 brings one of l1, c2 and c3 two each: each fits when filed, c1
\* with either of the others is exactly the tolerance, c2 and c3 together
\* over-receive.  c4 completes l2.
MCOrderOf == [l \in Lines |-> po]
MCQtyOrdered == (l1 :> 2) @@ (l2 :> 1)
MCLineOf == [c \in Claims |-> IF c = c4 THEN l2 ELSE l1]
MCClaimQty == [c \in Claims |-> IF c \in {c2, c3} THEN 2 ELSE 1]
MCItemOf == [c \in Claims |-> item]
MCOpeningStock == [i \in Items |-> 0]
MCHandlers == Confirmers \cup Rejecters \cup Cancellers
MCDeltas == {1, 2}

=============================================================================
