------------------------------ MODULE MCSales ------------------------------
(* A finite instance of Sales for TLC. *)
EXTENDS Sales, TLC

CONSTANTS h1, h2, c1, c2

\* At 2 to the dollar a total of 2 is worth 1 USD, and so is an instalment of 1
\* (0.5, rounded up): the second is worth the 0 that is left.
MCNewForms == {[type |-> "quotation", customer |-> c1, net |-> 1, total |-> 2]}
MCEditForms == {[type |-> "invoice", customer |-> c2, net |-> 1, total |-> 2]}
MCRates == {2}
MCAmounts == {1}

=============================================================================
