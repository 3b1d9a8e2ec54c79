----------------------------- MODULE MCPayments -----------------------------
(* Finite instances of Payments for TLC. *)
EXTENDS Payments, TLC

CONSTANTS h1, h2, po, stationery

\* An order of 10 USD, and payments of 13 units of the foreign currency: 7 USD at
\* one rate (6.5, rounded up) and 4 at the other (4.33).  One of each is exactly
\* the tolerance, two of the larger are above it, two of the smaller below it.
MCTotalUsd == [o \in Orders |-> 10]
MCOrderAccount == [o \in Orders |-> stationery]
MCAmounts == {13}
MCRates == {2, 3}
MCOneRate == {2}
MCTolerances == {0, 10}
MCNoTolerance == {0}

\* Nothing tells the handlers apart.
MCSymmetry == Permutations(Handlers)

=============================================================================
