----------------------------- MODULE Receivable -----------------------------
(***************************************************************************)
(* What invoicing promises of one receivable: it is billed once, its       *)
(* instalments never pass what is due, and when the last one is taken      *)
(* nothing is left of it, neither in the customer's currency nor in the    *)
(* ledger.  An instalment is valued at a rounded rate, so what the ledger  *)
(* still shows may drift from what is due until the last one takes the     *)
(* rest.                                                                   *)
(***************************************************************************)
EXTENDS Integers

CONSTANT Ids            \* the documents that may become a receivable

VARIABLES
    stage,              \* unbilled, open, settled, or overtaken by a stale write
    due,                \* still due, in the customer's currency
    owed                \* what account 1100 shows for it, in USD

vars == <<stage, due, owed>>

Init ==
    /\ stage = [i \in Ids |-> "unbilled"]
    /\ due = [i \in Ids |-> 0]
    /\ owed = [i \in Ids |-> 0]

\* Nothing of f changes but what it has at i.
OnlyAt(f, i) == f' = [f EXCEPT ![i] = f'[i]]

Bill(i) ==
    /\ stage[i] = "unbilled"
    /\ stage' = [stage EXCEPT ![i] = "open"]
    /\ OnlyAt(due, i) /\ due'[i] \in Nat
    /\ OnlyAt(owed, i) /\ owed'[i] \in Nat

Collect(i) ==
    /\ stage[i] = "open"
    /\ OnlyAt(due, i) /\ 0 < due'[i] /\ due'[i] < due[i]
    /\ OnlyAt(owed, i) /\ owed'[i] <= owed[i]
    /\ UNCHANGED stage

Settle(i) ==
    /\ stage[i] = "open"
    /\ due[i] > 0
    /\ stage' = [stage EXCEPT ![i] = "settled"]
    /\ due' = [due EXCEPT ![i] = 0]
    /\ owed' = [owed EXCEPT ![i] = 0]

\* A write that trusted an out-of-date read: nothing is promised from here on.
Overtake(i) ==
    /\ stage[i] # "overtaken"
    /\ stage' = [stage EXCEPT ![i] = "overtaken"]
    /\ due' = [due EXCEPT ![i] = 0]
    /\ owed' = [owed EXCEPT ![i] = 0]

Next == \E i \in Ids : Bill(i) \/ Collect(i) \/ Settle(i) \/ Overtake(i)

Spec == Init /\ [][Next]_vars

=============================================================================
