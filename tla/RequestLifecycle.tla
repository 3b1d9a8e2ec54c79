-------------------------- MODULE RequestLifecycle --------------------------
(***************************************************************************)
(* What the status guards of PurchaseRequestsService and of                *)
(* PurchaseOrdersService.createFromRequest promise together: every         *)
(* operation is one step from a status its guard names.                    *)
(***************************************************************************)
EXTENDS Integers

CONSTANTS Requests

VARIABLES
    stage,      \* the status of a request, or absent / deleted
    ordered     \* how many purchase orders were raised from it

vars == <<stage, ordered>>

Init ==
    /\ stage = [r \in Requests |-> "absent"]
    /\ ordered = [r \in Requests |-> 0]

Move(r, from, to) ==
    /\ stage[r] \in from
    /\ stage' = [stage EXCEPT ![r] = to]

Create(r) == \E s \in {"draft", "pending"} : Move(r, {"absent"}, s) /\ UNCHANGED ordered

Submit(r) == Move(r, {"draft"}, "pending") /\ UNCHANGED ordered

Decide(r) == \E d \in {"approved", "rejected"} : Move(r, {"pending"}, d) /\ UNCHANGED ordered

Cancel(r) == Move(r, {"draft", "pending", "approved"}, "cancelled") /\ UNCHANGED ordered

Remove(r) ==
    Move(r, {"draft", "pending", "cancelled", "rejected"}, "deleted") /\ UNCHANGED ordered

Convert(r) ==
    /\ Move(r, {"approved"}, "converted")
    /\ ordered' = [ordered EXCEPT ![r] = @ + 1]

Next == \E r \in Requests :
    \/ Create(r) \/ Submit(r) \/ Decide(r) \/ Cancel(r) \/ Remove(r) \/ Convert(r)

Spec == Init /\ [][Next]_vars

=============================================================================
