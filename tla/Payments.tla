------------------------------ MODULE Payments ------------------------------
(***************************************************************************)
(* Payments (PaymentsService.record), the order's payment status that they *)
(* roll up (PurchaseOrdersService), and the cash-basis journal entries     *)
(* that payments and manual income post (JournalService).                  *)
(*                                                                         *)
(* The rate and the tolerance are read before the transaction; the         *)
(* transaction takes the order row FOR UPDATE, so that the over-payment    *)
(* check, the insert and the roll-up of two payments for one order never   *)
(* interleave.  A payment with no order locks nothing.                     *)
(***************************************************************************)
EXTENDS Sequences, Functions, Money

CONSTANTS
    Handlers,       \* requests in flight
    Orders,         \* purchase_orders rows
    Direct,         \* in place of an order: a payment with none
    TotalUsd,       \* total_usd of an order, fixed at creation
    OrderAccount,   \* the order's expense account, or NoAccount
    NoAccount,      \* expense_account_id is null
    Accounts,       \* expense and income accounts a form may name
    Misc,           \* 6900 Miscellaneous
    Cash,           \* 1000 Cash / Bank
    Amounts,        \* amount_original entered, in the foreign currency
    Rates,          \* rates finance may set
    Tolerances,     \* payment_tolerance_pct an admin may set, in percent
    MaxTolerance,   \* no setting above it
    MaxEntries      \* bound: journal entries posted in all

ASSUME PaymentsAssumption ==
    /\ Direct \notin Orders /\ "income" \notin Orders \cup {Direct}
    /\ TotalUsd \in [Orders -> Nat]
    /\ OrderAccount \in [Orders -> Accounts \cup {NoAccount}]
    /\ NoAccount \notin Accounts /\ Cash \notin Accounts /\ Misc \in Accounts
    /\ Amounts \subseteq Nat \ {0} /\ Rates \subseteq Nat \ {0}
    /\ MaxTolerance \in Nat /\ Tolerances \subseteq 0..MaxTolerance
    /\ MaxEntries \in Nat

VARIABLES
    cancelled,      \* the orders whose status is cancelled
    paid,           \* SUM(amount_usd) of the committed payments of an order, or of none
    paymentStatus,  \* purchase_orders.payment_status
    journal,        \* journal_entries with their two lines, in commit order
    rate,           \* the current exchange rate
    tolerance,      \* the current payment_tolerance_pct
    at              \* where each handler stands

vars == <<cancelled, paid, paymentStatus, journal, rate, tolerance, at>>

PaymentStatuses == {"unpaid", "partial", "paid"}
Targets == Orders \cup {Direct}

\* Two lines of one amount, a debit and a credit.
Entry == [ref : Targets \cup {"income"}, debit : Accounts \cup {Cash},
          credit : Accounts \cup {Cash}, usd : Nat]

Idle == [step |-> "idle"]
Places ==
    {Idle}
    \cup [step : {"priced"}, target : Targets, account : Accounts \cup {NoAccount}, usd : Nat]
    \cup [step : {"ready", "locked"}, target : Targets, account : Accounts \cup {NoAccount},
          usd : Nat, tolerance : Tolerances]
    \cup [step : {"rolledUp"}, target : Orders, account : Accounts \cup {NoAccount},
          usd : Nat, status : PaymentStatuses]
    \cup [step : {"income"}, account : Accounts, usd : Nat]

TypeOK ==
    /\ cancelled \subseteq Orders
    /\ paid \in [Targets -> Nat]
    /\ paymentStatus \in [Orders -> PaymentStatuses]
    /\ journal \in Seq(Entry)
    /\ rate \in Rates
    /\ tolerance \in Tolerances
    /\ at \in [Handlers -> Places]

Init ==
    /\ cancelled = {}
    /\ paid = [t \in Targets |-> 0]
    /\ paymentStatus = [o \in Orders |-> "unpaid"]
    /\ journal = <<>>
    /\ rate \in Rates
    /\ tolerance \in Tolerances
    /\ at = [h \in Handlers |-> Idle]

-----------------------------------------------------------------------------

Doing(h, step) == at[h].step = step
Goto(h, place) == at' = [at EXCEPT ![h] = place]
committed == <<cancelled, paid, paymentStatus, journal>>

\* The order row is held FOR UPDATE.
OrderLocked(o) == \E h \in Handlers :
    at[h].step \in {"locked", "rolledUp"} /\ at[h].target = o

\* Everything paid so far plus this payment stays within the total and the tolerance.
NotOverpaid(o, usd, pct) == WithinPct(paid[o] + usd, TotalUsd[o], pct)

\* Slip: a status the enum does not have.
RollUpOfOver(o, sum) ==
    IF sum > TotalUsd[o] THEN "overpaid" ELSE IF sum > 0 THEN "partial" ELSE "unpaid"

\* rollUpPaymentStatus: the comparison is with the sum, so a total of zero is paid.
RollUpOf(o, sum) ==
    IF sum >= TotalUsd[o] THEN "paid" ELSE IF sum > 0 THEN "partial" ELSE "unpaid"

\* Slip: the form's account is preferred to the order's.
PaymentEntryForm(target, account, usd) ==
    [ref |-> target, debit |-> IF account = NoAccount THEN Misc ELSE account,
     credit |-> Cash, usd |-> usd]

\* postPayment: the order's account, else the form's, else 6900; cash is credited.
PaymentEntry(target, account, usd) ==
    LET fromOrder == IF target \in Orders THEN OrderAccount[target] ELSE NoAccount
        chosen == IF fromOrder # NoAccount THEN fromOrder ELSE account
    IN [ref |-> target, debit |-> IF chosen = NoAccount THEN Misc ELSE chosen,
        credit |-> Cash, usd |-> usd]

-----------------------------------------------------------------------------

\* record: a payment with no order names its expense account; the rate is read.
ReadRate(h, target, account, amount) ==
    /\ at[h] = Idle
    /\ target = Direct => account # NoAccount
    /\ Goto(h, [step |-> "priced", target |-> target, account |-> account,
                usd |-> ToUsd(amount, rate)])
    /\ UNCHANGED <<committed, rate, tolerance>>

ReadTolerance(h) ==
    /\ Doing(h, "priced")
    /\ LET p == at[h] IN
       Goto(h, [step |-> "ready", target |-> p.target, account |-> p.account,
                usd |-> p.usd, tolerance |-> tolerance])
    /\ UNCHANGED <<committed, rate, tolerance>>

\* Slip: the order is read without FOR UPDATE.
LockOrderUnlocked(h) ==
    /\ Doing(h, "ready")
    /\ LET p == at[h] IN
       /\ p.target \in Orders
       /\ NotOverpaid(p.target, p.usd, p.tolerance)
       /\ Goto(h, [p EXCEPT !.step = "locked"])
    /\ UNCHANGED <<committed, rate, tolerance>>

\* lockForPayment, then assertNotOverpaid on the sum read under the lock.
LockOrder(h) ==
    /\ Doing(h, "ready")
    /\ LET p == at[h] IN
       /\ p.target \in Orders
       /\ ~OrderLocked(p.target)
       /\ NotOverpaid(p.target, p.usd, p.tolerance)
       /\ Goto(h, [p EXCEPT !.step = "locked"])
    /\ UNCHANGED <<committed, rate, tolerance>>

RefuseOverpayment(h) ==
    /\ Doing(h, "ready")
    /\ LET p == at[h] IN
       /\ p.target \in Orders
       /\ ~OrderLocked(p.target)
       /\ ~NotOverpaid(p.target, p.usd, p.tolerance)
    /\ Goto(h, Idle)
    /\ UNCHANGED <<committed, rate, tolerance>>

\* Slip: the sum is read before the insert.
RollUpBeforeInsert(h) ==
    /\ Doing(h, "locked")
    /\ LET p == at[h] IN
       Goto(h, [step |-> "rolledUp", target |-> p.target, account |-> p.account,
                usd |-> p.usd, status |-> RollUpOf(p.target, paid[p.target])])
    /\ UNCHANGED <<committed, rate, tolerance>>

\* The payment and its entry are inserted, and the sum is read back with them.
RollUp(h) ==
    /\ Doing(h, "locked")
    /\ LET p == at[h] IN
       Goto(h, [step |-> "rolledUp", target |-> p.target, account |-> p.account,
                usd |-> p.usd, status |-> RollUpOf(p.target, paid[p.target] + p.usd)])
    /\ UNCHANGED <<committed, rate, tolerance>>

\* The commit: payment, entry and payment status become visible together.
Record(h) ==
    /\ Doing(h, "rolledUp")
    /\ Len(journal) < MaxEntries
    /\ LET p == at[h] IN
       /\ paid' = [paid EXCEPT ![p.target] = @ + p.usd]
       /\ journal' = Append(journal, PaymentEntry(p.target, p.account, p.usd))
       /\ paymentStatus' = [paymentStatus EXCEPT ![p.target] = p.status]
    /\ Goto(h, Idle)
    /\ UNCHANGED <<cancelled, rate, tolerance>>

\* The same transaction with no order: no lock, no check, no roll-up.
RecordDirect(h) ==
    /\ Doing(h, "ready")
    /\ Len(journal) < MaxEntries
    /\ LET p == at[h] IN
       /\ p.target = Direct
       /\ paid' = [paid EXCEPT ![Direct] = @ + p.usd]
       /\ journal' = Append(journal, PaymentEntry(Direct, p.account, p.usd))
    /\ Goto(h, Idle)
    /\ UNCHANGED <<cancelled, paymentStatus, rate, tolerance>>

\* recordIncome: the rate is read, then cash is debited in one entry.
ReadRateForIncome(h, account, amount) ==
    /\ at[h] = Idle
    /\ Goto(h, [step |-> "income", account |-> account, usd |-> ToUsd(amount, rate)])
    /\ UNCHANGED <<committed, rate, tolerance>>

RecordIncome(h) ==
    /\ Doing(h, "income")
    /\ Len(journal) < MaxEntries
    /\ journal' = Append(journal, [ref |-> "income", debit |-> Cash,
                                   credit |-> at[h].account, usd |-> at[h].usd])
    /\ Goto(h, Idle)
    /\ UNCHANGED <<cancelled, paid, paymentStatus, rate, tolerance>>

\* The update of PurchaseOrdersService.cancel, which waits for the row lock.
\* How far the order was received, which may refuse it, is Receiving's matter.
CancelOrder(o) ==
    /\ ~OrderLocked(o)
    /\ cancelled' = cancelled \cup {o}
    /\ UNCHANGED <<paid, paymentStatus, journal, rate, tolerance, at>>

SetRate(q) == rate # q /\ rate' = q /\ UNCHANGED <<committed, tolerance, at>>

SetTolerance(pct) == tolerance # pct /\ tolerance' = pct /\ UNCHANGED <<committed, rate, at>>

\* A database error or a crash: the transaction, if there is one, rolls back.
Abandon(h) == at[h] # Idle /\ Goto(h, Idle) /\ UNCHANGED <<committed, rate, tolerance>>

-----------------------------------------------------------------------------

Next ==
    \/ \E h \in Handlers :
          \/ ReadTolerance(h) \/ LockOrder(h) \/ RefuseOverpayment(h)
          \/ RollUp(h) \/ Record(h) \/ RecordDirect(h) \/ RecordIncome(h) \/ Abandon(h)
          \/ \E t \in Targets, a \in Accounts \cup {NoAccount}, m \in Amounts : ReadRate(h, t, a, m)
          \/ \E a \in Accounts, m \in Amounts : ReadRateForIncome(h, a, m)
    \/ \E o \in Orders : CancelOrder(o)
    \/ \E q \in Rates : SetRate(q)
    \/ \E pct \in Tolerances : SetTolerance(pct)

Spec == Init /\ [][Next]_vars

-----------------------------------------------------------------------------
(* Properties. *)

\* C3: "concurrent payments against it are checked one after another against
\* everything already paid", so together they never pass the total by more than
\* the most generous tolerance ever set (a tolerance read before it was lowered
\* still counts).
NeverOverpaid == \A o \in Orders : WithinPct(paid[o], TotalUsd[o], MaxTolerance)

PaymentsOf(t) == {k \in 1..Len(journal) : journal[k].ref = t}

\* payment_status is exactly the roll-up of the payments committed so far:
\* none is lost to a roll-up computed beside it, and an order with no payment
\* stays unpaid, even one whose total is zero.
StatusExact == \A o \in Orders :
    paymentStatus[o] = IF PaymentsOf(o) = {} THEN "unpaid" ELSE RollUpOf(o, paid[o])

Expense(t) == SumFunctionOnSet([k \in 1..Len(journal) |-> journal[k].usd], PaymentsOf(t))

\* The expense the books show for an order is what was paid for it, and it sits
\* on the order's own account when it has one.
BooksAgree == \A t \in Targets :
    /\ paid[t] = Expense(t)
    /\ t \in Orders => \A k \in PaymentsOf(t) :
          OrderAccount[t] # NoAccount => journal[k].debit = OrderAccount[t]

\* findPayable: "Open or partly received orders - the ones a payment can be
\* recorded against"; nothing is paid on an order that was cancelled.
CancelledNotPaid == [][\A o \in cancelled : paid'[o] = paid[o]]_vars

=============================================================================
