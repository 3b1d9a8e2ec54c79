------------------------------- MODULE Sales -------------------------------
(***************************************************************************)
(* Quotations, invoices and receipts (SalesService), the ledger entries    *)
(* they post (JournalService.post, trigger T2) and the pool of database    *)
(* connections they share (PrismaService).                                 *)
(*                                                                         *)
(* issueInvoice and recordReceipt take the invoice FOR UPDATE.  create,    *)
(* update, setStatus and convertToInvoice read and check first and write   *)
(* by id later, so the write may land on a document that would no longer   *)
(* pass the check: `overtaken` remembers the documents an edit or a status *)
(* has so landed on.  A write by id, like a transaction, keeps its         *)
(* connection while it waits for the row.                                  *)
(*                                                                         *)
(* A document number is MAX + 1, read on a connection of its own before    *)
(* the insert; the unique key refuses the second of two equal ones.        *)
(***************************************************************************)
EXTENDS FiniteSetsExt, Money

CONSTANTS
    Clerks,         \* handlers that run create, update and setStatus
    Converters,     \* handlers that run convertToInvoice
    Issuers,        \* handlers that run issueInvoice
    Cashiers,       \* handlers that run recordReceipt
    MaxDocs,        \* bound: quotations and invoices inserted in all
    None,           \* source_id is null
    Customers,
    NewForms,       \* what the form of a new document carries: type, customer, net, total
    EditForms,      \* what the form of an edit carries
    Rates,          \* exchange rates finance may set
    Amounts,        \* amounts a receipt form may carry ...
    Rest,           \* ... or none, for what is still due
    PoolSize,       \* DATABASE_MAX_CONNECTIONS
    MaxCreated,     \* bound: documents inserted by create
    MaxReceipts     \* bound: receipts of one customer

Types == {"quotation", "invoice"}
Ids == 1..MaxDocs       \* ids are serial

ASSUME SalesAssumption ==
    /\ MaxDocs \in Nat /\ None \notin Nat
    /\ NewForms \cup EditForms \subseteq [type : Types, customer : Customers, net : Nat, total : Nat]
    /\ \A f \in NewForms \cup EditForms : f.net <= f.total
    /\ Rates \subseteq Nat \ {0}
    /\ Amounts \subseteq Int /\ Rest \notin Int
    /\ PoolSize \in Nat \ {0} /\ MaxCreated \in Nat /\ MaxReceipts \in Nat

VARIABLES
    docs,           \* sales_documents rows that are quotations or invoices
    received,       \* SUM(total), and in USD, of an invoice's receipts
    receipts,       \* the last receipt number of a customer
    journal,        \* the balances an invoice's entries leave on the accounts
    overtaken,      \* documents a stale edit or status has landed on
    at              \* where each handler stands, and what it has read

vars == <<docs, received, receipts, journal, overtaken, at>>
Handlers == Clerks \cup Converters \cup Issuers \cup Cashiers
committed == <<docs, received, receipts, journal, overtaken>>

Statuses == {"draft", "sent", "accepted", "rejected", "issued", "paid", "void"}
Row == [type : Types, status : Statuses, customer : Customers,
        number : Nat, net : Nat, total : Nat, rate : Nat \ {0}, usd : Nat,
        source : Ids \cup {None}, booked : BOOLEAN]
Absent == [type |-> "absent"]
Idle == [step |-> "idle"]

Places ==
    {Idle}
    \cup [step : {"creating"}, row : Row, number : Nat]
    \cup [step : {"updating", "overwriting"}, doc : Ids, seen : Statuses, row : Row, number : Nat]
    \cup [step : {"marking", "setting"}, doc : Ids, seen : Statuses, status : Statuses]
    \cup [step : {"converting"}, doc : Ids, row : Row, number : Nat]
    \cup [step : {"issuing"}, doc : Ids, post : BOOLEAN]
    \cup [step : {"collecting"}, doc : Ids, amount : Int \cup {Rest}]
    \cup [step : {"receiving"}, doc : Ids, amount : Nat, usd : Int,
          settles : BOOLEAN, number : Nat]

TypeOK ==
    /\ docs \in [Ids -> Row \cup {Absent}]
    /\ received \in [Ids -> [total : Nat, usd : Int]]
    /\ receipts \in [Customers -> Nat]
    /\ journal \in [Ids -> [receivable : Int, cash : Int, income : Int, vat : Int]]
    /\ overtaken \subseteq Ids
    /\ at \in [Handlers -> Places]

Init ==
    /\ docs = [i \in Ids |-> Absent]
    /\ received = [i \in Ids |-> [total |-> 0, usd |-> 0]]
    /\ receipts = [c \in Customers |-> 0]
    /\ journal = [i \in Ids |-> [receivable |-> 0, cash |-> 0, income |-> 0, vat |-> 0]]
    /\ overtaken = {}
    /\ at = [h \in Handlers |-> Idle]

-----------------------------------------------------------------------------

Doing(h, step) == at[h].step = step
Goto(h, place) == at' = [at EXCEPT ![h] = place]

Exists(i) == docs[i] # Absent

\* The serial id of the next row.
NextId == 1 + Max({0} \cup {i \in Ids : Exists(i)})

\* A transaction keeps a connection from its begin to its end, and so does an
\* UPDATE that waits for a row; every other query takes one for the moment, or
\* waits for one.
Holding == {"overwriting", "setting", "issuing", "collecting", "receiving"}
InTransaction == {h \in Handlers : at[h].step \in Holding}
Connection == Cardinality(InTransaction) < PoolSize

\* The invoice row is held FOR UPDATE; an UPDATE by id waits for it too.
Locked(i) == \E h \in Handlers : Doing(h, "receiving") /\ at[h].doc = i

\* header: every figure is stored at the rate current when the form is saved.
Priced(row, form, rate) ==
    [row EXCEPT !.customer = form.customer, !.net = form.net, !.total = form.total,
                !.rate = rate, !.usd = ToUsd(form.total, rate)]

NewRow(form, rate) ==
    [type |-> form.type, status |-> "draft", customer |-> form.customer, number |-> 0,
     net |-> form.net, total |-> form.total, rate |-> rate,
     usd |-> ToUsd(form.total, rate), source |-> None, booked |-> FALSE]

\* Slip: MAX without COALESCE, null for a customer's first document.
NextNumberNull(type, c) ==
    LET taken == {docs[i].number : i \in {j \in Ids : Exists(j) /\ docs[j].type = type
                                                       /\ docs[j].customer = c}}
    IN IF taken = {} THEN None ELSE 1 + Max(taken)

\* nextNumber: one more than the customer's last document of that type.
NextNumber(type, c) == 1 + Max({0} \cup
    {docs[i].number : i \in {j \in Ids : Exists(j) /\ docs[j].type = type
                                                   /\ docs[j].customer = c}})

\* The unique key on number, which spells out type, customer and counter.
NumberFree(i, row) == \A j \in Ids \ {i} : Exists(j) =>
    ~(docs[j].type = row.type /\ docs[j].customer = row.customer /\ docs[j].number = row.number)

\* MANUAL_TRANSITIONS
Allowed(type, status) ==
    CASE type = "quotation" /\ status = "draft" -> {"sent", "void"}
      [] type = "quotation" /\ status = "sent" -> {"accepted", "rejected", "void"}
      [] type = "invoice" /\ status = "draft" -> {"void"}
      [] OTHER -> {}

LiveInvoices(q) == {i \in Ids : Exists(i) /\ docs[i].type = "invoice" /\ docs[i].source = q
                                          /\ docs[i].status # "void"}

\* Slip: whether the quotation already has an invoice is not asked.
ConvertibleAgain(q) == docs[q].status \in {"sent", "accepted"}

Convertible(q) == docs[q].status \in {"sent", "accepted"} /\ LiveInvoices(q) = {}

-----------------------------------------------------------------------------

\* create: today's rate, then the number, then the insert.
ReadForCreate(h, form, rate) ==
    /\ at[h] = Idle
    /\ Goto(h, [step |-> "creating", row |-> NewRow(form, rate), number |-> 0])
    /\ UNCHANGED committed

\* nextNumber of create, of convertToInvoice and of an update that changes the customer.
TakeNumber(h) ==
    /\ at[h].step \in {"creating", "converting", "updating"}
    /\ at[h].number = 0
    /\ Connection
    /\ Goto(h, [at[h] EXCEPT !.number = NextNumber(at[h].row.type, at[h].row.customer)])
    /\ UNCHANGED committed

Numbered(h) == [at[h].row EXCEPT !.number = at[h].number]

Created == Cardinality({i \in Ids : Exists(i) /\ docs[i].source = None})

Create(h, i) ==
    /\ Doing(h, "creating") /\ at[h].number > 0
    /\ Connection
    /\ Created < MaxCreated
    /\ i = NextId /\ NumberFree(i, Numbered(h))
    /\ docs' = [docs EXCEPT ![i] = Numbered(h)]
    /\ Goto(h, Idle)
    /\ UNCHANGED <<received, receipts, journal, overtaken>>

\* Slip: whatever is not issued can be edited.
ReadForUpdateSent(h, i, form, rate) ==
    /\ at[h] = Idle
    /\ Exists(i) /\ docs[i].status \in {"draft", "sent"}
    /\ Goto(h, [step |-> "updating", doc |-> i, seen |-> docs[i].status,
                row |-> Priced(docs[i], form, rate),
                number |-> IF form.customer = docs[i].customer THEN docs[i].number ELSE 0])
    /\ UNCHANGED committed

\* update: drafts only, as read here; a new customer means a new number.
ReadForUpdate(h, i, form, rate) ==
    /\ at[h] = Idle
    /\ Exists(i) /\ docs[i].status = "draft"
    /\ Goto(h, [step |-> "updating", doc |-> i, seen |-> docs[i].status,
                row |-> Priced(docs[i], form, rate),
                number |-> IF form.customer = docs[i].customer THEN docs[i].number ELSE 0])
    /\ UNCHANGED committed

\* update opens its transaction, whose first statement waits for the row.
BeginUpdate(h) ==
    /\ Doing(h, "updating") /\ at[h].number > 0
    /\ Connection
    /\ Goto(h, [at[h] EXCEPT !.step = "overwriting"])
    /\ UNCHANGED committed

\* The figures, the customer and the number are written by id, whatever the
\* status is by now; status, source and journal entry stay what they are.
Update(h) ==
    /\ Doing(h, "overwriting")
    /\ LET i == at[h].doc
           row == Numbered(h)
       IN /\ ~Locked(i)
          /\ NumberFree(i, row)
          /\ docs' = [docs EXCEPT ![i] = [row EXCEPT !.status = docs[i].status,
                                                     !.booked = docs[i].booked]]
          /\ overtaken' = IF at[h].seen = "draft" /\ docs[i].status # "draft"
                            THEN overtaken \cup {i} ELSE overtaken
    /\ Goto(h, Idle)
    /\ UNCHANGED <<received, receipts, journal>>

ReadForStatus(h, i, status) ==
    /\ at[h] = Idle
    /\ Exists(i) /\ status \in Allowed(docs[i].type, docs[i].status)
    /\ Goto(h, [step |-> "marking", doc |-> i, seen |-> docs[i].status, status |-> status])
    /\ UNCHANGED committed

\* setStatus: its UPDATE has a connection, and waits for the row.
BeginMark(h) ==
    /\ Doing(h, "marking")
    /\ Connection
    /\ Goto(h, [at[h] EXCEPT !.step = "setting"])
    /\ UNCHANGED committed

SetStatus(h) ==
    /\ Doing(h, "setting")
    /\ LET i == at[h].doc IN
       /\ ~Locked(i)
       /\ docs' = [docs EXCEPT ![i].status = at[h].status]
       /\ overtaken' = IF at[h].status \in Allowed(docs[i].type, at[h].seen)
                                           \ Allowed(docs[i].type, docs[i].status)
                         THEN overtaken \cup {i} ELSE overtaken
    /\ Goto(h, Idle)
    /\ UNCHANGED <<received, receipts, journal>>

\* convertToInvoice: the quotation's figures and rate carry over.
ReadForConvert(h, q) ==
    /\ at[h] = Idle
    /\ Exists(q) /\ docs[q].type = "quotation" /\ Convertible(q)
    /\ Goto(h, [step |-> "converting", doc |-> q, number |-> 0,
                row |-> [docs[q] EXCEPT !.type = "invoice", !.status = "draft", !.source = q]])
    /\ UNCHANGED committed

\* One transaction: the draft invoice, and the quotation accepted by id.
Convert(h, i) ==
    /\ Doing(h, "converting") /\ at[h].number > 0
    /\ Connection
    /\ LET q == at[h].doc IN
       /\ i = NextId /\ NumberFree(i, Numbered(h))
       /\ docs' = [docs EXCEPT ![i] = Numbered(h), ![q].status = "accepted"]
    /\ Goto(h, Idle)
    /\ UNCHANGED <<received, receipts, journal, overtaken>>

-----------------------------------------------------------------------------

\* issueInvoice opens its transaction and waits for the row.
BeginIssue(h, i, post) ==
    /\ at[h] = Idle
    /\ Connection
    /\ Exists(i) /\ docs[i].type = "invoice"
    /\ Goto(h, [step |-> "issuing", doc |-> i, post |-> post])
    /\ UNCHANGED committed

\* An entry for invoice i: debits on the asset accounts, credits on the others.
Posted(i, receivable, cash, income, vat) ==
    [journal EXCEPT ![i] = [receivable |-> @.receivable + receivable, cash |-> @.cash + cash,
                            income |-> @.income + income, vat |-> @.vat + vat]]

\* A draft, whose entry trigger T2 will find balanced at the commit.
Issuable(i, post) ==
    /\ docs[i].status = "draft"
    /\ post => ToUsd(docs[i].net, docs[i].rate) <= docs[i].usd

\* Slip: VAT is converted on its own.
IssueOwnVat(h) ==
    /\ Doing(h, "issuing")
    /\ LET i == at[h].doc
           d == docs[i]
       IN /\ ~Locked(i)
          /\ d.status = "draft"
          /\ docs' = [docs EXCEPT ![i].status = "issued", ![i].booked = at[h].post]
          /\ journal' = IF at[h].post
                         THEN Posted(i, d.usd, 0, ToUsd(d.net, d.rate), ToUsd(d.total - d.net, d.rate))
                         ELSE journal
    /\ Goto(h, Idle)
    /\ UNCHANGED <<received, receipts, overtaken>>

\* DR 1100 total, CR 4000 what is charged before VAT, CR 2100 the rest if it is positive.
Issue(h) ==
    /\ Doing(h, "issuing")
    /\ LET i == at[h].doc
           d == docs[i]
           income == ToUsd(d.net, d.rate)
       IN /\ ~Locked(i)
          /\ Issuable(i, at[h].post)
          /\ docs' = [docs EXCEPT ![i].status = "issued", ![i].booked = at[h].post]
          /\ journal' = IF at[h].post THEN Posted(i, d.usd, 0, income, d.usd - income) ELSE journal
    /\ Goto(h, Idle)
    /\ UNCHANGED <<received, receipts, overtaken>>

BeginReceipt(h, i, amount) ==
    /\ at[h] = Idle
    /\ Connection
    /\ Exists(i) /\ docs[i].type = "invoice"
    /\ Goto(h, [step |-> "collecting", doc |-> i, amount |-> amount])
    /\ UNCHANGED committed

Due(i) == docs[i].total - received[i].total

\* An instalment is valued at the invoice's rate; the last takes what is left.
Value(i, amount) ==
    IF amount = Due(i) THEN docs[i].usd - received[i].usd ELSE ToUsd(amount, docs[i].rate)

\* What a receipt form asks for: an amount, or what is due.
Asked(i, amount) == IF amount = Rest THEN Due(i) ELSE amount

Collectable(i, amount) ==
    docs[i].status = "issued" /\ 0 < Asked(i, amount) /\ Asked(i, amount) <= Due(i)

\* Slip: the invoice is read without FOR UPDATE.
LockInvoiceUnlocked(h) ==
    /\ Doing(h, "collecting")
    /\ LET i == at[h].doc
           amount == Asked(i, at[h].amount)
       IN /\ Collectable(i, at[h].amount)
          /\ Goto(h, [step |-> "receiving", doc |-> i, amount |-> amount,
                      usd |-> Value(i, amount), settles |-> amount = Due(i), number |-> 0])
    /\ UNCHANGED committed

\* recordReceipt: the row is locked, then what is due is summed and checked.
LockInvoice(h) ==
    /\ Doing(h, "collecting")
    /\ LET i == at[h].doc
           amount == Asked(i, at[h].amount)
       IN /\ ~Locked(i)
          /\ Collectable(i, at[h].amount)
          /\ Goto(h, [step |-> "receiving", doc |-> i, amount |-> amount,
                      usd |-> Value(i, amount), settles |-> amount = Due(i), number |-> 0])
    /\ UNCHANGED committed

\* nextNumber inside the transaction asks the pool for a second connection.
TakeReceiptNumber(h) ==
    /\ Doing(h, "receiving") /\ at[h].number = 0
    /\ Connection
    /\ Goto(h, [at[h] EXCEPT !.number = receipts[docs[at[h].doc].customer] + 1])
    /\ UNCHANGED committed

\* The insert passes the unique key, and a booked receipt's lines the check
\* journal_line_one_sided, which refuses a negative one.
Recordable(h) ==
    LET c == docs[at[h].doc].customer
    IN /\ at[h].number = receipts[c] + 1 /\ receipts[c] < MaxReceipts
       /\ docs[at[h].doc].booked => at[h].usd >= 0

\* DR 1000 / CR 1100, only if the invoice was booked; paid once nothing is due.
Receive(h) ==
    /\ Doing(h, "receiving")
    /\ LET i == at[h].doc
           c == docs[i].customer
           usd == at[h].usd
       IN /\ Recordable(h)
          /\ receipts' = [receipts EXCEPT ![c] = @ + 1]
          /\ received' = [received EXCEPT ![i] = [total |-> @.total + at[h].amount,
                                                  usd |-> @.usd + usd]]
          /\ journal' = IF docs[i].booked THEN Posted(i, -usd, usd, 0, 0) ELSE journal
          /\ docs' = IF at[h].settles THEN [docs EXCEPT ![i].status = "paid"] ELSE docs
    /\ Goto(h, Idle)
    /\ UNCHANGED overtaken

\* A refusal after the read (a status, an amount, a number taken, an entry that
\* does not balance), a database error, a time-out or a crash: nothing was committed.
Abandon(h) ==
    /\ at[h] # Idle
    /\ Goto(h, Idle)
    /\ UNCHANGED committed

\* The checks that a handler which waits for nothing fails.
Refused(h) ==
    \/ /\ at[h].step \in {"creating", "converting"} /\ at[h].number > 0
       /\ \/ NextId > MaxDocs \/ ~NumberFree(NextId, Numbered(h))
          \/ Doing(h, "creating") /\ Created >= MaxCreated
    \/ Doing(h, "overwriting") /\ ~Locked(at[h].doc) /\ ~NumberFree(at[h].doc, Numbered(h))
    \/ Doing(h, "issuing") /\ ~Locked(at[h].doc) /\ ~Issuable(at[h].doc, at[h].post)
    \/ Doing(h, "collecting") /\ ~Locked(at[h].doc) /\ ~Collectable(at[h].doc, at[h].amount)
    \/ Doing(h, "receiving") /\ at[h].number > 0 /\ ~Recordable(h)

\* Slip: the pool is given no time limit.
TimesOutNever(h) == FALSE

\* connectionTimeoutMillis: a query that is given no connection fails.
TimesOut(h) ==
    /\ ~Connection
    /\ \/ at[h].step \in {"creating", "converting", "updating", "marking"}
       \/ Doing(h, "receiving") /\ at[h].number = 0

-----------------------------------------------------------------------------

\* What a handler inside a request does next.
Continue(h) ==
    \/ TakeNumber(h) \/ \E i \in Ids : Create(h, i) \/ Convert(h, i)
    \/ BeginUpdate(h) \/ Update(h) \/ BeginMark(h) \/ SetStatus(h)
    \/ Issue(h)
    \/ LockInvoice(h) \/ TakeReceiptNumber(h) \/ Receive(h)

Fail(h) == (Refused(h) \/ TimesOut(h)) /\ Abandon(h)

Next ==
    \/ \E h \in Clerks, q \in Rates :
          \/ \E f \in NewForms : ReadForCreate(h, f, q)
          \/ \E i \in Ids, f \in EditForms : ReadForUpdate(h, i, f, q)
    \/ \E h \in Clerks, i \in Ids, status \in Statuses : ReadForStatus(h, i, status)
    \/ \E h \in Converters, i \in Ids : ReadForConvert(h, i)
    \/ \E h \in Issuers, i \in Ids, post \in BOOLEAN : BeginIssue(h, i, post)
    \/ \E h \in Cashiers, i \in Ids, amount \in Amounts \cup {Rest} : BeginReceipt(h, i, amount)
    \/ \E h \in Handlers : Continue(h) \/ Abandon(h)

\* Every query returns, the waiters of a row are queued, and a query that waits
\* for a connection is failed in the end; nobody has to send a request.
Fairness == \A h \in Handlers : SF_vars(Continue(h) \/ Fail(h))

Spec == Init /\ [][Next]_vars
FairSpec == Spec /\ Fairness

-----------------------------------------------------------------------------
(* Properties. *)

Invoice(i) == Exists(i) /\ docs[i].type = "invoice"
Billed(i) == Invoice(i) /\ docs[i].status \in {"issued", "paid"}

\* "The receivable clears to exactly 0": billing and the instalments of every
\* invoice that no stale edit or status has landed on implement Receivable, however
\* receipts, issuing and edits interleave.
Stage(i) ==
    IF i \in overtaken THEN "overtaken"
    ELSE IF ~Billed(i) THEN "unbilled"
    ELSE IF docs[i].status = "paid" THEN "settled" ELSE "open"
StillDue(i) == IF Billed(i) /\ i \notin overtaken THEN Due(i) ELSE 0
Owed(i) == IF i \in overtaken THEN 0 ELSE journal[i].receivable
Books == INSTANCE Receivable WITH
    stage <- [i \in Ids |-> Stage(i)],
    due <- [i \in Ids |-> StillDue(i)],
    owed <- [i \in Ids |-> Owed(i)]
CollectsReceivable == Books!Spec

\* The entries of an invoice balance, and no line of them is negative: VAT takes
\* the rounding remainder, and a receipt of an invoice that was never booked
\* does not touch cash.
EntriesBalance == \A i \in Ids :
    LET b == journal[i] IN
    /\ b.receivable + b.cash = b.income + b.vat
    /\ b.income >= 0 /\ b.vat >= 0 /\ b.cash >= 0

\* A quotation has at most one invoice that is not void: convertToInvoice refuses
\* one that "already has an invoice".
OneLiveInvoice == \A q \in Ids : Cardinality(LiveInvoices(q)) <= 1

\* It does so on what it read before its transaction, so two conversions of one
\* quotation that overlap both pass.  If none ever overlap, then whatever edits,
\* voids, failures and creations come between a conversion's read and its write,
\* no quotation has two invoices.
ConversionsApart == \A g, h \in Handlers :
    Doing(g, "converting") /\ Doing(h, "converting") /\ at[g].doc = at[h].doc => g = h
OneInvoiceUnlessOverlapped == []ConversionsApart => []OneLiveInvoice

\* "Once sent or issued, the document is what the customer holds": but for stale
\* writes, its number, customer and figures never change again.
Held(i) == Exists(i) /\ docs[i].status # "draft"
Face(row) == <<row.customer, row.number, row.net, row.total, row.rate, row.usd>>
DocumentStands == [][\A i \in Ids :
    Held(i) /\ i \notin overtaken' => Face(docs'[i]) = Face(docs[i])]_vars

\* No request waits for ever, on a row or for a connection, although a receipt
\* holds one connection and its invoice while it asks for another, and the edits
\* and marks of that invoice hold connections while they wait for it.
HandlersFinish == \A h \in Handlers : at[h] # Idle ~> at[h] = Idle

=============================================================================
