----------------------------- MODULE SalesProofs -----------------------------
(***************************************************************************)
(* Proofs about Sales: its types, its entries, the documents customers     *)
(* hold, the invoices of a quotation, and that it implements Receivable,   *)
(* for any handlers, forms, rates, amounts and bounds.                     *)
(***************************************************************************)
EXTENDS Sales, ArithmeticProofs

-----------------------------------------------------------------------------
(* Numbers and ids.                                                         *)

\* A bounded set of natural numbers has a maximum.
LEMMA MaxOfBounded ==
    ASSUME NEW S \in SUBSET Nat, S # {}, NEW b \in Nat, \A x \in S : x <= b
    PROVE  Max(S) \in S /\ \A x \in S : x <= Max(S)
<1> DEFINE T == {k \in Nat : \A x \in S : x <= k}
<1>1. T # {} /\ T \in SUBSET Nat
  OBVIOUS
<1>2. PICK m \in T : \A k \in T : m <= k
  BY <1>1, Least
<1>3. m \in S
  <2> SUFFICES ASSUME m \notin S PROVE FALSE
    OBVIOUS
  <2>1. PICK x \in S : TRUE
    OBVIOUS
  <2>2. m > 0 /\ m - 1 \in Nat
    BY <2>1, <1>2
  <2>3. \A y \in S : y <= m - 1
    BY <1>2, <2>2
  <2>4. m - 1 \in T
    BY <2>2, <2>3
  <2> QED BY <1>2, <2>2, <2>4
<1>4. \E x \in S : \A y \in S : x >= y
  BY <1>2, <1>3
<1>5. Max(S) \in S /\ \A y \in S : Max(S) >= y
  BY <1>4 DEF Max
<1> QED BY <1>5

\* So has what a function on a finite initial part of Nat returns.
LEMMA BoundedRange ==
    ASSUME NEW n \in Nat, NEW f \in [1..n -> Nat]
    PROVE  \E b \in Nat : \A i \in 1..n : f[i] <= b
<1> DEFINE Bounded(k) == \E b \in Nat : \A i \in 1..n : i <= k => f[i] <= b
           T == {k \in Nat : ~Bounded(k)}
<1>1. SUFFICES T = {}
  <2>1. Bounded(n)
    BY <1>1
  <2> QED BY <2>1
<1>2. SUFFICES ASSUME T # {} PROVE FALSE
  OBVIOUS
<1> HIDE DEF Bounded
<1>3. PICK m \in T : \A k \in T : m <= k
  BY <1>2, Least
<1>4. m # 0
  BY <1>3 DEF Bounded
<1>5. m - 1 \in Nat /\ Bounded(m - 1)
  BY <1>3, <1>4
<1>6. PICK b \in Nat : \A i \in 1..n : i <= m - 1 => f[i] <= b
  BY <1>5 DEF Bounded
<1>7. Bounded(m)
  <2>1. CASE m \in 1..n
    <3>1. PICK c \in Nat : b <= c /\ f[m] <= c
      BY <2>1
    <3>2. \A i \in 1..n : i <= m => f[i] <= c
      BY <1>6, <3>1, <1>3
    <3> QED BY <3>1, <3>2 DEF Bounded
  <2>2. CASE m \notin 1..n
    BY <1>6, <2>2, <1>3 DEF Bounded
  <2> QED BY <2>1, <2>2
<1> QED BY <1>3, <1>7

\* The next id is free.
LEMMA NextIdFresh ==
    NextId \in Nat \ {0} /\ \A i \in Ids : Exists(i) => i < NextId
<1> DEFINE S == {0} \cup {i \in Ids : Exists(i)}
<1>1. S \in SUBSET Nat /\ S # {} /\ MaxDocs \in Nat /\ \A x \in S : x <= MaxDocs
  BY SalesAssumption DEF Ids
<1>2. Max(S) \in S /\ \A x \in S : x <= Max(S)
  BY <1>1, MaxOfBounded
<1> QED BY <1>1, <1>2 DEF NextId

\* The next number is one.
LEMMA NextNumberTyped ==
    ASSUME NEW type, NEW c, docs \in [Ids -> Row \cup {Absent}]
    PROVE  NextNumber(type, c) \in Nat \ {0}
<1> DEFINE J == {j \in Ids : Exists(j) /\ docs[j].type = type /\ docs[j].customer = c}
           f == [j \in Ids |-> IF Exists(j) THEN docs[j].number ELSE 0]
           S == {0} \cup {docs[i].number : i \in J}
<1>1. MaxDocs \in Nat /\ \A j \in Ids : Exists(j) => docs[j].number \in Nat
  BY SalesAssumption DEF Exists, Row
<1>2. f \in [1..MaxDocs -> Nat]
  BY <1>1 DEF Ids
<1>3. PICK b \in Nat : \A i \in 1..MaxDocs : f[i] <= b
  BY <1>1, <1>2, BoundedRange
<1>4. S \in SUBSET Nat /\ S # {} /\ \A x \in S : x <= b
  BY <1>1, <1>3 DEF Ids
<1>5. Max(S) \in S
  BY <1>4, MaxOfBounded
<1> QED BY <1>4, <1>5 DEF NextNumber

-----------------------------------------------------------------------------
(* The invariant.                                                           *)

\* What a handler has read and may still rely on, although others write.
Fits(p) ==
    /\ p.step \in {"creating", "converting"} => p.row.status = "draft"
    /\ p.step = "creating" => p.row.source = None
    /\ p.step \in {"updating", "overwriting"} =>
          /\ Exists(p.doc) /\ p.seen = "draft"
          /\ p.row.type = docs[p.doc].type /\ p.row.source = docs[p.doc].source
    /\ p.step \in {"marking", "setting"} =>
          Exists(p.doc) /\ p.status \in Allowed(docs[p.doc].type, p.seen)
    /\ p.step = "converting" =>
          /\ Exists(p.doc) /\ docs[p.doc].type = "quotation"
          /\ p.row.type = "invoice" /\ p.row.source = p.doc
    /\ p.step \in {"issuing", "collecting", "receiving"} => Invoice(p.doc)
    /\ p.step = "receiving" =>
          /\ docs[p.doc].status = "issued"
          /\ 0 < p.amount /\ p.amount <= Due(p.doc)
          /\ p.settles <=> p.amount = Due(p.doc)
          /\ p.settles => p.usd = docs[p.doc].usd - received[p.doc].usd

\* One transaction at a time holds an invoice.
Exclusive == \A g, h \in Handlers :
    Doing(g, "receiving") /\ Doing(h, "receiving") /\ at[g].doc = at[h].doc => g = h

\* What account 1100 and the receipts of a document come to.
Tally(i) ==
    /\ ~Exists(i) \/ docs[i].status = "draft" => i \notin overtaken
    /\ i \notin overtaken /\ ~Billed(i) =>
          journal[i].receivable = 0 /\ received[i].total = 0 /\ received[i].usd = 0
    /\ i \notin overtaken /\ Billed(i) =>
          /\ journal[i].receivable = IF docs[i].booked THEN docs[i].usd - received[i].usd ELSE 0
          /\ docs[i].status = "paid" => Due(i) = 0 /\ journal[i].receivable = 0

IInv ==
    /\ TypeOK
    /\ \A h \in Handlers : Fits(at[h])
    /\ Exclusive
    /\ EntriesBalance
    /\ \A i \in Ids : Tally(i)

\* The fields a place has, by its step.
LEMMA PlaceFields ==
    ASSUME NEW p \in Places
    PROVE  /\ p.step \in {"idle", "creating", "updating", "overwriting", "marking", "setting",
                          "converting", "issuing", "collecting", "receiving"}
           /\ p.step = "creating" => p.row \in Row /\ p.number \in Nat
                 /\ p = [step |-> "creating", row |-> p.row, number |-> p.number]
           /\ p.step \in {"updating", "overwriting"} => p.doc \in Ids /\ p.seen \in Statuses
                 /\ p.row \in Row /\ p.number \in Nat
                 /\ p = [step |-> p.step, doc |-> p.doc, seen |-> p.seen, row |-> p.row,
                         number |-> p.number]
           /\ p.step \in {"marking", "setting"} =>
                 /\ p = [step |-> p.step, doc |-> p.doc, seen |-> p.seen, status |-> p.status]
                 /\ p.doc \in Ids /\ p.seen \in Statuses /\ p.status \in Statuses
           /\ p.step = "converting" => p.doc \in Ids /\ p.row \in Row /\ p.number \in Nat
                 /\ p = [step |-> "converting", doc |-> p.doc, row |-> p.row, number |-> p.number]
           /\ p.step = "issuing" => p.doc \in Ids /\ p.post \in BOOLEAN
           /\ p.step = "collecting" => p.doc \in Ids /\ p.amount \in Int \cup {Rest}
           /\ p.step = "receiving" => p.doc \in Ids /\ p.amount \in Nat /\ p.usd \in Int
                 /\ p.settles \in BOOLEAN /\ p.number \in Nat
                 /\ p = [step |-> "receiving", doc |-> p.doc, amount |-> p.amount, usd |-> p.usd,
                         settles |-> p.settles, number |-> p.number]
BY DEF Places, Idle

LEMMA RowFields ==
    ASSUME NEW r \in Row
    PROVE  /\ r.type \in Types /\ r.status \in Statuses /\ r.customer \in Customers
           /\ r.number \in Nat /\ r.net \in Nat /\ r.total \in Nat /\ r.rate \in Nat \ {0}
           /\ r.usd \in Nat /\ r.source \in Ids \cup {None} /\ r.booked \in BOOLEAN
           /\ r # Absent
BY DEF Row, Absent, Types

LEMMA ExistsIsRow ==
    ASSUME TypeOK, NEW i \in Ids
    PROVE  Exists(i) <=> docs[i] \in Row
BY RowFields DEF TypeOK, Exists

LEMMA InitInv == Init => IInv
<1> SUFFICES ASSUME Init PROVE IInv
  OBVIOUS
<1>1. TypeOK
  BY DEF Init, TypeOK, Places, Idle
<1>2. \A h \in Handlers : at[h].step = "idle"
  BY DEF Init, Idle
<1>3. (\A h \in Handlers : Fits(at[h])) /\ Exclusive
  BY <1>2 DEF Fits, Exclusive, Doing
<1>4. \A i \in Ids : ~Exists(i)
  BY DEF Init, Exists
<1>5. EntriesBalance /\ \A i \in Ids : Tally(i)
  BY <1>4 DEF Init, EntriesBalance, Tally, Billed, Invoice
<1> QED BY <1>1, <1>3, <1>5 DEF IInv

-----------------------------------------------------------------------------
(* Steps that commit nothing.                                               *)

\* A handler moves to a place that fits, and takes no invoice that is taken.
LEMMA LetGo ==
    ASSUME IInv, NEW h \in Handlers, NEW p \in Places, Fits(p),
           p.step = "receiving" => \A g \in Handlers \ {h} :
               ~(Doing(g, "receiving") /\ at[g].doc = p.doc),
           Goto(h, p), UNCHANGED committed
    PROVE  IInv'
<1>1. at \in [Handlers -> Places] /\ at' = [at EXCEPT ![h] = p] /\ UNCHANGED committed
  BY DEF IInv, TypeOK, Goto
<1>2. at'[h] = p /\ \A g \in Handlers \ {h} : at'[g] = at[g]
  BY <1>1
<1>3. TypeOK'
  BY <1>1 DEF IInv, TypeOK, committed
<1>4. \A g \in Handlers : Fits(at[g])'
  <2> SUFFICES ASSUME NEW g \in Handlers PROVE Fits(at[g])'
    OBVIOUS
  <2>1. Fits(at'[g])
    BY <1>2 DEF IInv
  <2> QED BY <1>1, <2>1 DEF Fits, committed, Exists, Invoice, Due
<1>5. Exclusive'
  BY <1>2 DEF IInv, Exclusive, Doing
<1>6. EntriesBalance' /\ \A i \in Ids : Tally(i)'
  BY <1>1 DEF IInv, EntriesBalance, Tally, committed, Exists, Billed, Invoice, Due
<1> QED BY <1>3, <1>4, <1>5, <1>6 DEF IInv

\* What the forms and rates make of a row is a row.
LEMMA PricedRows ==
    ASSUME NEW f \in NewForms \cup EditForms, NEW rate \in Rates
    PROVE  /\ NewRow(f, rate) \in Row
           /\ \A r \in Row : /\ Priced(r, f, rate) \in Row
                            /\ Priced(r, f, rate).type = r.type
                            /\ Priced(r, f, rate).source = r.source
<1>1. /\ f.type \in Types /\ f.customer \in Customers /\ f.net \in Nat /\ f.total \in Nat
      /\ rate \in Nat \ {0}
  BY SalesAssumption
<1>2. ToUsd(f.total, rate) \in Nat
  BY <1>1, ToUsdNat
<1> QED BY <1>1, <1>2 DEF NewRow, Priced, Row, Statuses

LEMMA ReadForCreatePreserves ==
    ASSUME IInv, NEW h \in Clerks, NEW f \in NewForms, NEW rate \in Rates, ReadForCreate(h, f, rate)
    PROVE  IInv'
<1> DEFINE p == [step |-> "creating", row |-> NewRow(f, rate), number |-> 0]
<1>1. p \in Places
  BY PricedRows DEF Places
<1>2. Fits(p)
  BY DEF Fits, NewRow
<1> QED BY <1>1, <1>2, LetGo DEF ReadForCreate, Handlers

LEMMA ReadForUpdatePreserves ==
    ASSUME IInv, NEW h \in Clerks, NEW i \in Ids, NEW f \in EditForms, NEW rate \in Rates,
           ReadForUpdate(h, i, f, rate)
    PROVE  IInv'
<1> DEFINE number == IF f.customer = docs[i].customer THEN docs[i].number ELSE 0
           p == [step |-> "updating", doc |-> i, seen |-> docs[i].status,
                 row |-> Priced(docs[i], f, rate), number |-> number]
<1>1. Exists(i) /\ docs[i] \in Row /\ docs[i].status = "draft"
  BY ExistsIsRow DEF IInv, ReadForUpdate
<1>2. /\ Priced(docs[i], f, rate) \in Row
      /\ Priced(docs[i], f, rate).type = docs[i].type
      /\ Priced(docs[i], f, rate).source = docs[i].source
  BY <1>1, PricedRows
<1>3. number \in Nat /\ docs[i].status \in Statuses
  BY <1>1, RowFields
<1>4. p \in Places
  BY <1>2, <1>3 DEF Places
<1>5. Fits(p)
  BY <1>1, <1>2 DEF Fits
<1>6. Goto(h, p) /\ UNCHANGED committed /\ h \in Handlers
  BY DEF ReadForUpdate, Handlers
<1> QED BY <1>4, <1>5, <1>6, LetGo

LEMMA ReadForStatusPreserves ==
    ASSUME IInv, NEW h \in Clerks, NEW i \in Ids, NEW status \in Statuses,
           ReadForStatus(h, i, status)
    PROVE  IInv'
<1> DEFINE p == [step |-> "marking", doc |-> i, seen |-> docs[i].status, status |-> status]
<1>1. Exists(i) /\ docs[i].status \in Statuses /\ status \in Allowed(docs[i].type, docs[i].status)
  BY ExistsIsRow, RowFields DEF IInv, ReadForStatus
<1>2. p \in Places
  BY <1>1 DEF Places
<1>3. Fits(p)
  BY <1>1 DEF Fits
<1> QED BY <1>2, <1>3, LetGo DEF ReadForStatus, Handlers

LEMMA ReadForConvertPreserves ==
    ASSUME IInv, NEW h \in Converters, NEW q \in Ids, ReadForConvert(h, q)
    PROVE  IInv'
<1> DEFINE row == [docs[q] EXCEPT !.type = "invoice", !.status = "draft", !.source = q]
           p == [step |-> "converting", doc |-> q, number |-> 0, row |-> row]
<1>1. Exists(q) /\ docs[q] \in Row /\ docs[q].type = "quotation"
  BY ExistsIsRow DEF IInv, ReadForConvert
<1>2. row \in Row /\ row.type = "invoice" /\ row.status = "draft" /\ row.source = q
  BY <1>1 DEF Row, Types, Statuses
<1>3. p \in Places
  BY <1>2 DEF Places
<1>4. Fits(p)
  BY <1>1, <1>2 DEF Fits
<1> QED BY <1>3, <1>4, LetGo DEF ReadForConvert, Handlers

LEMMA BeginPreserves ==
    ASSUME IInv, NEW h \in Issuers \cup Cashiers, NEW i \in Ids,
           NEW amount \in Amounts \cup {Rest}, NEW post \in BOOLEAN,
           BeginIssue(h, i, post) \/ BeginReceipt(h, i, amount)
    PROVE  IInv'
<1> DEFINE p == [step |-> "issuing", doc |-> i, post |-> post]
           r == [step |-> "collecting", doc |-> i, amount |-> amount]
<1>1. Invoice(i) /\ h \in Handlers /\ UNCHANGED committed
  BY DEF BeginIssue, BeginReceipt, Invoice, Handlers
<1>2. p \in Places /\ r \in Places
  BY SalesAssumption DEF Places
<1>3. Fits(p) /\ Fits(r)
  BY <1>1 DEF Fits
<1>4. Goto(h, p) \/ Goto(h, r)
  BY DEF BeginIssue, BeginReceipt
<1> HIDE DEF p, r
<1>5. p.step = "issuing" /\ r.step = "collecting"
  BY DEF p, r
<1> QED BY <1>1, <1>2, <1>3, <1>4, <1>5, LetGo

LEMMA AbandonPreserves ==
    ASSUME IInv, NEW h \in Handlers, Abandon(h)
    PROVE  IInv'
<1>1. Idle \in Places /\ Fits(Idle) /\ Idle.step = "idle"
  BY DEF Idle, Places, Fits
<1> QED BY <1>1, LetGo DEF Abandon

LEMMA TakeNumberPreserves ==
    ASSUME IInv, NEW h \in Handlers, TakeNumber(h)
    PROVE  IInv'
<1> DEFINE n == NextNumber(at[h].row.type, at[h].row.customer)
<1>1. at[h] \in Places /\ Fits(at[h]) /\ at[h].step \in {"creating", "converting", "updating"}
  BY DEF IInv, TypeOK, TakeNumber
<1>2. n \in Nat
  BY NextNumberTyped DEF IInv, TypeOK
<1> HIDE DEF n
<1>3. PICK p \in Places : p = at[h]
  BY <1>1
<1>4. PICK r \in Places : r = [p EXCEPT !.number = n] /\ r.step = p.step /\ Fits(r)
  <2>1. CASE p.step = "creating"
    <3>1. [p EXCEPT !.number = n] = [step |-> "creating", row |-> p.row, number |-> n]
      BY <2>1, PlaceFields
    <3> QED BY <1>1, <1>2, <1>3, <2>1, <3>1, PlaceFields DEF Places, Fits
  <2>2. CASE p.step = "converting"
    <3>1. [p EXCEPT !.number = n] =
             [step |-> "converting", doc |-> p.doc, row |-> p.row, number |-> n]
      BY <2>2, PlaceFields
    <3> QED BY <1>1, <1>2, <1>3, <2>2, <3>1, PlaceFields DEF Places, Fits
  <2>3. CASE p.step = "updating"
    <3>1. [p EXCEPT !.number = n] =
             [step |-> "updating", doc |-> p.doc, seen |-> p.seen, row |-> p.row, number |-> n]
      BY <2>3, PlaceFields
    <3> QED BY <1>1, <1>2, <1>3, <2>3, <3>1, PlaceFields DEF Places, Fits
  <2> QED BY <1>1, <1>3, <2>1, <2>2, <2>3
<1>5. Goto(h, r) /\ UNCHANGED committed /\ r.step # "receiving"
  BY <1>1, <1>3, <1>4 DEF TakeNumber, n
<1> QED BY <1>4, <1>5, LetGo

\* Having a connection changes nothing of what a handler has read.
LEMMA BeginUpdatePreserves ==
    ASSUME IInv, NEW h \in Handlers, BeginUpdate(h)
    PROVE  IInv'
<1>1. PICK p \in Places : p = at[h] /\ Fits(p) /\ p.step = "updating"
  BY DEF IInv, TypeOK, BeginUpdate, Doing
<1>2. PICK r \in Places : r = [p EXCEPT !.step = "overwriting"] /\ r.step = "overwriting" /\ Fits(r)
  <2>1. [p EXCEPT !.step = "overwriting"] =
           [step |-> "overwriting", doc |-> p.doc, seen |-> p.seen, row |-> p.row, number |-> p.number]
    BY <1>1, PlaceFields
  <2>2. [p EXCEPT !.step = "overwriting"] \in Places
    BY <1>1, <2>1, PlaceFields DEF Places
  <2> QED BY <1>1, <2>1, <2>2 DEF Fits
<1>3. Goto(h, r) /\ UNCHANGED committed
  BY <1>1, <1>2 DEF BeginUpdate
<1> QED BY <1>2, <1>3, LetGo

LEMMA BeginMarkPreserves ==
    ASSUME IInv, NEW h \in Handlers, BeginMark(h)
    PROVE  IInv'
<1>1. PICK p \in Places : p = at[h] /\ Fits(p) /\ p.step = "marking"
  BY DEF IInv, TypeOK, BeginMark, Doing
<1>2. PICK r \in Places : r = [p EXCEPT !.step = "setting"] /\ r.step = "setting" /\ Fits(r)
  <2>1. [p EXCEPT !.step = "setting"] =
           [step |-> "setting", doc |-> p.doc, seen |-> p.seen, status |-> p.status]
    BY <1>1, PlaceFields
  <2>2. [p EXCEPT !.step = "setting"] \in Places
    BY <1>1, <2>1, PlaceFields DEF Places
  <2> QED BY <1>1, <2>1, <2>2 DEF Fits
<1>3. Goto(h, r) /\ UNCHANGED committed
  BY <1>1, <1>2 DEF BeginMark
<1> QED BY <1>2, <1>3, LetGo

LEMMA TakeReceiptNumberPreserves ==
    ASSUME IInv, NEW h \in Handlers, TakeReceiptNumber(h)
    PROVE  IInv'
<1> DEFINE n == receipts[docs[at[h].doc].customer] + 1
<1>1. PICK p \in Places : p = at[h] /\ Fits(p) /\ p.step = "receiving"
  BY DEF IInv, TypeOK, TakeReceiptNumber, Doing
<1>2. n \in Nat
  BY <1>1, PlaceFields, ExistsIsRow, RowFields DEF IInv, TypeOK, Fits, Invoice
<1> HIDE DEF n
<1>3. PICK r \in Places : /\ r = [p EXCEPT !.number = n]
                          /\ r.step = "receiving" /\ r.doc = p.doc /\ Fits(r)
  <2>1. [p EXCEPT !.number = n] =
           [step |-> "receiving", doc |-> p.doc, amount |-> p.amount, usd |-> p.usd,
            settles |-> p.settles, number |-> n]
    BY <1>1, PlaceFields
  <2>2. [p EXCEPT !.number = n] \in Places
    BY <1>1, <1>2, <2>1, PlaceFields DEF Places
  <2> QED BY <1>1, <2>1, <2>2 DEF Fits
<1>4. Goto(h, r) /\ UNCHANGED committed
  BY <1>1, <1>3 DEF TakeReceiptNumber, n
<1>5. \A g \in Handlers \ {h} : ~(Doing(g, "receiving") /\ at[g].doc = r.doc)
  BY <1>1, <1>3 DEF IInv, Exclusive, Doing
<1> QED BY <1>3, <1>4, <1>5, LetGo

LEMMA LockInvoicePreserves ==
    ASSUME IInv, NEW h \in Handlers, LockInvoice(h)
    PROVE  IInv'
<1> DEFINE i == at[h].doc
           amount == Asked(i, at[h].amount)
           p == [step |-> "receiving", doc |-> i, amount |-> amount, usd |-> Value(i, amount),
                 settles |-> amount = Due(i), number |-> 0]
<1>1. at[h] \in Places /\ Fits(at[h]) /\ at[h].step = "collecting"
  BY DEF IInv, TypeOK, LockInvoice, Doing
<1>2. i \in Ids /\ Invoice(i) /\ at[h].amount \in Int \cup {Rest}
  BY <1>1, PlaceFields DEF Fits
<1>3. docs[i] \in Row /\ received[i].total \in Nat /\ received[i].usd \in Int
  BY <1>2, ExistsIsRow DEF IInv, TypeOK, Invoice
<1>4. Due(i) \in Int /\ amount \in Int
  BY <1>2, <1>3, RowFields DEF Due, Asked
<1>5. docs[i].status = "issued" /\ 0 < amount /\ amount <= Due(i)
  BY DEF LockInvoice, Collectable
<1>6. amount \in Nat
  BY <1>4, <1>5
<1>7. Value(i, amount) \in Int
  BY <1>3, <1>6, RowFields, ToUsdNat DEF Value
<1>8. amount = Due(i) => Value(i, amount) = docs[i].usd - received[i].usd
  BY DEF Value
<1>9. Goto(h, p) /\ UNCHANGED committed /\ ~Locked(i)
  BY DEF LockInvoice
<1>10. p \in Places
  BY <1>2, <1>6, <1>7 DEF Places
<1>11. Fits(p)
  BY <1>2, <1>5, <1>8 DEF Fits
<1>12. \A g \in Handlers \ {h} : ~(Doing(g, "receiving") /\ at[g].doc = i)
  BY <1>9 DEF Locked
<1> QED BY <1>9, <1>10, <1>11, <1>12, LetGo

-----------------------------------------------------------------------------
(* Steps that commit.                                                       *)

\* The others are none the wiser: rows keep their type and source, and what is held
\* under a lock is left alone.
LEMMA Leaves ==
    ASSUME IInv, NEW h \in Handlers, Goto(h, Idle),
           \A j \in Ids : Exists(j) =>
               Exists(j)' /\ docs'[j].type = docs[j].type /\ docs'[j].source = docs[j].source,
           \A g \in Handlers \ {h} : Doing(g, "receiving") =>
               docs'[at[g].doc] = docs[at[g].doc] /\ received'[at[g].doc] = received[at[g].doc]
    PROVE  /\ at' \in [Handlers -> Places]
           /\ \A g \in Handlers : Fits(at[g])'
           /\ Exclusive'
<1>1. at \in [Handlers -> Places] /\ at' = [at EXCEPT ![h] = Idle] /\ Idle \in Places
  BY DEF IInv, TypeOK, Goto, Places, Idle
<1>2. at'[h] = Idle /\ \A g \in Handlers \ {h} : at'[g] = at[g]
  BY <1>1
<1>3. \A g \in Handlers : Fits(at[g])'
  <2> SUFFICES ASSUME NEW g \in Handlers PROVE Fits(at[g])'
    OBVIOUS
  <2>1. CASE g = h
    BY <1>2, <2>1 DEF Fits, Idle
  <2>2. CASE g # h
    <3>1. PICK p \in Places : p = at[g] /\ p = at'[g]
      BY <1>1, <1>2, <2>2
    <3>2. Fits(p)
      BY <3>1 DEF IInv
    <3>3. p.step \in {"updating", "overwriting", "marking", "setting", "converting", "issuing",
                      "collecting", "receiving"} => p.doc \in Ids
      BY PlaceFields
    <3>4. p.step = "receiving" => docs'[p.doc] = docs[p.doc] /\ received'[p.doc] = received[p.doc]
      <4>1. Doing(g, "receiving") =>
               docs'[at[g].doc] = docs[at[g].doc] /\ received'[at[g].doc] = received[at[g].doc]
        BY <2>2
      <4> QED BY <3>1, <4>1 DEF Doing
    <3>5. Fits(p)'
      BY <3>2, <3>3, <3>4 DEF Fits, Invoice, Due, Exists
    <3> QED BY <3>1, <3>5 DEF Fits
  <2> QED BY <2>1, <2>2
<1>4. Exclusive'
  BY <1>2 DEF IInv, Exclusive, Doing, Idle
<1> QED BY <1>1, <1>3, <1>4

\* A document no step has touched comes to what it did.
LEMMA TallyKept ==
    ASSUME NEW j \in Ids, Tally(j), docs'[j] = docs[j], journal'[j] = journal[j],
           received'[j] = received[j], j \in overtaken' <=> j \in overtaken
    PROVE  Tally(j)'
BY DEF Tally, Exists, Billed, Invoice, Due

\* No quotation gains an invoice.
FewerLive == \A q \in Ids : LiveInvoices(q)' \subseteq LiveInvoices(q)

\* An entry changes the balances of its invoice and of no other.
LEMMA PostedAt ==
    ASSUME TypeOK, NEW i \in Ids,
           NEW r \in Int, NEW c \in Int, NEW n \in Int, NEW v \in Int
    PROVE  /\ Posted(i, r, c, n, v) \in
                 [Ids -> [receivable : Int, cash : Int, income : Int, vat : Int]]
           /\ Posted(i, r, c, n, v)[i] =
                 [receivable |-> journal[i].receivable + r, cash |-> journal[i].cash + c,
                  income |-> journal[i].income + n, vat |-> journal[i].vat + v]
           /\ \A j \in Ids \ {i} : Posted(i, r, c, n, v)[j] = journal[j]
<1> DEFINE entry == [receivable |-> journal[i].receivable + r, cash |-> journal[i].cash + c,
                     income |-> journal[i].income + n, vat |-> journal[i].vat + v]
<1>1. /\ journal \in [Ids -> [receivable : Int, cash : Int, income : Int, vat : Int]]
      /\ journal[i] \in [receivable : Int, cash : Int, income : Int, vat : Int]
  BY DEF TypeOK
<1>2. entry \in [receivable : Int, cash : Int, income : Int, vat : Int]
  BY <1>1
<1>3. Posted(i, r, c, n, v) = [journal EXCEPT ![i] = entry]
  BY DEF Posted
<1> HIDE DEF entry
<1>4. /\ Posted(i, r, c, n, v) \in
            [Ids -> [receivable : Int, cash : Int, income : Int, vat : Int]]
      /\ Posted(i, r, c, n, v)[i] = entry
      /\ \A j \in Ids \ {i} : Posted(i, r, c, n, v)[j] = journal[j]
  BY <1>1, <1>2, <1>3
<1> QED BY <1>4 DEF entry

LEMMA CreatePreserves ==
    ASSUME IInv, NEW h \in Handlers, NEW i \in Ids, Create(h, i)
    PROVE  IInv' /\ FewerLive
<1> DEFINE row == Numbered(h)
<1>1. PICK p \in Places : p = at[h] /\ Fits(p) /\ p.step = "creating"
  BY DEF IInv, TypeOK, Create, Doing
<1>2. row \in Row /\ row.status = "draft" /\ row.source = None
  BY <1>1, PlaceFields DEF Numbered, Row, Fits
<1> HIDE DEF row
<1>3. /\ docs' = [docs EXCEPT ![i] = row] /\ docs \in [Ids -> Row \cup {Absent}]
      /\ UNCHANGED <<received, receipts, journal, overtaken>> /\ Goto(h, Idle)
      /\ ~Exists(i)
  BY NextIdFresh, SalesAssumption DEF Create, IInv, TypeOK, row, Ids
<1>4. docs'[i] = row /\ \A j \in Ids \ {i} : docs'[j] = docs[j]
  BY <1>3
<1>5. at' \in [Handlers -> Places] /\ (\A g \in Handlers : Fits(at[g])') /\ Exclusive'
  <2>1. \A j \in Ids : Exists(j) =>
           Exists(j)' /\ docs'[j].type = docs[j].type /\ docs'[j].source = docs[j].source
    BY <1>3, <1>4 DEF Exists
  <2>2. \A g \in Handlers : Doing(g, "receiving") => at[g].doc \in Ids \ {i}
    BY <1>3, PlaceFields DEF Doing, IInv, TypeOK, Fits, Invoice
  <2>3. \A g \in Handlers \ {h} : Doing(g, "receiving") =>
           docs'[at[g].doc] = docs[at[g].doc] /\ received'[at[g].doc] = received[at[g].doc]
    BY <1>3, <1>4, <2>2
  <2> QED BY <1>3, <2>1, <2>3, Leaves
<1>6. TypeOK'
  BY <1>2, <1>3, <1>5 DEF IInv, TypeOK
<1>7. EntriesBalance'
  BY <1>3 DEF IInv, EntriesBalance
<1>8. \A j \in Ids : Tally(j)'
  <2> SUFFICES ASSUME NEW j \in Ids PROVE Tally(j)'
    OBVIOUS
  <2>1. CASE j = i
    BY <1>2, <1>3, <1>4, <2>1 DEF IInv, Tally, Billed, Invoice
  <2>2. CASE j # i
    BY <1>3, <1>4, <2>2, TallyKept DEF IInv
  <2> QED BY <2>1, <2>2
<1>9. FewerLive
  BY <1>2, <1>3, <1>4, SalesAssumption DEF FewerLive, LiveInvoices, Exists, Ids
<1> QED BY <1>5, <1>6, <1>7, <1>8, <1>9 DEF IInv

LEMMA UpdatePreserves ==
    ASSUME IInv, NEW h \in Handlers, Update(h)
    PROVE  IInv' /\ FewerLive
<1> DEFINE i == at[h].doc
           row == [Numbered(h) EXCEPT !.status = docs[i].status, !.booked = docs[i].booked]
<1>1. PICK p \in Places : p = at[h] /\ Fits(p) /\ p.step = "overwriting"
  BY DEF IInv, TypeOK, Update, Doing
<1>2. i \in Ids /\ Exists(i) /\ docs[i] \in Row
  BY <1>1, PlaceFields, ExistsIsRow DEF IInv, Fits
<1>3. /\ row \in Row /\ row.status = docs[i].status /\ row.booked = docs[i].booked
      /\ row.type = docs[i].type /\ row.source = docs[i].source
  <2>1. PICK r \in Row : r = Numbered(h) /\ r.type = docs[i].type /\ r.source = docs[i].source
    <3>1. /\ p.row \in Row /\ p.number \in Nat
          /\ p.row.type = docs[i].type /\ p.row.source = docs[i].source
      BY <1>1, PlaceFields DEF Fits
    <3>2. Numbered(h) = [p.row EXCEPT !.number = p.number]
      BY <1>1 DEF Numbered
    <3> QED BY <3>1, <3>2 DEF Row
  <2>2. docs[i].status \in Statuses /\ docs[i].booked \in BOOLEAN
    BY <1>2, RowFields
  <2>3. row = [r EXCEPT !.status = docs[i].status, !.booked = docs[i].booked]
    BY <2>1
  <2> HIDE DEF row
  <2> QED BY <2>1, <2>2, <2>3 DEF Row
<1>4. /\ docs' = [docs EXCEPT ![i] = row] /\ docs \in [Ids -> Row \cup {Absent}]
      /\ overtaken' = IF docs[i].status # "draft" THEN overtaken \cup {i} ELSE overtaken
      /\ UNCHANGED <<received, receipts, journal>> /\ Goto(h, Idle) /\ ~Locked(i)
  BY <1>1 DEF Update, IInv, TypeOK, Fits
<1> HIDE DEF row
<1>5. docs'[i] = row /\ \A j \in Ids \ {i} : docs'[j] = docs[j]
  BY <1>2, <1>4
<1>6. at' \in [Handlers -> Places] /\ (\A g \in Handlers : Fits(at[g])') /\ Exclusive'
  <2>1. \A j \in Ids : Exists(j) =>
           Exists(j)' /\ docs'[j].type = docs[j].type /\ docs'[j].source = docs[j].source
    BY <1>3, <1>5, RowFields DEF Exists
  <2>2. \A g \in Handlers : Doing(g, "receiving") => at[g].doc \in Ids \ {i}
    BY <1>4, PlaceFields DEF Doing, IInv, TypeOK, Locked
  <2>3. \A g \in Handlers \ {h} : Doing(g, "receiving") =>
           docs'[at[g].doc] = docs[at[g].doc] /\ received'[at[g].doc] = received[at[g].doc]
    BY <1>4, <1>5, <2>2
  <2> QED BY <1>4, <2>1, <2>3, Leaves
<1>7. TypeOK'
  BY <1>2, <1>3, <1>4, <1>6 DEF IInv, TypeOK
<1>8. EntriesBalance'
  BY <1>4 DEF IInv, EntriesBalance
<1>9. \A j \in Ids : Tally(j)'
  <2> SUFFICES ASSUME NEW j \in Ids PROVE Tally(j)'
    OBVIOUS
  <2>1. CASE j = i /\ docs[i].status = "draft"
    BY <1>2, <1>3, <1>4, <1>5, <2>1 DEF IInv, Tally, Billed, Invoice, Exists
  <2>2. CASE j = i /\ docs[i].status # "draft"
    BY <1>2, <1>3, <1>4, <1>5, <2>2, RowFields DEF Tally, Exists
  <2>3. CASE j # i
    BY <1>4, <1>5, <2>3, TallyKept DEF IInv
  <2> QED BY <2>1, <2>2, <2>3
<1>10. FewerLive
  BY <1>2, <1>3, <1>5 DEF FewerLive, LiveInvoices, Exists
<1> QED BY <1>6, <1>7, <1>8, <1>9, <1>10 DEF IInv

\* By hand a document is never issued, paid or taken back to a draft, and an invoice
\* is only voided.
LEMMA ByHand ==
    ASSUME NEW type \in Types, NEW seen, NEW status \in Allowed(type, seen)
    PROVE  /\ status \notin {"draft", "issued", "paid"}
           /\ type = "invoice" => status = "void" /\ seen = "draft"
<1>1. CASE type = "invoice"
  BY <1>1 DEF Allowed
<1>2. CASE type = "quotation"
  BY <1>2 DEF Allowed
<1> QED BY <1>1, <1>2 DEF Types

LEMMA SetStatusPreserves ==
    ASSUME IInv, NEW h \in Handlers, SetStatus(h)
    PROVE  IInv' /\ FewerLive
<1> DEFINE i == at[h].doc
           status == at[h].status
           row == [docs[i] EXCEPT !.status = status]
           stale == status \in Allowed(docs[i].type, at[h].seen)
                               \ Allowed(docs[i].type, docs[i].status)
<1>1. PICK p \in Places : p = at[h] /\ Fits(p) /\ p.step = "setting"
  BY DEF IInv, TypeOK, SetStatus, Doing
<1>2. i \in Ids /\ Exists(i) /\ docs[i] \in Row /\ status \in Statuses
  BY <1>1, PlaceFields, ExistsIsRow DEF IInv, Fits
<1>3. row \in Row /\ row.status = status /\ row.type = docs[i].type /\ row.source = docs[i].source
  BY <1>2 DEF Row
<1>4. /\ docs' = [docs EXCEPT ![i] = row] /\ docs \in [Ids -> Row \cup {Absent}]
      /\ overtaken' = IF stale THEN overtaken \cup {i} ELSE overtaken
      /\ UNCHANGED <<received, receipts, journal>> /\ Goto(h, Idle) /\ ~Locked(i)
  BY DEF SetStatus, IInv, TypeOK
<1>5. /\ status \notin {"draft", "issued", "paid"}
      /\ docs[i].type = "invoice" => status = "void"
      /\ docs[i].type = "invoice" /\ ~stale => docs[i].status = "draft"
  <2>1. docs[i].type \in Types /\ status \in Allowed(docs[i].type, at[h].seen)
    BY <1>1, <1>2, RowFields DEF Fits
  <2> QED BY <2>1, ByHand
<1> HIDE DEF row, stale
<1>6. docs'[i] = row /\ \A j \in Ids \ {i} : docs'[j] = docs[j]
  BY <1>2, <1>4
<1>7. at' \in [Handlers -> Places] /\ (\A g \in Handlers : Fits(at[g])') /\ Exclusive'
  <2>1. \A j \in Ids : Exists(j) =>
           Exists(j)' /\ docs'[j].type = docs[j].type /\ docs'[j].source = docs[j].source
    BY <1>3, <1>6, RowFields DEF Exists
  <2>2. \A g \in Handlers : Doing(g, "receiving") => at[g].doc \in Ids \ {i}
    BY <1>4, PlaceFields DEF Doing, IInv, TypeOK, Locked
  <2>3. \A g \in Handlers \ {h} : Doing(g, "receiving") =>
           docs'[at[g].doc] = docs[at[g].doc] /\ received'[at[g].doc] = received[at[g].doc]
    BY <1>4, <1>6, <2>2
  <2> QED BY <1>4, <2>1, <2>3, Leaves
<1>8. TypeOK'
  BY <1>2, <1>3, <1>4, <1>7 DEF IInv, TypeOK
<1>9. EntriesBalance'
  BY <1>4 DEF IInv, EntriesBalance
<1>10. \A j \in Ids : Tally(j)'
  <2> SUFFICES ASSUME NEW j \in Ids PROVE Tally(j)'
    OBVIOUS
  <2>1. CASE j = i
    <3>1. j \notin overtaken' => ~Billed(j)
      BY <1>4, <1>5, <2>1 DEF Billed, Invoice
    <3>2. ~Billed(j)' /\ Exists(j)'
      BY <1>3, <1>5, <1>6, <2>1, RowFields DEF Billed, Exists
    <3> QED BY <1>2, <1>3, <1>4, <1>5, <1>6, <2>1, <3>1, <3>2 DEF IInv, Tally
  <2>2. CASE j # i
    BY <1>4, <1>6, <2>2, TallyKept DEF IInv
  <2> QED BY <2>1, <2>2
<1>11. FewerLive
  BY <1>2, <1>3, <1>5, <1>6 DEF FewerLive, LiveInvoices, Exists
<1> QED BY <1>7, <1>8, <1>9, <1>10, <1>11 DEF IInv

\* A conversion gives its quotation one more invoice, and no other quotation any.
LEMMA ConvertPreserves ==
    ASSUME IInv, NEW h \in Handlers, NEW i \in Ids, Convert(h, i)
    PROVE  /\ IInv'
           /\ \A k \in Ids : /\ LiveInvoices(k)' \subseteq LiveInvoices(k) \cup {i}
                             /\ k # at[h].doc => LiveInvoices(k)' \subseteq LiveInvoices(k)
<1>1. PICK p \in Places : p = at[h] /\ Fits(p) /\ p.step = "converting"
  BY DEF IInv, TypeOK, Convert, Doing
<1> DEFINE q == p.doc
           old == [docs[q] EXCEPT !.status = "accepted"]
<1>2. /\ q \in Ids /\ Exists(q) /\ docs[q] \in Row /\ docs[q].type = "quotation"
      /\ p.row \in Row /\ p.number \in Nat
      /\ p.row.type = "invoice" /\ p.row.status = "draft" /\ p.row.source = q
  BY <1>1, PlaceFields, ExistsIsRow DEF IInv, Fits
<1>3. PICK row \in Row : /\ row = Numbered(h) /\ row.type = "invoice"
                         /\ row.status = "draft" /\ row.source = q
  <2>1. Numbered(h) = [p.row EXCEPT !.number = p.number]
    BY <1>1 DEF Numbered
  <2> QED BY <1>2, <2>1 DEF Row
<1>4. /\ docs' = [docs EXCEPT ![i] = row, ![q].status = "accepted"]
      /\ docs \in [Ids -> Row \cup {Absent}]
      /\ UNCHANGED <<received, receipts, journal, overtaken>> /\ Goto(h, Idle)
      /\ ~Exists(i) /\ i # q
  <2>1. i = NextId /\ i # q /\ ~Exists(i)
    BY <1>2, NextIdFresh, SalesAssumption DEF Convert, Ids
  <2>2. docs' = [docs EXCEPT ![i] = row, ![q].status = "accepted"]
    BY <1>1, <1>3 DEF Convert
  <2> QED BY <1>1, <2>1, <2>2 DEF Convert, IInv, TypeOK
<1>5. old \in Row /\ old.type = docs[q].type /\ old.source = docs[q].source /\ old.status = "accepted"
  BY <1>2 DEF Row, Statuses
<1>6. docs'[i] = row /\ docs'[q] = old /\ \A j \in Ids \ {i, q} : docs'[j] = docs[j]
  BY <1>2, <1>4
<1> HIDE DEF old, q
<1>7. at' \in [Handlers -> Places] /\ (\A g \in Handlers : Fits(at[g])') /\ Exclusive'
  <2>1. \A j \in Ids : Exists(j) =>
           Exists(j)' /\ docs'[j].type = docs[j].type /\ docs'[j].source = docs[j].source
    BY <1>4, <1>5, <1>6, RowFields DEF Exists
  <2>2. \A g \in Handlers : Doing(g, "receiving") => at[g].doc \in Ids \ {i, q}
    BY <1>2, <1>4, PlaceFields DEF Doing, IInv, TypeOK, Fits, Invoice
  <2>3. \A g \in Handlers \ {h} : Doing(g, "receiving") =>
           docs'[at[g].doc] = docs[at[g].doc] /\ received'[at[g].doc] = received[at[g].doc]
    BY <1>4, <1>6, <2>2
  <2> QED BY <1>4, <2>1, <2>3, Leaves
<1>8. TypeOK'
  <2>1. docs' \in [Ids -> Row \cup {Absent}]
    BY <1>2, <1>4, <1>5, <1>6
  <2> QED BY <1>2, <1>4, <1>7, <2>1 DEF IInv, TypeOK
<1>9. EntriesBalance'
  BY <1>4 DEF IInv, EntriesBalance
<1>10. \A j \in Ids : Tally(j)'
  <2> SUFFICES ASSUME NEW j \in Ids PROVE Tally(j)'
    OBVIOUS
  <2>1. CASE j = i
    BY <1>3, <1>4, <1>6, <2>1 DEF IInv, Tally, Billed, Invoice
  <2>2. CASE j = q
    <3>1. ~Billed(j) /\ ~Billed(j)' /\ Exists(j)'
      BY <1>2, <1>5, <1>6, <2>2, RowFields DEF Billed, Invoice, Exists
    <3> QED BY <1>4, <1>5, <1>6, <2>2, <3>1 DEF IInv, Tally
  <2>3. CASE j \notin {i, q}
    BY <1>4, <1>6, <2>3, TallyKept DEF IInv
  <2> QED BY <2>1, <2>2, <2>3
<1>11. q = at[h].doc
  BY <1>1 DEF q
<1>12. ASSUME NEW k \in Ids
       PROVE  /\ LiveInvoices(k)' \subseteq LiveInvoices(k) \cup {i}
              /\ k # at[h].doc => LiveInvoices(k)' \subseteq LiveInvoices(k)
  <2>1. LiveInvoices(k)' \subseteq LiveInvoices(k) \cup {i}
    BY <1>2, <1>5, <1>6 DEF LiveInvoices, Exists
  <2>2. k # q => i \notin LiveInvoices(k)'
    BY <1>3, <1>6 DEF LiveInvoices
  <2> QED BY <1>11, <2>1, <2>2
<1>13. IInv'
  BY <1>7, <1>8, <1>9, <1>10 DEF IInv
<1> QED BY <1>12, <1>13

LEMMA IssuePreserves ==
    ASSUME IInv, NEW h \in Handlers, Issue(h)
    PROVE  IInv' /\ FewerLive
<1>1. PICK p \in Places : p = at[h] /\ Fits(p) /\ p.step = "issuing"
  BY DEF IInv, TypeOK, Issue, Doing
<1> DEFINE i == p.doc
           d == docs[i]
           income == ToUsd(d.net, d.rate)
           row == [d EXCEPT !.status = "issued", !.booked = p.post]
           entry == [receivable |-> journal[i].receivable + d.usd, cash |-> journal[i].cash + 0,
                     income |-> journal[i].income + income,
                     vat |-> journal[i].vat + (d.usd - income)]
           posted == Posted(i, d.usd, 0, income, d.usd - income)
<1>2. i \in Ids /\ Exists(i) /\ d \in Row /\ d.type = "invoice" /\ p.post \in BOOLEAN
  BY <1>1, PlaceFields, ExistsIsRow DEF IInv, Fits, Invoice
<1>3. /\ row \in Row /\ row.status = "issued" /\ row.booked = p.post /\ row.type = "invoice"
      /\ row.source = d.source /\ row.usd = d.usd
  BY <1>2 DEF Row, Statuses
<1>4. income \in Nat /\ d.usd \in Nat
  BY <1>2, RowFields, ToUsdNat
<1>5. /\ docs' = [docs EXCEPT ![i] = row] /\ docs \in [Ids -> Row \cup {Absent}]
      /\ journal' = IF p.post THEN posted ELSE journal
      /\ d.status = "draft" /\ (p.post => income <= d.usd)
      /\ UNCHANGED <<received, receipts, overtaken>> /\ Goto(h, Idle) /\ ~Locked(i)
  <2>1. docs \in [Ids -> Row \cup {Absent}]
    BY DEF IInv, TypeOK
  <2>2. docs' = [docs EXCEPT ![i].status = "issued", ![i].booked = p.post]
    BY <1>1 DEF Issue
  <2>3. docs' = [docs EXCEPT ![i] = row]
    BY <1>2, <2>1, <2>2
  <2>4. /\ d.status = "draft" /\ (p.post => income <= d.usd)
        /\ UNCHANGED <<received, receipts, overtaken>> /\ Goto(h, Idle) /\ ~Locked(i)
    BY <1>1 DEF Issue, Issuable
  <2>5. journal' = IF p.post THEN posted ELSE journal
    BY <1>1 DEF Issue
  <2> HIDE DEF posted, row, income
  <2> QED BY <2>1, <2>3, <2>4, <2>5
<1>6. i \notin overtaken /\ journal[i].receivable = 0 /\ received[i].total = 0 /\ received[i].usd = 0
  BY <1>2, <1>5 DEF IInv, Tally, Billed
<1>7. /\ journal \in [Ids -> [receivable : Int, cash : Int, income : Int, vat : Int]]
      /\ journal[i] \in [receivable : Int, cash : Int, income : Int, vat : Int]
      /\ journal[i].receivable + journal[i].cash = journal[i].income + journal[i].vat
      /\ journal[i].income >= 0 /\ journal[i].vat >= 0 /\ journal[i].cash >= 0
  BY <1>2 DEF IInv, TypeOK, EntriesBalance
<1>8. /\ posted \in [Ids -> [receivable : Int, cash : Int, income : Int, vat : Int]]
      /\ posted[i] = entry
      /\ \A j \in Ids \ {i} : posted[j] = journal[j]
  <2> DEFINE usd == d.usd
             tax == d.usd - income
  <2>1. /\ usd \in Int /\ 0 \in Int /\ income \in Int /\ tax \in Int
        /\ posted = Posted(i, usd, 0, income, tax)
        /\ entry = [receivable |-> journal[i].receivable + usd, cash |-> journal[i].cash + 0,
                    income |-> journal[i].income + income, vat |-> journal[i].vat + tax]
    BY <1>4
  <2>2. TypeOK /\ i \in Ids
    BY <1>2 DEF IInv
  <2>3. PICK r \in Int, z \in Int, n \in Int, v \in Int :
           r = usd /\ z = 0 /\ n = income /\ v = tax
    BY <2>1
  <2> HIDE DEF i, d, usd, tax, income, entry, posted
  <2>4. /\ Posted(i, r, z, n, v) \in
              [Ids -> [receivable : Int, cash : Int, income : Int, vat : Int]]
        /\ Posted(i, r, z, n, v)[i] =
              [receivable |-> journal[i].receivable + r, cash |-> journal[i].cash + z,
               income |-> journal[i].income + n, vat |-> journal[i].vat + v]
        /\ \A j \in Ids \ {i} : Posted(i, r, z, n, v)[j] = journal[j]
    BY <2>2, PostedAt
  <2> QED BY <2>1, <2>3, <2>4
<1>9. /\ entry.receivable = journal[i].receivable + d.usd /\ entry.cash = journal[i].cash + 0
      /\ entry.income = journal[i].income + income
      /\ entry.vat = journal[i].vat + (d.usd - income)
  OBVIOUS
<1> HIDE DEF i, d, row, income, entry, posted
<1>10. /\ docs'[i] = row /\ (p.post => journal'[i] = entry)
       /\ \A j \in Ids \ {i} : docs'[j] = docs[j] /\ journal'[j] = journal[j]
  BY <1>2, <1>5, <1>7, <1>8
<1>11. at' \in [Handlers -> Places] /\ (\A g \in Handlers : Fits(at[g])') /\ Exclusive'
  <2>1. \A j \in Ids : Exists(j) =>
           Exists(j)' /\ docs'[j].type = docs[j].type /\ docs'[j].source = docs[j].source
    BY <1>2, <1>3, <1>10, RowFields DEF Exists, d
  <2>2. \A g \in Handlers : Doing(g, "receiving") => at[g].doc \in Ids \ {i}
    BY <1>5, PlaceFields DEF Doing, IInv, TypeOK, Locked
  <2>3. \A g \in Handlers \ {h} : Doing(g, "receiving") =>
           docs'[at[g].doc] = docs[at[g].doc] /\ received'[at[g].doc] = received[at[g].doc]
    BY <1>5, <1>10, <2>2
  <2> QED BY <1>5, <2>1, <2>3, Leaves
<1>12. TypeOK'
  BY <1>2, <1>3, <1>5, <1>7, <1>8, <1>11 DEF IInv, TypeOK
<1>13. EntriesBalance'
  <2> SUFFICES ASSUME NEW j \in Ids
               PROVE  /\ journal'[j].receivable + journal'[j].cash
                             = journal'[j].income + journal'[j].vat
                      /\ journal'[j].income >= 0 /\ journal'[j].vat >= 0 /\ journal'[j].cash >= 0
    BY DEF EntriesBalance
  <2>1. CASE j = i /\ p.post
    <3>1. /\ journal[i].receivable \in Int /\ journal[i].cash \in Int
          /\ journal[i].income \in Int /\ journal[i].vat \in Int
      BY <1>7
    <3> QED BY <1>4, <1>5, <1>7, <1>9, <1>10, <2>1, <3>1
  <2>2. CASE j = i /\ ~p.post
    BY <1>5, <1>7, <2>2
  <2>3. CASE j # i
    BY <1>10, <2>3 DEF IInv, EntriesBalance
  <2> QED BY <2>1, <2>2, <2>3
<1>14. \A j \in Ids : Tally(j)'
  <2> SUFFICES ASSUME NEW j \in Ids PROVE Tally(j)'
    OBVIOUS
  <2>1. CASE j = i
    <3>1. Exists(j)' /\ docs'[j] = row /\ received'[j] = received[j]
      BY <1>3, <1>5, <1>10, <2>1, RowFields DEF Exists
    <3>2. journal'[j].receivable = IF p.post THEN d.usd - received[j].usd ELSE 0
      BY <1>4, <1>5, <1>6, <1>9, <1>10, <2>1
    <3> QED BY <1>3, <3>1, <3>2 DEF Tally, Billed, Invoice
  <2>2. CASE j # i
    BY <1>5, <1>10, <2>2, TallyKept DEF IInv
  <2> QED BY <2>1, <2>2
<1>15. FewerLive
  BY <1>2, <1>3, <1>5, <1>10 DEF FewerLive, LiveInvoices, Exists, d
<1> QED BY <1>11, <1>12, <1>13, <1>14, <1>15 DEF IInv

LEMMA ReceivePreserves ==
    ASSUME IInv, NEW h \in Handlers, Receive(h)
    PROVE  IInv' /\ FewerLive
<1>1. PICK p \in Places : p = at[h] /\ Fits(p) /\ p.step = "receiving"
  BY DEF IInv, TypeOK, Receive, Doing
<1> DEFINE i == p.doc
           d == docs[i]
           row == IF p.settles THEN [d EXCEPT !.status = "paid"] ELSE d
           got == [total |-> received[i].total + p.amount, usd |-> received[i].usd + p.usd]
           entry == [receivable |-> journal[i].receivable + (-p.usd),
                     cash |-> journal[i].cash + p.usd,
                     income |-> journal[i].income + 0, vat |-> journal[i].vat + 0]
           posted == Posted(i, -p.usd, p.usd, 0, 0)
<1>2. /\ i \in Ids /\ Exists(i) /\ d \in Row /\ d.type = "invoice" /\ d.status = "issued"
      /\ p.amount \in Nat /\ p.usd \in Int /\ p.settles \in BOOLEAN
      /\ p.settles => p.amount = Due(i) /\ p.usd = d.usd - received[i].usd
  BY <1>1, PlaceFields, ExistsIsRow DEF IInv, Fits, Invoice
<1>3. /\ row \in Row /\ row.type = "invoice" /\ row.source = d.source /\ row.booked = d.booked
      /\ row.usd = d.usd /\ row.total = d.total
      /\ row.status = IF p.settles THEN "paid" ELSE "issued"
  BY <1>2 DEF Row, Statuses
<1>4. /\ received[i].total \in Nat /\ received[i].usd \in Int /\ d.usd \in Nat /\ d.total \in Nat
      /\ got \in [total : Nat, usd : Int]
  BY <1>2, RowFields DEF IInv, TypeOK
<1>5. /\ docs \in [Ids -> Row \cup {Absent}] /\ received \in [Ids -> [total : Nat, usd : Int]]
      /\ receipts \in [Customers -> Nat]
      /\ journal \in [Ids -> [receivable : Int, cash : Int, income : Int, vat : Int]]
  BY DEF IInv, TypeOK
<1>6. /\ docs' = [docs EXCEPT ![i] = row]
      /\ received' = [received EXCEPT ![i] = got]
      /\ journal' = IF d.booked THEN posted ELSE journal
      /\ receipts' = [receipts EXCEPT ![d.customer] = @ + 1]
      /\ d.booked => p.usd >= 0
      /\ UNCHANGED overtaken /\ Goto(h, Idle)
  <2>1. docs' = [docs EXCEPT ![i] = row]
    BY <1>1, <1>2, <1>5 DEF Receive
  <2>2. received' = [received EXCEPT ![i] = got]
    BY <1>1 DEF Receive
  <2>3. journal' = IF d.booked THEN posted ELSE journal
    BY <1>1 DEF Receive
  <2>4. /\ receipts' = [receipts EXCEPT ![d.customer] = @ + 1]
        /\ UNCHANGED overtaken /\ Goto(h, Idle)
    BY <1>1 DEF Receive
  <2>5. d.booked => p.usd >= 0
    BY <1>1 DEF Receive, Recordable
  <2> HIDE DEF row, got, posted, d
  <2> QED BY <2>1, <2>2, <2>3, <2>4, <2>5
<1>7. /\ journal[i] \in [receivable : Int, cash : Int, income : Int, vat : Int]
      /\ journal[i].receivable + journal[i].cash = journal[i].income + journal[i].vat
      /\ journal[i].income >= 0 /\ journal[i].vat >= 0 /\ journal[i].cash >= 0
  BY <1>2 DEF IInv, TypeOK, EntriesBalance
<1>8. /\ posted \in [Ids -> [receivable : Int, cash : Int, income : Int, vat : Int]]
      /\ posted[i] = entry
      /\ \A j \in Ids \ {i} : posted[j] = journal[j]
  <2>1. PICK m \in Int, n \in Int, z \in Int : m = -p.usd /\ n = p.usd /\ z = 0
    BY <1>2
  <2>2. /\ Posted(i, m, n, z, z) \in
              [Ids -> [receivable : Int, cash : Int, income : Int, vat : Int]]
        /\ Posted(i, m, n, z, z)[i] =
              [receivable |-> journal[i].receivable + m, cash |-> journal[i].cash + n,
               income |-> journal[i].income + z, vat |-> journal[i].vat + z]
        /\ \A j \in Ids \ {i} : Posted(i, m, n, z, z)[j] = journal[j]
    BY <1>2, PostedAt DEF IInv
  <2> QED BY <2>1, <2>2
<1>9. /\ got.total = received[i].total + p.amount /\ got.usd = received[i].usd + p.usd
      /\ entry.receivable = journal[i].receivable + (-p.usd) /\ entry.cash = journal[i].cash + p.usd
      /\ entry.income = journal[i].income + 0 /\ entry.vat = journal[i].vat + 0
  OBVIOUS
<1>10. d.booked \in BOOLEAN /\ d.customer \in Customers
  BY <1>2, RowFields
<1>11. Due(i) = d.total - received[i].total
  BY DEF Due
<1> HIDE DEF i, d, row, got, entry, posted
<1>12. /\ docs'[i] = row /\ received'[i] = got /\ (d.booked => journal'[i] = entry)
       /\ \A j \in Ids \ {i} : docs'[j] = docs[j] /\ journal'[j] = journal[j] /\ received'[j] = received[j]
  BY <1>2, <1>5, <1>6, <1>8
<1>13. at' \in [Handlers -> Places] /\ (\A g \in Handlers : Fits(at[g])') /\ Exclusive'
  <2>1. \A j \in Ids : Exists(j) =>
           Exists(j)' /\ docs'[j].type = docs[j].type /\ docs'[j].source = docs[j].source
    BY <1>2, <1>3, <1>12, RowFields DEF Exists, d
  <2>2. \A g \in Handlers \ {h} : Doing(g, "receiving") => at[g].doc \in Ids \ {i}
    BY <1>1, PlaceFields DEF Doing, IInv, TypeOK, Exclusive, i
  <2>3. \A g \in Handlers \ {h} : Doing(g, "receiving") =>
           docs'[at[g].doc] = docs[at[g].doc] /\ received'[at[g].doc] = received[at[g].doc]
    BY <1>12, <2>2
  <2> QED BY <1>6, <2>1, <2>3, Leaves
<1>14. TypeOK'
  <2>1. docs' \in [Ids -> Row \cup {Absent}]
    BY <1>2, <1>3, <1>5, <1>6
  <2>2. received' \in [Ids -> [total : Nat, usd : Int]] /\ receipts' \in [Customers -> Nat]
    BY <1>2, <1>4, <1>5, <1>6, <1>10
  <2>3. journal' \in [Ids -> [receivable : Int, cash : Int, income : Int, vat : Int]]
    BY <1>2, <1>5, <1>6, <1>8
  <2> QED BY <1>6, <1>13, <2>1, <2>2, <2>3 DEF IInv, TypeOK
<1>15. EntriesBalance'
  <2> SUFFICES ASSUME NEW j \in Ids
               PROVE  /\ journal'[j].receivable + journal'[j].cash
                             = journal'[j].income + journal'[j].vat
                      /\ journal'[j].income >= 0 /\ journal'[j].vat >= 0 /\ journal'[j].cash >= 0
    BY DEF EntriesBalance
  <2>1. CASE j = i /\ d.booked
    <3>1. /\ journal[i].receivable \in Int /\ journal[i].cash \in Int
          /\ journal[i].income \in Int /\ journal[i].vat \in Int
      BY <1>7
    <3> QED BY <1>2, <1>6, <1>7, <1>9, <1>12, <2>1, <3>1
  <2>2. CASE j = i /\ ~d.booked
    BY <1>6, <1>7, <2>2
  <2>3. CASE j # i
    BY <1>12, <2>3 DEF IInv, EntriesBalance
  <2> QED BY <2>1, <2>2, <2>3
<1>16. \A j \in Ids : Tally(j)'
  <2> SUFFICES ASSUME NEW j \in Ids PROVE Tally(j)'
    OBVIOUS
  <2>1. CASE j = i
    <3>1. Exists(j)' /\ docs'[j] = row /\ received'[j] = got
      BY <1>3, <1>12, <2>1, RowFields DEF Exists
    <3>2. j \notin overtaken =>
             journal[j].receivable = IF d.booked THEN d.usd - received[j].usd ELSE 0
      BY <1>2, <2>1 DEF IInv, Tally, Billed, Invoice, d
    <3>3. j \notin overtaken => journal'[j].receivable = IF d.booked THEN d.usd - got.usd ELSE 0
      BY <1>2, <1>4, <1>6, <1>7, <1>9, <1>12, <2>1, <3>2
    <3>4. p.settles => d.total - got.total = 0 /\ d.usd - got.usd = 0
      BY <1>2, <1>4, <1>9, <1>11
    <3>5. Due(j)' = d.total - got.total
      BY <1>3, <3>1 DEF Due
    <3> QED BY <1>3, <1>6, <3>1, <3>3, <3>4, <3>5 DEF Tally, Billed, Invoice
  <2>2. CASE j # i
    BY <1>6, <1>12, <2>2, TallyKept DEF IInv
  <2> QED BY <2>1, <2>2
<1>17. FewerLive
  BY <1>2, <1>3, <1>12 DEF FewerLive, LiveInvoices, Exists, d
<1> QED BY <1>13, <1>14, <1>15, <1>16, <1>17 DEF IInv

LEMMA NextPreserves == IInv /\ [Next]_vars => IInv'
<1> SUFFICES ASSUME IInv, [Next]_vars PROVE IInv'
  OBVIOUS
<1>1. CASE UNCHANGED vars
  <2>1. UNCHANGED committed /\ UNCHANGED at
    BY <1>1 DEF vars, committed
  <2> QED BY <2>1 DEF IInv, TypeOK, Fits, Exclusive, EntriesBalance, Tally,
        committed, Exists, Billed, Invoice, Due, Doing
<1>2. ASSUME NEW h \in Clerks, NEW q \in Rates, NEW f \in NewForms, ReadForCreate(h, f, q)
      PROVE  IInv'
  BY <1>2, ReadForCreatePreserves
<1>3. ASSUME NEW h \in Clerks, NEW q \in Rates, NEW i \in Ids, NEW f \in EditForms,
             ReadForUpdate(h, i, f, q)
      PROVE  IInv'
  BY <1>3, ReadForUpdatePreserves
<1>4. ASSUME NEW h \in Clerks, NEW i \in Ids, NEW status \in Statuses, ReadForStatus(h, i, status)
      PROVE  IInv'
  BY <1>4, ReadForStatusPreserves
<1>5. ASSUME NEW h \in Converters, NEW q \in Ids, ReadForConvert(h, q)
      PROVE  IInv'
  BY <1>5, ReadForConvertPreserves
<1>6. ASSUME NEW h \in Issuers, NEW i \in Ids, NEW post \in BOOLEAN, BeginIssue(h, i, post)
      PROVE  IInv'
  <2>1. Rest \in Amounts \cup {Rest}
    OBVIOUS
  <2> QED BY <1>6, <2>1, BeginPreserves
<1>7. ASSUME NEW h \in Cashiers, NEW i \in Ids, NEW amount \in Amounts \cup {Rest},
             BeginReceipt(h, i, amount)
      PROVE  IInv'
  BY <1>7, BeginPreserves
<1>8. ASSUME NEW h \in Handlers, Continue(h) \/ Abandon(h)
      PROVE  IInv'
  <2>1. ASSUME NEW i \in Ids, Create(h, i) PROVE IInv'
    BY <2>1, CreatePreserves
  <2>2. ASSUME NEW i \in Ids, Convert(h, i) PROVE IInv'
    BY <2>2, ConvertPreserves
  <2> QED BY <1>8, <2>1, <2>2, TakeNumberPreserves, BeginUpdatePreserves, UpdatePreserves,
        BeginMarkPreserves, SetStatusPreserves, IssuePreserves, LockInvoicePreserves, TakeReceiptNumberPreserves, ReceivePreserves,
        AbandonPreserves DEF Continue
<1> QED BY <1>1, <1>2, <1>3, <1>4, <1>5, <1>6, <1>7, <1>8 DEF Next

LEMMA Invariance == Spec => []IInv
BY InitInv, NextPreserves, PTL DEF Spec

\* The rows, sums, balances and places stay of their types: sums of money and numbers
\* stay natural, and a handler is always at a step the code has.
THEOREM TypeCorrect == Spec => []TypeOK
BY Invariance, PTL DEF IInv

\* Debits equal credits for every invoice and no balance that should not be negative
\* is, for all rates and amounts: issueInvoice gives VAT what rounding leaves and
\* recordReceipt books a receipt only of an invoice that was booked.
THEOREM EntriesAreBalanced == Spec => []EntriesBalance
BY Invariance, PTL DEF IInv

-----------------------------------------------------------------------------
(* One invoice of a quotation.                                              *)

AtMostOne(q) == \A i, j \in LiveInvoices(q) : i = j

\* What a conversion has read still stands: its quotation has no invoice yet.
NoneYet(p) == p.step = "converting" => LiveInvoices(p.doc) = {}

OneEach ==
    /\ \A q \in Ids : AtMostOne(q)
    /\ \A h \in Handlers : NoneYet(at[h])

\* A step that gives no quotation an invoice, by a handler that has read nothing it
\* would convert or has just read it.
LEMMA NoneGained ==
    ASSUME IInv, OneEach, FewerLive, NEW h \in Handlers, NEW p \in Places, Goto(h, p), NoneYet(p)'
    PROVE  OneEach'
<1>1. at' = [at EXCEPT ![h] = p] /\ at \in [Handlers -> Places]
  BY DEF Goto, IInv, TypeOK
<1>2. at'[h] = p /\ \A g \in Handlers \ {h} : at'[g] = at[g]
  BY <1>1
<1>3. \A q \in Ids : AtMostOne(q)'
  BY DEF OneEach, AtMostOne, FewerLive
<1>4. \A g \in Handlers : NoneYet(at[g])'
  <2> SUFFICES ASSUME NEW g \in Handlers \ {h} PROVE NoneYet(at[g])'
    BY <1>2 DEF NoneYet
  <2>1. PICK r \in Places : r = at[g] /\ r = at'[g] /\ NoneYet(r)
    BY <1>1, <1>2 DEF OneEach
  <2>2. r.step = "converting" => r.doc \in Ids
    BY PlaceFields
  <2>3. NoneYet(r)'
    BY <2>1, <2>2 DEF NoneYet, FewerLive
  <2> QED BY <2>1, <2>3 DEF NoneYet
<1> QED BY <1>3, <1>4 DEF OneEach

LEMMA OneEachStep == IInv /\ ConversionsApart /\ OneEach /\ [Next]_vars => OneEach'
<1> SUFFICES ASSUME IInv, ConversionsApart, OneEach, [Next]_vars PROVE OneEach'
  OBVIOUS
<1>1. UNCHANGED committed => FewerLive
  BY DEF committed, FewerLive, LiveInvoices, Exists
<1>2. CASE UNCHANGED vars
  BY <1>2 DEF vars, OneEach, AtMostOne, NoneYet, LiveInvoices, Exists
\* A place at another step says nothing of a quotation.
<1>3. ASSUME NEW h \in Handlers, NEW p \in Places, Goto(h, p), FewerLive, p.step # "converting"
      PROVE  OneEach'
  BY <1>3, NoneGained DEF NoneYet
<1>4. ASSUME NEW h \in Handlers, Goto(h, Idle), FewerLive PROVE OneEach'
  <2>1. Idle \in Places /\ Idle.step # "converting"
    BY DEF Places, Idle
  <2> QED BY <1>3, <1>4, <2>1
<1>5. ASSUME NEW h \in Handlers, at'[h].step # "converting", UNCHANGED committed, IInv',
             NEW p, Goto(h, p)
      PROVE  OneEach'
  <2>1. at'[h] = p /\ at'[h] \in Places
    BY <1>5 DEF Goto, IInv, TypeOK
  <2> QED BY <1>1, <1>3, <1>5, <2>1
<1>6. IInv'
  BY NextPreserves
\* The check of a conversion,
<1>7. ASSUME NEW h \in Converters, NEW q \in Ids, ReadForConvert(h, q) PROVE OneEach'
  <2> DEFINE place == [step |-> "converting", doc |-> q, number |-> 0,
                       row |-> [docs[q] EXCEPT !.type = "invoice", !.status = "draft", !.source = q]]
  <2>1. Goto(h, place) /\ h \in Handlers /\ UNCHANGED committed /\ LiveInvoices(q) = {}
    BY <1>7 DEF ReadForConvert, Handlers, Convertible
  <2>2. PICK p : p = place /\ p.doc = q /\ Goto(h, p)
    BY <2>1
  <2> HIDE DEF place
  <2>3. p \in Places
    BY <1>6, <2>1, <2>2 DEF Goto, IInv, TypeOK
  <2>4. NoneYet(p)'
    BY <2>1, <2>2 DEF NoneYet, committed, LiveInvoices, Exists
  <2> QED BY <1>1, <2>1, <2>2, <2>3, <2>4, NoneGained
\* its number,
<1>8. ASSUME NEW h \in Handlers, TakeNumber(h) PROVE OneEach'
  <2> DEFINE place == [at[h] EXCEPT !.number = NextNumber(at[h].row.type, at[h].row.customer)]
  <2>1. /\ Goto(h, place) /\ UNCHANGED committed /\ at[h] \in Places
        /\ at[h].step \in {"creating", "converting", "updating"}
    BY <1>8 DEF TakeNumber, IInv, TypeOK
  <2>2. place.step = at[h].step /\ (place.step = "converting" => place.doc = at[h].doc)
    BY <2>1, PlaceFields
  <2> HIDE DEF place
  <2>3. PICK p \in Places : p = place /\ Goto(h, p)
    BY <1>6, <2>1 DEF Goto, IInv, TypeOK
  <2>4. NoneYet(p)
    BY <2>2, <2>3 DEF NoneYet, OneEach
  <2>5. NoneYet(p)'
    BY <2>1, <2>4 DEF NoneYet, committed, LiveInvoices, Exists
  <2> QED BY <1>1, <2>1, <2>3, <2>5, NoneGained
\* and its write: nobody else converts that quotation.
<1>9. ASSUME NEW h \in Handlers, NEW i \in Ids, Convert(h, i) PROVE OneEach'
  <2>1. PICK p \in Places : p = at[h] /\ p.step = "converting" /\ p.doc \in Ids
    BY <1>9, PlaceFields DEF Convert, Doing, IInv, TypeOK
  <2>2. /\ LiveInvoices(p.doc) = {} /\ LiveInvoices(p.doc)' \subseteq {i}
        /\ \A k \in Ids : k # p.doc => LiveInvoices(k)' \subseteq LiveInvoices(k)
    BY <1>9, <2>1, ConvertPreserves DEF OneEach, NoneYet
  <2>3. \A q \in Ids : AtMostOne(q)'
    BY <2>2 DEF OneEach, AtMostOne
  <2>4. at'[h] = Idle /\ \A g \in Handlers \ {h} : at'[g] = at[g]
    BY <1>9 DEF Convert, Goto, IInv, TypeOK
  <2>5. ASSUME NEW g \in Handlers PROVE NoneYet(at[g])'
    <3>1. CASE g = h
      BY <2>4, <3>1 DEF NoneYet, Idle
    <3>2. CASE g # h
      <4>1. PICK r \in Places : r = at[g] /\ r = at'[g] /\ NoneYet(r)
        BY <2>4, <3>2 DEF OneEach, IInv, TypeOK
      <4>2. r.step = "converting" => r.doc \in Ids
        BY PlaceFields
      <4>3. r.step = "converting" => r.doc # p.doc
        BY <2>1, <3>2, <4>1 DEF ConversionsApart, Doing
      <4>4. NoneYet(r)'
        BY <2>2, <4>1, <4>2, <4>3 DEF NoneYet
      <4> QED BY <4>1, <4>4 DEF NoneYet
    <3> QED BY <3>1, <3>2
  <2> QED BY <2>3, <2>5 DEF OneEach
<1>10. ASSUME NEW h \in Handlers,
              \/ \E f \in NewForms, q \in Rates : ReadForCreate(h, f, q)
              \/ \E i \in Ids, f \in EditForms, q \in Rates : ReadForUpdate(h, i, f, q)
              \/ \E i \in Ids, status \in Statuses : ReadForStatus(h, i, status)
              \/ \E i \in Ids, post \in BOOLEAN : BeginIssue(h, i, post)
              \/ \E i \in Ids, amount \in Amounts \cup {Rest} : BeginReceipt(h, i, amount)
              \/ LockInvoice(h) \/ Abandon(h)
       PROVE  OneEach'
  <2>1. PICK p : Goto(h, p) /\ p.step # "converting" /\ UNCHANGED committed
    BY <1>10 DEF ReadForCreate, ReadForUpdate, ReadForStatus, BeginIssue, BeginReceipt,
                 LockInvoice, Abandon, Idle
  <2>2. at'[h] = p
    BY <2>1 DEF Goto, IInv, TypeOK
  <2> QED BY <1>5, <1>6, <2>1, <2>2
<1>11. ASSUME NEW h \in Handlers, BeginUpdate(h) \/ BeginMark(h) \/ TakeReceiptNumber(h)
       PROVE  OneEach'
  <2>1. at[h] \in Places /\ at[h].step \in {"updating", "marking", "receiving"}
    BY <1>11 DEF BeginUpdate, BeginMark, TakeReceiptNumber, Doing, IInv, TypeOK
  <2>2. PICK p : Goto(h, p) /\ p.step # "converting" /\ UNCHANGED committed
    <3>1. ASSUME NEW n PROVE at[h].step = "receiving" => [at[h] EXCEPT !.number = n].step = "receiving"
      BY <2>1, PlaceFields
    <3>2. at[h].step \in {"updating", "marking"} =>
             /\ [at[h] EXCEPT !.step = "overwriting"].step = "overwriting"
             /\ [at[h] EXCEPT !.step = "setting"].step = "setting"
      BY <2>1, PlaceFields
    <3> QED BY <1>11, <2>1, <3>1, <3>2 DEF BeginUpdate, BeginMark, TakeReceiptNumber, Doing
  <2>3. at'[h] = p
    BY <2>2 DEF Goto, IInv, TypeOK
  <2> QED BY <1>5, <1>6, <2>2, <2>3
<1>12. ASSUME NEW h \in Handlers,
              (\E i \in Ids : Create(h, i)) \/ Update(h) \/ SetStatus(h) \/ Issue(h) \/ Receive(h)
       PROVE  OneEach'
  <2>1. FewerLive
    BY <1>12, CreatePreserves, UpdatePreserves, SetStatusPreserves, IssuePreserves, ReceivePreserves
  <2>2. Goto(h, Idle)
    BY <1>12 DEF Create, Update, SetStatus, Issue, Receive
  <2> QED BY <1>4, <2>1, <2>2
<1> QED BY <1>2, <1>7, <1>8, <1>9, <1>10, <1>11, <1>12 DEF Next, Continue, Handlers

\* convertToInvoice gives a quotation a second invoice only together with another
\* conversion of it: as long as no two are between check and write at once, what a
\* conversion read is still so when it writes, whatever edits, voids, failures and
\* creations come between (a void invoice stays void, an edit keeps the source), so the
\* refusal "already has an invoice" is enough.
THEOREM OneInvoicePerQuotation == Spec => OneInvoiceUnlessOverlapped
<1>1. ASSUME NEW q, AtMostOne(q) PROVE Cardinality(LiveInvoices(q)) <= 1
  <2>1. CASE LiveInvoices(q) = {}
    BY <2>1, FS_EmptySet
  <2>2. CASE LiveInvoices(q) # {}
    <3>1. PICK i : LiveInvoices(q) = {i}
      BY <1>1, <2>2 DEF AtMostOne
    <3> QED BY <3>1, FS_Singleton
  <2> QED BY <2>1, <2>2
<1>2. OneEach => OneLiveInvoice
  BY <1>1 DEF OneEach, OneLiveInvoice
<1>3. Init => OneEach
  BY DEF Init, OneEach, AtMostOne, NoneYet, LiveInvoices, Exists, Idle
<1> QED BY <1>2, <1>3, OneEachStep, Invariance, PTL DEF Spec, OneInvoiceUnlessOverlapped

-----------------------------------------------------------------------------
(* What a step writes, document by document.                                *)

Same(j) ==
    /\ docs'[j] = docs[j] /\ journal'[j] = journal[j] /\ received'[j] = received[j]
    /\ j \in overtaken' <=> j \in overtaken

Drafts(i) ==
    /\ ~Exists(i) /\ docs'[i].status = "draft"
    /\ journal'[i] = journal[i] /\ received'[i] = received[i]
    /\ i \in overtaken' <=> i \in overtaken

Edits(i) ==
    /\ Exists(i) /\ Exists(i)'
    /\ docs'[i].type = docs[i].type /\ docs'[i].status = docs[i].status
    /\ journal'[i] = journal[i] /\ received'[i] = received[i]
    /\ i \in overtaken => i \in overtaken'
    /\ i \in overtaken' \/ docs[i].status = "draft"

Marks(i) ==
    /\ Exists(i) /\ docs'[i].type = docs[i].type /\ docs'[i].status \notin {"issued", "paid"}
    /\ Face(docs'[i]) = Face(docs[i])
    /\ journal'[i] = journal[i] /\ received'[i] = received[i]
    /\ i \in overtaken => i \in overtaken'
    /\ docs[i].type = "quotation" \/ i \in overtaken' \/ docs[i].status = "draft"

Issues(i) ==
    /\ Invoice(i) /\ Invoice(i)' /\ docs[i].status = "draft" /\ docs'[i].status = "issued"
    /\ Face(docs'[i]) = Face(docs[i])
    /\ received'[i] = received[i] /\ journal'[i].receivable \in Nat
    /\ i \in overtaken' <=> i \in overtaken

Receives(i) ==
    /\ Invoice(i) /\ Invoice(i)' /\ docs[i].status = "issued"
    /\ Face(docs'[i]) = Face(docs[i])
    /\ docs'[i].status = "issued" => 0 < Due(i)' /\ Due(i)' < Due(i)
    /\ docs'[i].status # "issued" => docs'[i].status = "paid" /\ 0 < Due(i)
    /\ journal'[i].receivable <= journal[i].receivable
    /\ i \in overtaken' <=> i \in overtaken

Touches(i) == Drafts(i) \/ Edits(i) \/ Marks(i) \/ Issues(i) \/ Receives(i)

\* One document is written, and a conversion drafts another.
Writes == \E i \in Ids : Touches(i) /\ \A j \in Ids \ {i} : Same(j) \/ Drafts(j)

LEMMA CreateWrites ==
    ASSUME IInv, NEW h \in Handlers, NEW i \in Ids, Create(h, i)
    PROVE  Writes
<1>1. PICK p \in Places : p = at[h] /\ Fits(p) /\ p.step = "creating"
  BY DEF IInv, TypeOK, Create, Doing
<1>2. PICK row \in Row : row = Numbered(h) /\ row.status = "draft"
  <2>1. p.row \in Row /\ p.number \in Nat /\ p.row.status = "draft"
    BY <1>1, PlaceFields DEF Fits
  <2>2. Numbered(h) = [p.row EXCEPT !.number = p.number]
    BY <1>1 DEF Numbered
  <2> QED BY <2>1, <2>2 DEF Row
<1>3. /\ docs' = [docs EXCEPT ![i] = row] /\ docs \in [Ids -> Row \cup {Absent}]
      /\ UNCHANGED <<received, receipts, journal, overtaken>> /\ ~Exists(i)
  BY <1>2, NextIdFresh, SalesAssumption DEF Create, IInv, TypeOK, Ids
<1>4. Drafts(i) /\ \A j \in Ids \ {i} : Same(j)
  BY <1>2, <1>3 DEF Drafts, Same
<1> QED BY <1>4 DEF Writes, Touches

LEMMA UpdateWrites ==
    ASSUME IInv, NEW h \in Handlers, Update(h)
    PROVE  Writes
<1>1. PICK p \in Places : p = at[h] /\ Fits(p) /\ p.step = "overwriting"
  BY DEF IInv, TypeOK, Update, Doing
<1> DEFINE i == p.doc
           row == [Numbered(h) EXCEPT !.status = docs[i].status, !.booked = docs[i].booked]
<1>2. i \in Ids /\ Exists(i) /\ docs[i] \in Row
  BY <1>1, PlaceFields, ExistsIsRow DEF IInv, Fits
<1>3. row \in Row /\ row.status = docs[i].status /\ row.type = docs[i].type
  <2>1. PICK r \in Row : r = Numbered(h) /\ r.type = docs[i].type
    <3>1. p.row \in Row /\ p.number \in Nat /\ p.row.type = docs[i].type
      BY <1>1, PlaceFields DEF Fits
    <3>2. Numbered(h) = [p.row EXCEPT !.number = p.number]
      BY <1>1 DEF Numbered
    <3> QED BY <3>1, <3>2 DEF Row
  <2>2. docs[i].status \in Statuses /\ docs[i].booked \in BOOLEAN
    BY <1>2, RowFields
  <2>3. row = [r EXCEPT !.status = docs[i].status, !.booked = docs[i].booked]
    BY <2>1
  <2> HIDE DEF row
  <2> QED BY <2>1, <2>2, <2>3 DEF Row
<1>4. /\ docs' = [docs EXCEPT ![i] = row] /\ docs \in [Ids -> Row \cup {Absent}]
      /\ overtaken' = IF docs[i].status # "draft" THEN overtaken \cup {i} ELSE overtaken
      /\ UNCHANGED <<received, receipts, journal>>
  BY <1>1 DEF Update, IInv, TypeOK, Fits
<1> HIDE DEF row
<1>5. docs'[i] = row /\ \A j \in Ids \ {i} : docs'[j] = docs[j]
  BY <1>2, <1>4
<1>6. Edits(i)
  <2>1. Exists(i)' /\ docs'[i].type = docs[i].type /\ docs'[i].status = docs[i].status
    BY <1>3, <1>5, RowFields DEF Exists
  <2>2. (i \in overtaken => i \in overtaken') /\ (i \in overtaken' \/ docs[i].status = "draft")
    BY <1>4
  <2> QED BY <1>2, <1>4, <2>1, <2>2 DEF Edits
<1>7. \A j \in Ids \ {i} : Same(j)
  BY <1>4, <1>5 DEF Same
<1> QED BY <1>2, <1>6, <1>7 DEF Writes, Touches

LEMMA SetStatusWrites ==
    ASSUME IInv, NEW h \in Handlers, SetStatus(h)
    PROVE  Writes
<1> DEFINE i == at[h].doc
           status == at[h].status
           row == [docs[i] EXCEPT !.status = status]
           stale == status \in Allowed(docs[i].type, at[h].seen)
                               \ Allowed(docs[i].type, docs[i].status)
<1>1. PICK p \in Places : p = at[h] /\ Fits(p) /\ p.step = "setting"
  BY DEF IInv, TypeOK, SetStatus, Doing
<1>2. i \in Ids /\ Exists(i) /\ docs[i] \in Row /\ status \in Statuses
  BY <1>1, PlaceFields, ExistsIsRow DEF IInv, Fits
<1>3. row.status = status /\ row.type = docs[i].type /\ Face(row) = Face(docs[i])
  BY <1>2 DEF Row, Face
<1>4. /\ docs' = [docs EXCEPT ![i] = row] /\ docs \in [Ids -> Row \cup {Absent}]
      /\ overtaken' = IF stale THEN overtaken \cup {i} ELSE overtaken
      /\ UNCHANGED <<received, receipts, journal>>
  BY DEF SetStatus, IInv, TypeOK
<1>5. /\ status \notin {"issued", "paid"}
      /\ docs[i].type = "invoice" /\ ~stale => docs[i].status = "draft"
  <2>1. docs[i].type \in Types /\ status \in Allowed(docs[i].type, at[h].seen)
    BY <1>1, <1>2, RowFields DEF Fits
  <2> QED BY <2>1, ByHand
<1>6. docs[i].type \in {"quotation", "invoice"}
  BY <1>2, RowFields DEF Types
<1> HIDE DEF row, stale
<1>7. docs'[i] = row /\ \A j \in Ids \ {i} : docs'[j] = docs[j]
  BY <1>2, <1>4
<1>8. Marks(i)
  BY <1>2, <1>3, <1>4, <1>5, <1>6, <1>7 DEF Marks
<1>9. \A j \in Ids \ {i} : Same(j)
  BY <1>4, <1>7 DEF Same
<1> QED BY <1>2, <1>8, <1>9 DEF Writes, Touches

LEMMA ConvertWrites ==
    ASSUME IInv, NEW h \in Handlers, NEW i \in Ids, Convert(h, i)
    PROVE  Writes
<1>1. PICK p \in Places : p = at[h] /\ Fits(p) /\ p.step = "converting"
  BY DEF IInv, TypeOK, Convert, Doing
<1> DEFINE q == p.doc
           old == [docs[q] EXCEPT !.status = "accepted"]
<1>2. /\ q \in Ids /\ Exists(q) /\ docs[q] \in Row /\ docs[q].type = "quotation"
      /\ p.row \in Row /\ p.number \in Nat /\ p.row.status = "draft"
  BY <1>1, PlaceFields, ExistsIsRow DEF IInv, Fits
<1>3. PICK row \in Row : row = Numbered(h) /\ row.status = "draft"
  <2>1. Numbered(h) = [p.row EXCEPT !.number = p.number]
    BY <1>1 DEF Numbered
  <2> QED BY <1>2, <2>1 DEF Row
<1>4. /\ docs' = [docs EXCEPT ![i] = row, ![q].status = "accepted"]
      /\ docs \in [Ids -> Row \cup {Absent}]
      /\ UNCHANGED <<received, receipts, journal, overtaken>>
      /\ ~Exists(i) /\ i # q
  <2>1. i = NextId /\ i # q /\ ~Exists(i)
    BY <1>2, NextIdFresh, SalesAssumption DEF Convert, Ids
  <2>2. docs' = [docs EXCEPT ![i] = row, ![q].status = "accepted"]
    BY <1>1, <1>3 DEF Convert
  <2> QED BY <1>1, <2>1, <2>2 DEF Convert, IInv, TypeOK
<1>5. old.type = docs[q].type /\ old.status = "accepted" /\ Face(old) = Face(docs[q])
  BY <1>2 DEF Row, Face
<1>6. docs'[i] = row /\ docs'[q] = old /\ \A j \in Ids \ {i, q} : docs'[j] = docs[j]
  BY <1>2, <1>4
<1> HIDE DEF old, q
<1>7. Marks(q)
  BY <1>2, <1>4, <1>5, <1>6 DEF Marks
<1>8. Drafts(i)
  BY <1>3, <1>4, <1>6 DEF Drafts
<1>9. \A j \in Ids \ {i, q} : Same(j)
  BY <1>4, <1>6 DEF Same
<1> QED BY <1>2, <1>7, <1>8, <1>9 DEF Writes, Touches

LEMMA IssueWrites ==
    ASSUME IInv, NEW h \in Handlers, Issue(h)
    PROVE  Writes
<1>1. PICK p \in Places : p = at[h] /\ Fits(p) /\ p.step = "issuing"
  BY DEF IInv, TypeOK, Issue, Doing
<1> DEFINE i == p.doc
           d == docs[i]
           income == ToUsd(d.net, d.rate)
           row == [d EXCEPT !.status = "issued", !.booked = p.post]
           posted == Posted(i, d.usd, 0, income, d.usd - income)
<1>2. i \in Ids /\ Exists(i) /\ d \in Row /\ d.type = "invoice" /\ p.post \in BOOLEAN
  BY <1>1, PlaceFields, ExistsIsRow DEF IInv, Fits, Invoice
<1>3. row \in Row /\ row.status = "issued" /\ row.type = "invoice" /\ Face(row) = Face(d)
  BY <1>2 DEF Row, Statuses, Face
<1>4. income \in Nat /\ d.usd \in Nat
  BY <1>2, RowFields, ToUsdNat
<1>5. /\ docs' = [docs EXCEPT ![i] = row] /\ docs \in [Ids -> Row \cup {Absent}]
      /\ journal' = IF p.post THEN posted ELSE journal
      /\ d.status = "draft" /\ UNCHANGED <<received, receipts, overtaken>>
  <2>1. docs \in [Ids -> Row \cup {Absent}]
    BY DEF IInv, TypeOK
  <2>2. docs' = [docs EXCEPT ![i].status = "issued", ![i].booked = p.post]
    BY <1>1 DEF Issue
  <2>3. docs' = [docs EXCEPT ![i] = row]
    BY <1>2, <2>1, <2>2
  <2>4. d.status = "draft" /\ UNCHANGED <<received, receipts, overtaken>>
    BY <1>1 DEF Issue, Issuable
  <2>5. journal' = IF p.post THEN posted ELSE journal
    BY <1>1 DEF Issue
  <2> HIDE DEF posted, row
  <2> QED BY <2>1, <2>3, <2>4, <2>5
<1>6. journal[i].receivable = 0
  BY <1>2, <1>5 DEF IInv, Tally, Billed
<1>7. /\ posted[i].receivable = journal[i].receivable + d.usd
      /\ \A j \in Ids \ {i} : posted[j] = journal[j]
  <2> DEFINE usd == d.usd
             tax == d.usd - income
  <2>1. /\ usd \in Int /\ 0 \in Int /\ income \in Int /\ tax \in Int
        /\ posted = Posted(i, usd, 0, income, tax)
    BY <1>4
  <2>2. TypeOK /\ i \in Ids
    BY <1>2 DEF IInv
  <2>3. PICK r \in Int, z \in Int, n \in Int, v \in Int :
           r = usd /\ z = 0 /\ n = income /\ v = tax
    BY <2>1
  <2> HIDE DEF i, d, usd, tax, income, posted
  <2>4. /\ Posted(i, r, z, n, v) \in
              [Ids -> [receivable : Int, cash : Int, income : Int, vat : Int]]
        /\ Posted(i, r, z, n, v)[i] =
              [receivable |-> journal[i].receivable + r, cash |-> journal[i].cash + z,
               income |-> journal[i].income + n, vat |-> journal[i].vat + v]
        /\ \A j \in Ids \ {i} : Posted(i, r, z, n, v)[j] = journal[j]
    BY <2>2, PostedAt
  <2> QED BY <2>1, <2>3, <2>4 DEF usd
<1> HIDE DEF i, d, row, income, posted
<1>8. docs'[i] = row /\ \A j \in Ids \ {i} : docs'[j] = docs[j] /\ journal'[j] = journal[j]
  BY <1>2, <1>5, <1>7
<1>9. Issues(i)
  BY <1>2, <1>3, <1>4, <1>5, <1>6, <1>7, <1>8, RowFields DEF Issues, Invoice, Exists, d
<1>10. \A j \in Ids \ {i} : Same(j)
  BY <1>5, <1>8 DEF Same
<1> QED BY <1>2, <1>9, <1>10 DEF Writes, Touches

LEMMA ReceiveWrites ==
    ASSUME IInv, NEW h \in Handlers, Receive(h)
    PROVE  Writes
<1>1. PICK p \in Places : p = at[h] /\ Fits(p) /\ p.step = "receiving"
  BY DEF IInv, TypeOK, Receive, Doing
<1> DEFINE i == p.doc
           d == docs[i]
           row == IF p.settles THEN [d EXCEPT !.status = "paid"] ELSE d
           got == [total |-> received[i].total + p.amount, usd |-> received[i].usd + p.usd]
           posted == Posted(i, -p.usd, p.usd, 0, 0)
<1>2. /\ i \in Ids /\ Exists(i) /\ d \in Row /\ d.type = "invoice" /\ d.status = "issued"
      /\ p.amount \in Nat /\ p.usd \in Int /\ p.settles \in BOOLEAN
      /\ 0 < p.amount /\ p.amount <= Due(i) /\ (p.settles <=> p.amount = Due(i))
  BY <1>1, PlaceFields, ExistsIsRow DEF IInv, Fits, Invoice
<1>3. /\ row \in Row /\ row.type = "invoice" /\ row.total = d.total /\ Face(row) = Face(d)
      /\ row.status = IF p.settles THEN "paid" ELSE "issued"
  BY <1>2 DEF Row, Statuses, Face
<1>4. /\ received[i].total \in Nat /\ d.total \in Nat /\ journal[i].receivable \in Int
      /\ docs \in [Ids -> Row \cup {Absent}] /\ received \in [Ids -> [total : Nat, usd : Int]]
  BY <1>2, RowFields DEF IInv, TypeOK
<1>5. /\ docs' = [docs EXCEPT ![i] = row]
      /\ received' = [received EXCEPT ![i] = got]
      /\ journal' = IF d.booked THEN posted ELSE journal
      /\ d.booked => p.usd >= 0
      /\ UNCHANGED overtaken
  <2>1. docs' = [docs EXCEPT ![i] = row]
    BY <1>1, <1>2, <1>4 DEF Receive
  <2>2. received' = [received EXCEPT ![i] = got]
    BY <1>1 DEF Receive
  <2>3. journal' = IF d.booked THEN posted ELSE journal
    BY <1>1 DEF Receive
  <2>4. UNCHANGED overtaken /\ (d.booked => p.usd >= 0)
    BY <1>1 DEF Receive, Recordable
  <2> HIDE DEF row, got, posted, d
  <2> QED BY <2>1, <2>2, <2>3, <2>4
<1>6. /\ posted[i].receivable = journal[i].receivable - p.usd
      /\ \A j \in Ids \ {i} : posted[j] = journal[j]
  <2>1. PICK m \in Int, n \in Int, z \in Int : m = -p.usd /\ n = p.usd /\ z = 0
    BY <1>2
  <2>2. /\ Posted(i, m, n, z, z) \in
              [Ids -> [receivable : Int, cash : Int, income : Int, vat : Int]]
        /\ Posted(i, m, n, z, z)[i] =
              [receivable |-> journal[i].receivable + m, cash |-> journal[i].cash + n,
               income |-> journal[i].income + z, vat |-> journal[i].vat + z]
        /\ \A j \in Ids \ {i} : Posted(i, m, n, z, z)[j] = journal[j]
    BY <1>2, PostedAt DEF IInv
  <2> QED BY <1>2, <1>4, <2>1, <2>2
<1>7. got.total = received[i].total + p.amount /\ Due(i) = d.total - received[i].total
  BY DEF Due
<1>8. d.booked \in BOOLEAN
  BY <1>2, RowFields
<1> HIDE DEF i, d, row, got, posted
<1>9. /\ docs'[i] = row /\ received'[i] = got
      /\ journal'[i].receivable <= journal[i].receivable
      /\ \A j \in Ids \ {i} : docs'[j] = docs[j] /\ journal'[j] = journal[j] /\ received'[j] = received[j]
  BY <1>2, <1>4, <1>5, <1>6, <1>8
<1>10. Due(i)' = d.total - (received[i].total + p.amount)
  BY <1>3, <1>7, <1>9 DEF Due
<1>11. Receives(i)
  <2>1. Invoice(i) /\ Invoice(i)' /\ docs[i].status = "issued" /\ Face(docs'[i]) = Face(docs[i])
    BY <1>2, <1>3, <1>9, RowFields DEF Invoice, Exists, d
  <2>2. docs'[i].status = IF p.settles THEN "paid" ELSE "issued"
    BY <1>3, <1>9
  <2>3. ~p.settles => 0 < Due(i)' /\ Due(i)' < Due(i)
    BY <1>2, <1>4, <1>7, <1>10
  <2>4. 0 < Due(i)
    BY <1>2, <1>4, <1>7
  <2> QED BY <1>2, <1>5, <1>9, <2>1, <2>2, <2>3, <2>4 DEF Receives
<1>12. \A j \in Ids \ {i} : Same(j)
  BY <1>5, <1>9 DEF Same
<1> QED BY <1>2, <1>11, <1>12 DEF Writes, Touches

LEMMA StepWrites == IInv /\ [Next]_vars => UNCHANGED committed \/ Writes
<1> SUFFICES ASSUME IInv, [Next]_vars, ~UNCHANGED committed PROVE Writes
  OBVIOUS
<1>1. PICK h \in Handlers : Continue(h)
  BY DEF Next, vars, committed, ReadForCreate, ReadForUpdate, ReadForStatus, ReadForConvert,
     BeginIssue, BeginReceipt, Abandon
<1>2. ASSUME NEW i \in Ids, Create(h, i) PROVE Writes
  BY <1>2, CreateWrites
<1>3. ASSUME NEW i \in Ids, Convert(h, i) PROVE Writes
  BY <1>3, ConvertWrites
<1> QED BY <1>1, <1>2, <1>3, UpdateWrites, SetStatusWrites, IssueWrites, ReceiveWrites
        DEF Continue, TakeNumber, BeginUpdate, BeginMark, LockInvoice, TakeReceiptNumber

\* What a customer holds stands: number, customer and figures of a document that is no
\* longer a draft never change, but for an edit that read it as one.
THEOREM DocumentsStand == Spec => DocumentStands
<1> DEFINE Stands == \A i \in Ids :
               Held(i) /\ i \notin overtaken' => Face(docs'[i]) = Face(docs[i])
<1>1. IInv /\ [Next]_vars => Stands
  <2> SUFFICES ASSUME IInv, [Next]_vars, NEW i \in Ids, Held(i), i \notin overtaken'
               PROVE  Face(docs'[i]) = Face(docs[i])
    OBVIOUS
  <2>1. CASE UNCHANGED committed
    BY <2>1 DEF committed
  <2>2. CASE Writes
    <3>1. Touches(i) \/ Same(i) \/ Drafts(i)
      BY <2>2 DEF Writes
    <3>2. Same(i) => docs'[i] = docs[i]
      BY DEF Same
    <3> QED BY <3>1, <3>2 DEF Held, Touches, Drafts, Edits, Marks, Issues, Receives
  <2> QED BY <2>1, <2>2, StepWrites
<1>2. IInv /\ [Next]_vars => [Stands]_vars
  BY <1>1
<1> QED BY <1>2, Invariance, PTL DEF Spec, DocumentStands

-----------------------------------------------------------------------------
(* Sales implements Receivable.                                             *)

Keeps(i) == Stage(i)' = Stage(i) /\ StillDue(i)' = StillDue(i) /\ Owed(i)' = Owed(i)

\* What one document does is what its receivable does.
LEMMA OneBook ==
    ASSUME NEW i \in Ids, \A j \in Ids \ {i} : Keeps(j)
    PROVE  /\ Stage(i) = "unbilled" /\ Stage(i)' = "open"
                 /\ StillDue(i)' \in Nat /\ Owed(i)' \in Nat => Books!Bill(i)
           /\ Stage(i) = "open" /\ Stage(i)' = "open"
                 /\ 0 < StillDue(i)' /\ StillDue(i)' < StillDue(i)
                 /\ Owed(i)' <= Owed(i) => Books!Collect(i)
           /\ Stage(i) = "open" /\ Stage(i)' = "settled" /\ 0 < StillDue(i)
                 /\ StillDue(i)' = 0 /\ Owed(i)' = 0 => Books!Settle(i)
           /\ Stage(i) # "overtaken" /\ Stage(i)' = "overtaken"
                 /\ StillDue(i)' = 0 /\ Owed(i)' = 0 => Books!Overtake(i)
           /\ Keeps(i) => UNCHANGED Books!vars
<1> DEFINE stage == [j \in Ids |-> Stage(j)]
           due == [j \in Ids |-> StillDue(j)]
           owed == [j \in Ids |-> Owed(j)]
<1>1. /\ stage[i] = Stage(i) /\ due[i] = StillDue(i) /\ owed[i] = Owed(i)
      /\ stage'[i] = Stage(i)' /\ due'[i] = StillDue(i)' /\ owed'[i] = Owed(i)'
  OBVIOUS
<1>2. stage' = [stage EXCEPT ![i] = Stage(i)']
  <2>1. \A j \in Ids \ {i} : Stage(j)' = Stage(j)
    BY DEF Keeps
  <2> QED BY <2>1
<1>3. due' = [due EXCEPT ![i] = StillDue(i)']
  <2>1. \A j \in Ids \ {i} : StillDue(j)' = StillDue(j)
    BY DEF Keeps
  <2> QED BY <2>1
<1>4. owed' = [owed EXCEPT ![i] = Owed(i)']
  <2>1. \A j \in Ids \ {i} : Owed(j)' = Owed(j)
    BY DEF Keeps
  <2> QED BY <2>1
<1>5. Stage(i)' = Stage(i) => stage' = stage
  BY <1>2
<1>6. Keeps(i) => stage' = stage /\ due' = due /\ owed' = owed
  BY <1>2, <1>3, <1>4 DEF Keeps
<1> HIDE DEF stage, due, owed
<1>7. Keeps(i) => UNCHANGED Books!vars
  BY <1>6 DEF Books!vars, stage, due, owed
<1> QED BY <1>1, <1>2, <1>3, <1>4, <1>5, <1>7
        DEF Books!Bill, Books!Collect, Books!Settle, Books!Overtake, Books!OnlyAt, stage, due, owed

LEMMA BooksInit == Init => Books!Init
<1> SUFFICES ASSUME Init PROVE Books!Init
  OBVIOUS
<1>1. \A i \in Ids : Stage(i) = "unbilled" /\ StillDue(i) = 0 /\ Owed(i) = 0
  BY DEF Init, Stage, StillDue, Owed, Billed, Invoice, Exists
<1> QED BY <1>1 DEF Books!Init

\* A document that is left alone or drafted keeps its receivable.
LEMMA Kept ==
    ASSUME NEW j \in Ids, Tally(j), Same(j) \/ Drafts(j)
    PROVE  Keeps(j)
<1>1. CASE Same(j)
  BY <1>1 DEF Same, Keeps, Stage, StillDue, Owed, Billed, Invoice, Exists, Due
<1>2. CASE Drafts(j)
  BY <1>2 DEF Drafts, Tally, Keeps, Stage, StillDue, Owed, Billed, Invoice, Exists
<1> QED BY <1>1, <1>2

LEMMA BooksNext == IInv /\ IInv' /\ [Next]_vars => [Books!Next]_(Books!vars)
<1> SUFFICES ASSUME IInv, IInv', [Next]_vars PROVE [Books!Next]_(Books!vars)
  OBVIOUS
<1>1. CASE UNCHANGED committed
  <2>1. \A j \in Ids : Keeps(j)
    BY <1>1 DEF committed, Keeps, Stage, StillDue, Owed, Billed, Invoice, Exists, Due
  <2>2. CASE Ids = {}
    BY <2>2 DEF Books!vars
  <2>3. CASE Ids # {}
    <3>1. PICK i \in Ids : TRUE
      BY <2>3
    <3> QED BY <2>1, <3>1, OneBook
  <2> QED BY <2>2, <2>3
<1>2. CASE Writes
  <2>1. PICK i \in Ids : Touches(i) /\ \A j \in Ids \ {i} : Same(j) \/ Drafts(j)
    BY <1>2 DEF Writes
  <2>2. \A j \in Ids \ {i} : Keeps(j)
    BY <2>1, Kept DEF IInv
  <2>3. Tally(i) /\ Tally(i)'
    BY DEF IInv
  <2>4. Keeps(i) => UNCHANGED Books!vars
    BY <2>2, OneBook
  <2>5. Stage(i) # "overtaken" /\ i \in overtaken' => Books!Overtake(i)
    <3>1. i \in overtaken' => Stage(i)' = "overtaken" /\ StillDue(i)' = 0 /\ Owed(i)' = 0
      BY DEF Stage, StillDue, Owed
    <3> QED BY <2>2, <3>1, OneBook
  <2>6. CASE Drafts(i)
    BY <2>3, <2>4, <2>6, Kept
  <2>7. CASE Edits(i) \/ Marks(i)
    <3>1. CASE i \in overtaken
      <4>1. i \in overtaken'
        BY <2>7, <3>1 DEF Edits, Marks
      <4> QED BY <2>4, <3>1, <4>1 DEF Keeps, Stage, StillDue, Owed
    <3>2. CASE i \notin overtaken /\ i \in overtaken'
      <4>1. Stage(i) # "overtaken"
        BY <3>2 DEF Stage, Billed
      <4> QED BY <2>5, <3>2, <4>1 DEF Books!Next
    <3>3. CASE i \notin overtaken /\ i \notin overtaken'
      <4>1. ~Billed(i) /\ ~Billed(i)'
        BY <2>7, <3>3 DEF Edits, Marks, Billed, Invoice
      <4>2. Keeps(i)
        BY <2>7, <3>3, <4>1 DEF Edits, Marks, Keeps, Stage, StillDue, Owed
      <4> QED BY <2>4, <4>2
    <3> QED BY <3>1, <3>2, <3>3
  <2>8. CASE Issues(i)
    <3>1. i \notin overtaken /\ i \notin overtaken' /\ ~Billed(i) /\ Billed(i)'
      BY <2>3, <2>8 DEF Issues, Tally, Billed, Invoice
    <3>2. Stage(i) = "unbilled" /\ Stage(i)' = "open"
      BY <2>8, <3>1 DEF Stage, Issues
    <3>3. StillDue(i)' \in Nat
      <4>1. Due(i)' = docs'[i].total - received'[i].total
        BY DEF Due
      <4>2. received'[i].total = 0
        BY <2>3, <2>8, <3>1 DEF Issues, Tally
      <4>3. docs'[i].total \in Nat
        BY <2>8, RowFields DEF IInv, TypeOK, Issues, Invoice, Exists
      <4> QED BY <3>1, <4>1, <4>2, <4>3 DEF StillDue
    <3>4. Owed(i)' \in Nat
      BY <2>8, <3>1 DEF Owed, Issues
    <3> QED BY <2>2, <3>2, <3>3, <3>4, OneBook DEF Books!Next
  <2>9. CASE Receives(i)
    <3>1. CASE i \in overtaken
      BY <2>4, <2>9, <3>1 DEF Receives, Keeps, Stage, StillDue, Owed
    <3>2. CASE i \notin overtaken
      <4>1. i \notin overtaken' /\ Billed(i) /\ Billed(i)'
        BY <2>9, <3>2 DEF Receives, Billed, Invoice
      <4>2. /\ Stage(i) = "open" /\ StillDue(i) = Due(i) /\ Owed(i) = journal[i].receivable
            /\ StillDue(i)' = Due(i)' /\ Owed(i)' = journal'[i].receivable
        BY <2>9, <3>2, <4>1 DEF Receives, Stage, StillDue, Owed
      <4>3. CASE docs'[i].status = "issued"
        <5>1. Stage(i)' = "open"
          BY <4>1, <4>3 DEF Stage
        <5> QED BY <2>2, <2>9, <4>2, <4>3, <5>1, OneBook DEF Receives, Books!Next
      <4>4. CASE docs'[i].status # "issued"
        <5>1. docs'[i].status = "paid" /\ 0 < Due(i)
          BY <2>9, <4>4 DEF Receives
        <5>2. Stage(i)' = "settled" /\ Due(i)' = 0 /\ journal'[i].receivable = 0
          BY <2>3, <4>1, <5>1 DEF Stage, Tally
        <5> QED BY <2>2, <4>2, <5>1, <5>2, OneBook DEF Books!Next
      <4> QED BY <4>3, <4>4
    <3> QED BY <3>1, <3>2
  <2> QED BY <2>1, <2>6, <2>7, <2>8, <2>9 DEF Touches
<1> QED BY <1>1, <1>2, StepWrites

\* Invoicing implements Receivable, for every rate and every split into instalments: an
\* invoice is billed once, no receipt takes more than is due, and the one that settles
\* it clears the receivable to exactly 0 in the ledger.
THEOREM SalesCollect == Spec => CollectsReceivable
<1>1. IInv /\ [Next]_vars => [Books!Next]_(Books!vars)
  BY NextPreserves, BooksNext
<1> QED BY <1>1, BooksInit, Invariance, PTL DEF Spec, CollectsReceivable, Books!Spec

\* What that comes to on the documents themselves: no invoice is collected beyond its
\* total, and a paid one leaves nothing due and nothing on account 1100.
Cleared == \A i \in Ids \ overtaken : Billed(i) =>
    /\ Due(i) >= 0
    /\ docs[i].status = "paid" => Due(i) = 0 /\ journal[i].receivable = 0

LEMMA DueStep ==
    ASSUME NEW i \in Ids, StillDue(i) \in Nat, StillDue(i)' \in Int, [Books!Next]_(Books!vars)
    PROVE  StillDue(i)' \in Nat
<1> DEFINE due == [j \in Ids |-> StillDue(j)]
<1>1. due[i] = StillDue(i) /\ due'[i] = StillDue(i)'
  OBVIOUS
<1>2. SUFFICES due'[i] = due[i] \/ due'[i] \in Nat \/ 0 < due'[i]
  BY <1>1
<1>3. CASE UNCHANGED Books!vars
  BY <1>3 DEF Books!vars
<1>4. ASSUME NEW j \in Ids, due' = [due EXCEPT ![j] = due'[j]], j # i PROVE due'[i] = due[i]
  <2>1. i \in DOMAIN due
    OBVIOUS
  <2> HIDE DEF due
  <2> QED BY <1>4, <2>1
<1>5. ASSUME NEW j \in Ids, Books!Bill(j) \/ Books!Collect(j)
      PROVE  due'[i] = due[i] \/ due'[i] \in Nat \/ 0 < due'[i]
  <2>1. due' = [due EXCEPT ![j] = due'[j]] /\ (due'[j] \in Nat \/ 0 < due'[j])
    BY <1>5 DEF Books!Bill, Books!Collect, Books!OnlyAt
  <2> QED BY <1>4, <2>1
<1>6. ASSUME NEW j \in Ids, Books!Settle(j) \/ Books!Overtake(j)
      PROVE  due'[i] = due[i] \/ due'[i] \in Nat
  <2>1. due' = [due EXCEPT ![j] = 0]
    BY <1>6 DEF Books!Settle, Books!Overtake
  <2>2. i \in DOMAIN due
    OBVIOUS
  <2> HIDE DEF due
  <2> QED BY <2>1, <2>2
<1> HIDE DEF due
<1> QED BY <1>3, <1>5, <1>6 DEF Books!Next

\* For every rate and every split into instalments an invoice is never collected beyond
\* its total, and once it is paid neither the customer nor account 1100 has anything
\* left of it, unless a stale write has landed on it.
THEOREM PaidIsCleared == Spec => []Cleared
<1> DEFINE Collectible == \A i \in Ids : StillDue(i) \in Nat
<1>1. Init => Collectible
  BY DEF Init, StillDue, Billed, Invoice, Exists
<1>2. IInv => \A i \in Ids : StillDue(i) \in Int
  BY ExistsIsRow, RowFields DEF IInv, TypeOK, StillDue, Due, Billed, Invoice
<1>3. IInv' => \A i \in Ids : StillDue(i)' \in Int
  BY RowFields DEF IInv, TypeOK, StillDue, Due, Billed, Invoice, Exists
<1>4. Collectible /\ IInv' /\ [Books!Next]_(Books!vars) => Collectible'
  BY <1>3, DueStep
<1>5. IInv /\ Collectible => Cleared
  BY DEF Cleared, StillDue, IInv, Tally
<1> HIDE DEF Collectible
<1> QED BY <1>1, <1>4, <1>5, Invariance, SalesCollect, PTL DEF Spec, CollectsReceivable, Books!Spec

-----------------------------------------------------------------------------
(* Every draft can be posted.                                               *)

\* The figures of a row are those of one form at one rate.
Consistent(row) == row.net <= row.total /\ row.usd = ToUsd(row.total, row.rate)

Figures ==
    /\ \A i \in Ids : Exists(i) => Consistent(docs[i])
    /\ \A h \in Handlers : at[h].step \in {"creating", "updating", "overwriting", "converting"} =>
          Consistent(at[h].row)

DraftsPost == \A i \in Ids : Exists(i) /\ docs[i].status = "draft" => Issuable(i, TRUE)

LEMMA FiguresStep == IInv /\ Figures /\ [Next]_vars => Figures'
<1> SUFFICES ASSUME IInv, Figures, [Next]_vars PROVE Figures'
  OBVIOUS
<1> USE DEF Figures
\* Only the handler that moves has a new row,
<1>1. ASSUME NEW h \in Handlers, NEW p, Goto(h, p), docs' = docs,
             p.step \in {"creating", "updating", "overwriting", "converting"} => Consistent(p.row)
      PROVE  Figures'
  BY <1>1 DEF Goto, Exists, IInv, TypeOK
\* and only the documents it writes.
<1>2. ASSUME NEW h \in Handlers, Goto(h, Idle),
             \A i \in Ids : Exists(i)' =>
                Consistent(docs'[i]) \/ (Exists(i) /\ docs'[i] = docs[i])
      PROVE  Figures'
  BY <1>2 DEF Goto, Idle, Exists, IInv, TypeOK
<1>3. ASSUME NEW h \in Handlers, NEW f \in NewForms, NEW q \in Rates, ReadForCreate(h, f, q)
      PROVE  Figures'
  <2>1. f.net <= f.total
    BY SalesAssumption
  <2>2. Consistent(NewRow(f, q))
    BY <2>1 DEF Consistent, NewRow
  <2> QED BY <1>1, <1>3, <2>2 DEF ReadForCreate, committed
<1>4. ASSUME NEW h \in Handlers, NEW i \in Ids, NEW f \in EditForms, NEW q \in Rates,
             ReadForUpdate(h, i, f, q)
      PROVE  Figures'
  <2>1. f.net <= f.total
    BY SalesAssumption
  <2>2. docs[i] \in Row
    BY <1>4, ExistsIsRow DEF ReadForUpdate, IInv
  <2>3. Consistent(Priced(docs[i], f, q))
    BY <2>1, <2>2 DEF Consistent, Priced, Row
  <2> QED BY <1>1, <1>4, <2>3 DEF ReadForUpdate, committed
<1>5. ASSUME NEW h \in Handlers, NEW q \in Ids, ReadForConvert(h, q)
      PROVE  Figures'
  <2>1. docs[q] \in Row /\ Consistent(docs[q])
    BY <1>5, ExistsIsRow DEF ReadForConvert, IInv
  <2>2. Consistent([docs[q] EXCEPT !.type = "invoice", !.status = "draft", !.source = q])
    BY <2>1 DEF Consistent, Row
  <2> QED BY <1>1, <1>5, <2>2 DEF ReadForConvert, committed
<1>6. ASSUME NEW h \in Handlers,
             \/ \E i \in Ids, s \in Statuses : ReadForStatus(h, i, s)
             \/ \E i \in Ids, post \in BOOLEAN : BeginIssue(h, i, post)
             \/ \E i \in Ids, amount \in Amounts \cup {Rest} : BeginReceipt(h, i, amount)
             \/ LockInvoice(h) \/ Abandon(h)
      PROVE  Figures'
  BY <1>1, <1>6 DEF ReadForStatus, BeginIssue, BeginReceipt, LockInvoice, Abandon, committed, Idle
<1>7. ASSUME NEW h \in Handlers, TakeNumber(h) \/ TakeReceiptNumber(h)
      PROVE  Figures'
  <2> DEFINE p(n) == [at[h] EXCEPT !.number = n]
  <2>1. at[h] \in Places
    BY DEF IInv, TypeOK
  <2>2. at[h].step \in {"creating", "updating", "converting", "receiving"}
    BY <1>7 DEF TakeNumber, TakeReceiptNumber, Doing
  <2>3. PICK n : Goto(h, p(n)) /\ docs' = docs
    BY <1>7 DEF TakeNumber, TakeReceiptNumber, committed
  <2>4. p(n).step = at[h].step /\ p(n).step # "overwriting"
    BY <2>1, <2>2, PlaceFields
  <2>5. p(n).step # "receiving" => p(n).row = at[h].row
    BY <2>1, <2>2, <2>4, PlaceFields
  <2>6. p(n).step \in {"creating", "updating", "converting"} => Consistent(p(n).row)
    BY <2>4, <2>5
  <2> QED BY <1>1, <2>3, <2>4, <2>6
<1>8. ASSUME NEW h \in Handlers, BeginUpdate(h) PROVE Figures'
  <2>1. at[h] \in Places /\ at[h].step = "updating"
    BY <1>8 DEF BeginUpdate, Doing, IInv, TypeOK
  <2>2. [at[h] EXCEPT !.step = "overwriting"].row = at[h].row
    BY <2>1, PlaceFields
  <2> QED BY <1>1, <1>8, <2>1, <2>2 DEF BeginUpdate, committed
<1>9. ASSUME NEW h \in Handlers, BeginMark(h) PROVE Figures'
  <2>1. at[h] \in Places /\ at[h].step = "marking"
    BY <1>9 DEF BeginMark, Doing, IInv, TypeOK
  <2>2. [at[h] EXCEPT !.step = "setting"].step = "setting"
    BY <2>1, PlaceFields
  <2> QED BY <1>1, <1>9, <2>2 DEF BeginMark, committed
<1>10. ASSUME NEW h \in Handlers, NEW j \in Ids, Create(h, j) \/ Convert(h, j)
      PROVE  Figures'
  <2>1. at[h] \in Places /\ at[h].step \in {"creating", "converting"} /\ docs \in [Ids -> Row \cup {Absent}]
    BY <1>10 DEF Create, Convert, Doing, IInv, TypeOK
  <2>2. at[h].row \in Row /\ Consistent(at[h].row)
    BY <2>1, PlaceFields
  <2>3. Consistent(Numbered(h))
    BY <2>2 DEF Consistent, Numbered, Row
  <2>4. CASE Create(h, j)
    <3>1. \A i \in Ids : docs'[i] = IF i = j THEN Numbered(h) ELSE docs[i]
      BY <2>1, <2>4 DEF Create
    <3> QED BY <1>2, <2>3, <2>4, <3>1 DEF Create, Exists
  <2>5. CASE Convert(h, j)
    <3> DEFINE q == at[h].doc
    <3>1. Exists(q) /\ q \in Ids
      BY <2>1, <2>5, PlaceFields DEF Convert, Doing, IInv, Fits
    <3>2. docs[q] \in Row /\ Consistent(docs[q])
      BY <3>1, ExistsIsRow DEF IInv
    <3>3. Consistent([docs[q] EXCEPT !.status = "accepted"])
      BY <3>2 DEF Consistent, Row
    <3>4. j # q
      <4>1. q < NextId /\ j = NextId /\ NextId \in Nat /\ q \in Nat
        BY <2>5, <3>1, NextIdFresh DEF Convert, Ids
      <4> QED BY <4>1
    <3>5. \A i \in Ids : docs'[i] = IF i = j THEN Numbered(h)
                            ELSE IF i = q THEN [docs[q] EXCEPT !.status = "accepted"] ELSE docs[i]
      BY <2>1, <2>5, <3>1, <3>4 DEF Convert
    <3>6. \A i \in Ids : Consistent(docs'[i]) \/ docs'[i] = docs[i]
      BY <2>3, <3>3, <3>5
    <3> QED BY <1>2, <2>5, <3>6 DEF Convert, Exists
  <2> QED BY <1>10, <2>4, <2>5
<1>11. ASSUME NEW h \in Handlers, Update(h) PROVE Figures'
  <2> DEFINE i == at[h].doc
  <2>1. at[h] \in Places /\ at[h].step = "overwriting" /\ docs \in [Ids -> Row \cup {Absent}]
    BY <1>11 DEF Update, Doing, IInv, TypeOK
  <2>2. at[h].row \in Row /\ Consistent(at[h].row) /\ i \in Ids
    BY <2>1, PlaceFields
  <2>3. Consistent([Numbered(h) EXCEPT !.status = docs[i].status, !.booked = docs[i].booked])
    BY <2>2 DEF Consistent, Numbered, Row
  <2>4. \A j \in Ids : docs'[j] = IF j = i
          THEN [Numbered(h) EXCEPT !.status = docs[i].status, !.booked = docs[i].booked]
          ELSE docs[j]
    BY <1>11, <2>1 DEF Update
  <2> QED BY <1>2, <1>11, <2>3, <2>4 DEF Update, Exists
\* The others change a status and whether it was booked.
<1>12. ASSUME NEW h \in Handlers, SetStatus(h) \/ Issue(h) \/ Receive(h) PROVE Figures'
  <2> DEFINE i == at[h].doc
  <2>1. at[h] \in Places /\ at[h].step \in {"setting", "issuing", "receiving"}
        /\ docs \in [Ids -> Row \cup {Absent}]
    BY <1>12 DEF SetStatus, Issue, Receive, Doing, IInv, TypeOK
  <2>2. i \in Ids
    BY <2>1, PlaceFields
  <2>3. Exists(i)
    BY <2>1 DEF IInv, Fits, Invoice
  <2>4. docs[i] \in Row /\ Consistent(docs[i])
    BY <2>2, <2>3, ExistsIsRow DEF IInv
  <2>5. ASSUME NEW s, NEW b
        PROVE  /\ Consistent([docs[i] EXCEPT !.status = s])
               /\ Consistent([docs[i] EXCEPT !.status = s, !.booked = b])
    BY <2>4 DEF Consistent, Row
  <2>6. Goto(h, Idle)
    BY <1>12 DEF SetStatus, Issue, Receive
  <2>7. /\ \A j \in Ids \ {i} : docs'[j] = docs[j]
        /\ docs'[i] = docs[i] \/ Consistent(docs'[i])
    <3>1. CASE SetStatus(h)
      BY <2>1, <2>5, <3>1 DEF SetStatus
    <3>2. CASE Issue(h)
      BY <2>1, <2>5, <3>2 DEF Issue
    <3>3. CASE Receive(h)
      BY <2>1, <2>5, <3>3 DEF Receive
    <3> QED BY <1>12, <3>1, <3>2, <3>3
  <2> QED BY <1>2, <2>6, <2>7, <2>3 DEF Exists
<1>13. CASE UNCHANGED vars
  BY <1>13 DEF vars, Exists
<1> QED BY <1>3, <1>4, <1>5, <1>6, <1>7, <1>8, <1>9, <1>10, <1>11, <1>12, <1>13
        DEF Next, Continue, Handlers

\* issueInvoice is never refused by trigger T2, whatever the rates and the edits: the
\* figures of a document come from one form and one rate (header), although they are
\* written by id over whatever is there, and income never exceeds the receivable.
THEOREM DraftsArePostable == Spec => []DraftsPost
<1>1. Init => Figures
  BY DEF Init, Figures, Exists, Idle
<1>2. IInv /\ Figures => DraftsPost
  <2> SUFFICES ASSUME IInv, Figures, NEW i \in Ids, Exists(i)
               PROVE  ToUsd(docs[i].net, docs[i].rate) <= docs[i].usd
    BY DEF DraftsPost, Issuable
  <2>1. docs[i] \in Row
    BY ExistsIsRow DEF IInv
  <2>2. docs[i].net \in Nat /\ docs[i].total \in Nat /\ docs[i].rate \in Nat \ {0}
    BY <2>1, RowFields
  <2> QED BY <2>2, ToUsdMonotone DEF Figures, Consistent
<1> QED BY <1>1, <1>2, FiguresStep, Invariance, PTL DEF Spec

-----------------------------------------------------------------------------
(* No deadlock but for the pool.  ENABLED is out of the prover's reach, so   *)
(* the guards of Continue and Fail are written out: CanGo(h) is              *)
(* ENABLED (Continue(h) \/ Fail(h)).                                         *)

\* The row a creation or a conversion inserts passes the unique key and the bound.
Insertable(h) == NextId \in Ids /\ NumberFree(NextId, Numbered(h))

\* Without a time-out: the handler's next query is answered, or a check refuses it.
GoesOn(h) ==
    \/ Refused(h)
    \/ /\ Connection
       /\ \/ at[h].step \in {"creating", "converting", "updating"} /\ at[h].number = 0
          \/ Doing(h, "creating") /\ at[h].number > 0 /\ Created < MaxCreated /\ Insertable(h)
          \/ Doing(h, "converting") /\ at[h].number > 0 /\ Insertable(h)
          \/ Doing(h, "updating") /\ at[h].number > 0
          \/ Doing(h, "marking")
          \/ Doing(h, "receiving") /\ at[h].number = 0
    \/ Doing(h, "overwriting") /\ ~Locked(at[h].doc) /\ NumberFree(at[h].doc, Numbered(h))
    \/ Doing(h, "setting") /\ ~Locked(at[h].doc)
    \/ Doing(h, "issuing") /\ ~Locked(at[h].doc) /\ Issuable(at[h].doc, at[h].post)
    \/ Doing(h, "collecting") /\ ~Locked(at[h].doc) /\ Collectable(at[h].doc, at[h].amount)
    \/ Doing(h, "receiving") /\ at[h].number > 0 /\ Recordable(h)

CanGo(h) == GoesOn(h) \/ TimesOut(h)

\* g holds the invoice h waits for.
Blocks(g, h) ==
    /\ at[h].step \in {"overwriting", "setting", "issuing", "collecting"}
    /\ Doing(g, "receiving") /\ at[g].doc = at[h].doc

\* A wait for a row ends at its holder, which goes on or times out.
WaitsEnd == \A h \in Handlers : at[h] # Idle =>
    CanGo(h) \/ \E g \in Handlers : Blocks(g, h) /\ CanGo(g)

\* A receipt that holds an invoice and asks the pool for its number.
AsksForNumber(h) == Doing(h, "receiving") /\ at[h].number = 0

\* Were there no time-out, everybody could wait for everybody in one way only: the
\* connections are all held, and each by a receipt that asks for one more or by a
\* request that waits for the invoice of such a receipt (another receipt, an issue,
\* an edit or a status mark).
OnlyThePool ==
    (\E h \in Handlers : at[h] # Idle) /\ (\A h \in Handlers : ~GoesOn(h)) =>
        /\ ~Connection
        /\ InTransaction # {}
        /\ \A h \in InTransaction :
              AsksForNumber(h) \/ \E g \in InTransaction : Blocks(g, h) /\ AsksForNumber(g)

\* Whoever neither goes on nor waits for a row waits for a connection.
LEMMA WaitsFor ==
    ASSUME IInv, NEW h \in Handlers, at[h] # Idle, ~GoesOn(h)
    PROVE  \/ /\ ~Connection
              /\ \/ at[h].step \in {"creating", "converting", "updating", "marking"}
                 \/ AsksForNumber(h)
           \/ \E g \in Handlers : Blocks(g, h)
<1>1. at[h] \in Places
  BY DEF IInv, TypeOK
<1>2. at[h].step # "idle"
  BY <1>1 DEF Places, Idle
<1>3. ~Refused(h)
  BY DEF GoesOn
<1>4. CASE at[h].step \in {"creating", "converting"}
  <2>1. at[h].number \in Nat
    BY <1>1, <1>4, PlaceFields
  <2>2. NextId \in Nat \ {0} /\ MaxDocs \in Nat
    BY NextIdFresh, SalesAssumption
  <2>3. at[h].number > 0 => NextId <= MaxDocs /\ NumberFree(NextId, Numbered(h))
    BY <1>3, <1>4, <2>2 DEF Refused
  <2>4. at[h].number > 0 => Insertable(h)
    BY <2>2, <2>3 DEF Insertable, Ids
  <2>5. at[h].number > 0 /\ Doing(h, "creating") => Created < MaxCreated
    <3> SUFFICES ASSUME at[h].number > 0, Doing(h, "creating") PROVE Created < MaxCreated
      OBVIOUS
    <3>1. ~(Created >= MaxCreated)
      BY <1>3 DEF Refused, Doing
    <3>2. Created \in Nat /\ MaxCreated \in Nat
      <4> DEFINE new == {i \in Ids : Exists(i) /\ docs[i].source = None}
      <4>1. IsFiniteSet(Ids)
        BY FS_Interval, SalesAssumption DEF Ids
      <4>2. IsFiniteSet(new)
        BY <4>1, FS_Subset
      <4> QED BY <4>2, FS_CardinalityType, SalesAssumption DEF Created
    <3> QED BY <3>1, <3>2
  <2>6. ~Connection
    BY <1>4, <2>1, <2>4, <2>5 DEF GoesOn, Doing
  <2> QED BY <1>4, <2>6
<1>5. CASE at[h].step \in {"updating", "marking"}
  <2>1. Doing(h, "updating") => at[h].number \in Nat
    BY <1>1, PlaceFields DEF Doing
  <2>2. ~Connection
    BY <1>5, <2>1 DEF GoesOn, Doing
  <2> QED BY <1>5, <2>2
<1>6. CASE at[h].step \in {"overwriting", "setting"}
  <2>1. Locked(at[h].doc)
    BY <1>3, <1>6 DEF GoesOn, Refused, Doing
  <2> QED BY <1>6, <2>1 DEF Locked, Blocks, Doing
<1>7. CASE Doing(h, "issuing")
  BY <1>3, <1>7 DEF GoesOn, Refused, Locked, Blocks, Doing
<1>8. CASE Doing(h, "collecting")
  BY <1>3, <1>8 DEF GoesOn, Refused, Locked, Blocks, Doing
<1>9. CASE Doing(h, "receiving")
  <2>1. at[h].number \in Nat
    BY <1>1, <1>9, PlaceFields DEF Doing
  <2>2. ~(at[h].number > 0)
    BY <1>3, <1>9 DEF GoesOn, Refused
  <2> QED BY <1>9, <2>1, <2>2 DEF GoesOn, AsksForNumber
<1> QED BY <1>1, <1>2, <1>4, <1>5, <1>6, <1>7, <1>8, <1>9, PlaceFields DEF Doing

LEMMA WaitOrGo == IInv => WaitsEnd /\ OnlyThePool
<1> SUFFICES ASSUME IInv PROVE WaitsEnd /\ OnlyThePool
  OBVIOUS
<1>1. ASSUME NEW h \in Handlers, Doing(h, "receiving") PROVE at[h] # Idle /\ ~\E g \in Handlers : Blocks(g, h)
  BY <1>1 DEF Doing, Idle, Blocks
\* The holder of a row waits for nothing but a connection,
<1>2. ASSUME NEW g \in Handlers, Doing(g, "receiving"), ~GoesOn(g)
      PROVE  ~Connection /\ AsksForNumber(g)
  <2>1. at[g] # Idle /\ ~\E f \in Handlers : Blocks(f, g)
    BY <1>1, <1>2
  <2> QED BY <1>2, <2>1, WaitsFor DEF Doing
\* and that wait times out.
<1>3. WaitsEnd
  <2> SUFFICES ASSUME NEW h \in Handlers, at[h] # Idle, ~CanGo(h)
               PROVE  \E g \in Handlers : Blocks(g, h) /\ CanGo(g)
    BY DEF WaitsEnd
  <2>1. PICK g \in Handlers : Blocks(g, h)
    BY WaitsFor DEF CanGo, TimesOut, AsksForNumber
  <2>2. CanGo(g)
    BY <1>2, <2>1 DEF Blocks, CanGo, TimesOut, AsksForNumber
  <2> QED BY <2>1, <2>2
<1>4. OnlyThePool
  <2> SUFFICES ASSUME NEW h \in Handlers, at[h] # Idle, \A f \in Handlers : ~GoesOn(f)
               PROVE  /\ ~Connection
                      /\ InTransaction # {}
                      /\ \A f \in InTransaction : AsksForNumber(f) \/
                            \E g \in InTransaction : Blocks(g, f) /\ AsksForNumber(g)
    BY DEF OnlyThePool
  <2>1. ~Connection
    BY <1>2, WaitsFor DEF Blocks
  <2>2. InTransaction # {}
    <3> SUFFICES ASSUME InTransaction = {} PROVE FALSE
      OBVIOUS
    <3>1. Cardinality(InTransaction) = 0
      BY FS_EmptySet
    <3> QED BY <2>1, <3>1, SalesAssumption DEF Connection
  <2>3. ASSUME NEW f \in InTransaction
        PROVE  AsksForNumber(f) \/ \E g \in InTransaction : Blocks(g, f) /\ AsksForNumber(g)
    <3>1. f \in Handlers /\ at[f].step \in Holding /\ at[f] # Idle
      BY DEF InTransaction, Holding, Idle
    <3>2. CASE AsksForNumber(f)
      BY <3>2
    <3>3. CASE ~AsksForNumber(f)
      <4>1. PICK g \in Handlers : Blocks(g, f)
        BY <3>1, <3>3, WaitsFor DEF Holding
      <4>2. g \in InTransaction /\ AsksForNumber(g)
        BY <1>2, <4>1 DEF Blocks, InTransaction, Holding, Doing
      <4> QED BY <4>1, <4>2
    <3> QED BY <3>2, <3>3
  <2> QED BY <2>1, <2>2, <2>3
<1> QED BY <1>3, <1>4

\* No deadlock, for any pool and any requests: whoever waits for an invoice waits for a
\* receipt, which waits for at most a connection, and that wait has a limit
\* (connectionTimeoutMillis).  The limit is needed for one state only: every connection
\* held by receipts that ask for a second one (recordReceipt calls nextNumber inside its
\* transaction) and by receipts, issues, edits and status marks that wait for the invoices
\* of those.
THEOREM NoDeadlock == Spec => [](WaitsEnd /\ OnlyThePool)
BY Invariance, WaitOrGo, PTL

=============================================================================
