--------------------------- MODULE PaymentsProofs ---------------------------
(***************************************************************************)
(* Proofs about Payments: its types, the over-payment guard and the        *)
(* payment-status roll-up, for any handlers, orders, rates and tolerances. *)
(***************************************************************************)
EXTENDS Payments, ArithmeticProofs

Holding(h) == at[h].step \in {"locked", "rolledUp"}

\* One transaction at a time holds an order.
Exclusive == \A g, h \in Handlers :
    Holding(g) /\ Holding(h) /\ at[g].target = at[h].target => g = h

\* What a transaction has established about the order it holds.
Own(h) ==
    /\ Holding(h) =>
          /\ at[h].target \in Orders
          /\ WithinPct(paid[at[h].target] + at[h].usd, TotalUsd[at[h].target], MaxTolerance)
    /\ at[h].step = "rolledUp" =>
          at[h].status = RollUpOf(at[h].target, paid[at[h].target] + at[h].usd)

IInv == TypeOK /\ Exclusive /\ (\A h \in Handlers : Own(h)) /\ NeverOverpaid /\ StatusExact

-----------------------------------------------------------------------------

\* The fields a place has, by its step.
LEMMA PlaceFields ==
    ASSUME NEW p \in Places
    PROVE  /\ p.step \in {"idle", "priced", "ready", "locked", "rolledUp", "income"}
           /\ p.step \in {"priced", "ready", "locked", "rolledUp"} =>
                 p.target \in Targets /\ p.account \in Accounts \cup {NoAccount} /\ p.usd \in Nat
           /\ p.step \in {"ready", "locked"} =>
                 /\ p.tolerance \in Tolerances
                 /\ p = [step |-> p.step, target |-> p.target, account |-> p.account,
                         usd |-> p.usd, tolerance |-> p.tolerance]
           /\ p.step = "rolledUp" => p.target \in Orders /\ p.status \in PaymentStatuses
           /\ p.step = "income" => p.account \in Accounts /\ p.usd \in Nat
BY DEF Places, Idle, Targets

LEMMA PaymentEntryTyped ==
    ASSUME NEW t \in Targets, NEW a \in Accounts \cup {NoAccount}, NEW u \in Nat
    PROVE  PaymentEntry(t, a, u) \in Entry /\ PaymentEntry(t, a, u).ref = t
BY PaymentsAssumption DEF PaymentEntry, Entry, Targets

LEMMA InitInv == Init => IInv
BY PaymentsAssumption
   DEF Init, IInv, TypeOK, Exclusive, Own, Holding, NeverOverpaid, StatusExact, PaymentsOf,
       WithinPct, Places, Idle, Targets, PaymentStatuses, Entry

-----------------------------------------------------------------------------
(* Steps that commit nothing. *)

\* A handler moves to a place where it holds no order.
LEMMA LetGo ==
    ASSUME IInv, NEW h \in Handlers, NEW p \in Places,
           p.step \notin {"locked", "rolledUp"},
           Goto(h, p), UNCHANGED committed, rate' \in Rates, tolerance' \in Tolerances
    PROVE  IInv'
<1> USE DEF IInv, Goto, committed
<1>1. TypeOK'
  BY DEF TypeOK
<1>2. at \in [Handlers -> Places] /\ at' = [at EXCEPT ![h] = p]
  BY DEF TypeOK
<1>3. \A g \in Handlers : Holding(g)' => g # h /\ Holding(g) /\ at'[g] = at[g]
  BY <1>2 DEF Holding
<1>4. Exclusive'
  BY <1>3 DEF Exclusive
<1>5. \A g \in Handlers : Own(g)'
  <2> SUFFICES ASSUME NEW g \in Handlers PROVE Own(g)'
    OBVIOUS
  <2>1. CASE Holding(g)'
    BY <1>3, <2>1 DEF Own
  <2>2. CASE ~Holding(g)'
    BY <2>2 DEF Own, Holding
  <2> QED BY <2>1, <2>2
<1>6. NeverOverpaid' /\ StatusExact'
  BY DEF NeverOverpaid, StatusExact, PaymentsOf, RollUpOf, WithinPct
<1> QED BY <1>1, <1>4, <1>5, <1>6

\* Only settings, or the cancelled orders, change.
LEMMA SettingStep ==
    ASSUME IInv, UNCHANGED <<paid, paymentStatus, journal, at>>,
           cancelled' \subseteq Orders, rate' \in Rates, tolerance' \in Tolerances
    PROVE  IInv'
BY DEF IInv, TypeOK, Exclusive, Own, Holding, NeverOverpaid, StatusExact, PaymentsOf,
       RollUpOf, WithinPct

LEMMA LockPreserves ==
    ASSUME IInv, NEW h \in Handlers, LockOrder(h)
    PROVE  IInv'
<1> DEFINE q == [at[h] EXCEPT !.step = "locked"]
<1>1. at \in [Handlers -> Places] /\ at[h] \in Places /\ at[h].step = "ready"
  BY DEF IInv, TypeOK, LockOrder, Doing
<1>2. PICK p \in Places : p = at[h]
  BY <1>1
<1>3. /\ p.target \in Orders /\ p.usd \in Nat /\ p.tolerance \in Tolerances
      /\ p.account \in Accounts \cup {NoAccount}
      /\ p = [step |-> "ready", target |-> p.target, account |-> p.account,
              usd |-> p.usd, tolerance |-> p.tolerance]
  BY <1>1, <1>2, PlaceFields DEF LockOrder
<1>4. PICK n \in Places : /\ n = [p EXCEPT !.step = "locked"]
                          /\ n.step = "locked" /\ n.target = p.target /\ n.usd = p.usd
  <2>1. [p EXCEPT !.step = "locked"] =
           [step |-> "locked", target |-> p.target, account |-> p.account,
            usd |-> p.usd, tolerance |-> p.tolerance]
    BY <1>3
  <2> QED BY <1>3, <2>1 DEF Places, Targets
<1>5. /\ at' = [at EXCEPT ![h] = n]
      /\ UNCHANGED <<cancelled, paid, paymentStatus, journal, rate, tolerance>>
      /\ ~OrderLocked(n.target) /\ NotOverpaid(n.target, n.usd, p.tolerance)
  BY <1>2, <1>4 DEF LockOrder, Goto, committed
<1>6. paid \in [Targets -> Nat] /\ n.target \in Targets /\ paid[n.target] + n.usd \in Nat
  BY <1>3, <1>4 DEF IInv, TypeOK, Targets
<1>7. TypeOK'
  BY <1>5 DEF IInv, TypeOK
<1>8. Exclusive'
  BY <1>1, <1>4, <1>5 DEF IInv, Exclusive, Holding, OrderLocked
<1>9. \A g \in Handlers : Own(g)'
  <2> SUFFICES ASSUME NEW g \in Handlers PROVE Own(g)'
    OBVIOUS
  <2>1. CASE g = h
    <3>1. WithinPct(paid[n.target] + n.usd, TotalUsd[n.target], MaxTolerance)
      BY <1>3, <1>4, <1>5, <1>6, WithinPctMonotone, PaymentsAssumption DEF NotOverpaid
    <3> QED BY <1>1, <1>3, <1>4, <1>5, <2>1, <3>1 DEF Own, WithinPct
  <2>2. CASE g # h
    <3>1. at'[g] = at[g] /\ paid' = paid /\ Own(g)
      BY <1>1, <1>5, <2>2 DEF IInv
    <3> QED BY <3>1 DEF Own, Holding, WithinPct, RollUpOf
  <2> QED BY <2>1, <2>2
<1>10. NeverOverpaid' /\ StatusExact'
  BY <1>5 DEF IInv, NeverOverpaid, StatusExact, PaymentsOf, RollUpOf, WithinPct
<1> QED BY <1>7, <1>8, <1>9, <1>10 DEF IInv

LEMMA RollUpPreserves ==
    ASSUME IInv, NEW h \in Handlers, RollUp(h)
    PROVE  IInv'
<1>1. at \in [Handlers -> Places] /\ at[h] \in Places /\ at[h].step = "locked"
  BY DEF IInv, TypeOK, RollUp, Doing
<1>2. PICK p \in Places : p = at[h]
  BY <1>1
<1>3. /\ p.target \in Orders /\ p.usd \in Nat /\ p.account \in Accounts \cup {NoAccount}
      /\ WithinPct(paid[p.target] + p.usd, TotalUsd[p.target], MaxTolerance)
  BY <1>1, <1>2, PlaceFields DEF IInv, Own, Holding
<1>4. RollUpOf(p.target, paid[p.target] + p.usd) \in PaymentStatuses
  BY DEF RollUpOf, PaymentStatuses
<1>5. PICK n \in Places :
         /\ at' = [at EXCEPT ![h] = n]
         /\ n.step = "rolledUp" /\ n.target = p.target /\ n.usd = p.usd
         /\ n.status = RollUpOf(p.target, paid[p.target] + p.usd)
  <2> DEFINE r == [step |-> "rolledUp", target |-> p.target, account |-> p.account,
                   usd |-> p.usd, status |-> RollUpOf(p.target, paid[p.target] + p.usd)]
  <2>1. r \in Places
    BY <1>3, <1>4 DEF Places
  <2>2. at' = [at EXCEPT ![h] = r]
    BY <1>2 DEF RollUp, Goto
  <2>3. /\ r.step = "rolledUp" /\ r.target = p.target /\ r.usd = p.usd
        /\ r.status = RollUpOf(p.target, paid[p.target] + p.usd)
    OBVIOUS
  <2> QED BY <2>1, <2>2, <2>3
<1>6. UNCHANGED <<cancelled, paid, paymentStatus, journal, rate, tolerance>>
  BY DEF RollUp, committed
<1>7. TypeOK'
  BY <1>5, <1>6 DEF IInv, TypeOK
<1>8. Exclusive'
  BY <1>1, <1>2, <1>5 DEF IInv, Exclusive, Holding
<1>9. \A g \in Handlers : Own(g)'
  <2> SUFFICES ASSUME NEW g \in Handlers PROVE Own(g)'
    OBVIOUS
  <2>1. CASE g = h
    BY <1>1, <1>3, <1>5, <1>6, <2>1 DEF Own, Holding, WithinPct, RollUpOf
  <2>2. CASE g # h
    <3>1. at'[g] = at[g] /\ paid' = paid /\ Own(g)
      BY <1>1, <1>5, <1>6, <2>2 DEF IInv
    <3> QED BY <3>1 DEF Own, Holding, WithinPct, RollUpOf
  <2> QED BY <2>1, <2>2
<1>10. NeverOverpaid' /\ StatusExact'
  BY <1>6 DEF IInv, NeverOverpaid, StatusExact, PaymentsOf, RollUpOf, WithinPct
<1> QED BY <1>7, <1>8, <1>9, <1>10 DEF IInv


-----------------------------------------------------------------------------
(* Commits. *)

LEMMA RecordPreserves ==
    ASSUME IInv, NEW h \in Handlers, Record(h)
    PROVE  IInv'
<1>1. at \in [Handlers -> Places] /\ at[h] \in Places /\ at[h].step = "rolledUp"
  BY DEF IInv, TypeOK, Record, Doing
<1>2. PICK t \in Orders, u \in Nat, a \in Accounts \cup {NoAccount} :
         t = at[h].target /\ u = at[h].usd /\ a = at[h].account
  BY <1>1, PlaceFields
<1>3. PICK s \in PaymentStatuses : s = at[h].status
  BY <1>1, PlaceFields
<1>4. PICK e \in Entry : e = PaymentEntry(t, a, u) /\ e.ref = t
  BY PaymentEntryTyped DEF Targets
<1>5. /\ paid' = [paid EXCEPT ![t] = paid[t] + u]
      /\ journal' = Append(journal, e)
      /\ paymentStatus' = [paymentStatus EXCEPT ![t] = s]
      /\ at' = [at EXCEPT ![h] = Idle]
      /\ UNCHANGED <<cancelled, rate, tolerance>>
  BY <1>2, <1>3, <1>4 DEF Record, Goto
<1>6. /\ t \in Targets /\ paid \in [Targets -> Nat] /\ journal \in Seq(Entry)
      /\ paymentStatus \in [Orders -> PaymentStatuses]
  BY DEF IInv, TypeOK, Targets
<1>7. /\ WithinPct(paid[t] + u, TotalUsd[t], MaxTolerance)
      /\ s = RollUpOf(t, paid[t] + u)
  BY <1>1, <1>2, <1>3 DEF IInv, Own, Holding
<1>8. TypeOK'
  <2>1. Idle \in Places
    BY DEF Places
  <2> QED BY <1>5, <1>6, <2>1 DEF IInv, TypeOK
<1>9. \A g \in Handlers : Holding(g)' => /\ g # h /\ Holding(g) /\ at'[g] = at[g]
                                         /\ at[g].target # t
  BY <1>1, <1>2, <1>5 DEF IInv, Exclusive, Holding, Idle
<1>10. Exclusive'
  BY <1>9 DEF IInv, Exclusive
<1>11. \A g \in Handlers : Own(g)'
  <2> SUFFICES ASSUME NEW g \in Handlers PROVE Own(g)'
    OBVIOUS
  <2>1. CASE Holding(g)'
    <3>1. Own(g) /\ at'[g] = at[g] /\ Holding(g) /\ at[g].target # t
      BY <1>9, <2>1 DEF IInv
    <3>2. at[g].target \in Targets /\ paid'[at[g].target] = paid[at[g].target]
      BY <1>5, <1>6, <3>1 DEF Own, Targets
    <3> QED BY <3>1, <3>2 DEF Own, Holding, WithinPct, RollUpOf
  <2>2. CASE ~Holding(g)'
    BY <2>2 DEF Own, Holding
  <2> QED BY <2>1, <2>2
<1>12. NeverOverpaid'
  <2> SUFFICES ASSUME NEW o \in Orders
               PROVE  WithinPct(paid'[o], TotalUsd[o], MaxTolerance)
    BY DEF NeverOverpaid, WithinPct
  <2> QED BY <1>5, <1>6, <1>7 DEF IInv, NeverOverpaid, Targets
<1>13. StatusExact'
  <2> SUFFICES ASSUME NEW o \in Orders
               PROVE  paymentStatus'[o] =
                         IF PaymentsOf(o)' = {} THEN "unpaid" ELSE RollUpOf(o, paid'[o])
    BY DEF StatusExact, RollUpOf
  <2>1. CASE o = t
    <3>1. Len(journal') \in PaymentsOf(t)'
      BY <1>4, <1>5, <1>6 DEF PaymentsOf
    <3> QED BY <1>5, <1>6, <1>7, <2>1, <3>1
  <2>2. CASE o # t
    <3>1. PaymentsOf(o)' = PaymentsOf(o)
      BY <1>4, <1>5, <1>6, <2>2 DEF PaymentsOf
    <3>2. paid'[o] = paid[o] /\ paymentStatus'[o] = paymentStatus[o]
      BY <1>5, <1>6, <2>2 DEF Targets
    <3> QED BY <3>1, <3>2 DEF IInv, StatusExact
  <2> QED BY <2>1, <2>2
<1> QED BY <1>8, <1>10, <1>11, <1>12, <1>13 DEF IInv

\* An entry that is no order's payment: direct, or income.
LEMMA OtherEntryPreserves ==
    ASSUME IInv, NEW h \in Handlers, NEW e \in Entry, e.ref \notin Orders,
           ~Holding(h), at' = [at EXCEPT ![h] = Idle], journal' = Append(journal, e),
           paid' \in [Targets -> Nat], \A o \in Orders : paid'[o] = paid[o],
           UNCHANGED <<cancelled, paymentStatus, rate, tolerance>>
    PROVE  IInv'
<1>1. journal \in Seq(Entry) /\ at \in [Handlers -> Places] /\ Idle \in Places
  BY DEF IInv, TypeOK, Places
<1>2. TypeOK'
  BY <1>1 DEF IInv, TypeOK
<1>3. \A g \in Handlers : Holding(g)' => Holding(g) /\ at'[g] = at[g]
  BY <1>1 DEF Holding, Idle
<1>4. Exclusive'
  BY <1>3 DEF IInv, Exclusive
<1>5. \A g \in Handlers : Own(g)'
  <2> SUFFICES ASSUME NEW g \in Handlers PROVE Own(g)'
    OBVIOUS
  <2>1. CASE Holding(g)'
    <3>1. Own(g) /\ at'[g] = at[g] /\ Holding(g)
      BY <1>3, <2>1 DEF IInv
    <3>2. paid'[at[g].target] = paid[at[g].target]
      BY <3>1 DEF Own
    <3> QED BY <3>1, <3>2 DEF Own, Holding, WithinPct, RollUpOf
  <2>2. CASE ~Holding(g)'
    BY <2>2 DEF Own, Holding
  <2> QED BY <2>1, <2>2
<1>6. NeverOverpaid'
  BY DEF IInv, NeverOverpaid, WithinPct
<1>7. \A o \in Orders : PaymentsOf(o)' = PaymentsOf(o)
  BY <1>1 DEF PaymentsOf
<1>8. StatusExact'
  BY <1>7 DEF IInv, StatusExact, RollUpOf
<1> QED BY <1>2, <1>4, <1>5, <1>6, <1>8 DEF IInv

LEMMA RecordDirectPreserves ==
    ASSUME IInv, NEW h \in Handlers, RecordDirect(h)
    PROVE  IInv'
<1>1. at[h] \in Places /\ at[h].step = "ready" /\ at[h].target = Direct
  BY DEF IInv, TypeOK, RecordDirect, Doing
<1>2. PICK u \in Nat, a \in Accounts \cup {NoAccount} : u = at[h].usd /\ a = at[h].account
  BY <1>1, PlaceFields
<1>3. PICK e \in Entry : e = PaymentEntry(Direct, a, u) /\ e.ref = Direct
  BY PaymentEntryTyped DEF Targets
<1>4. /\ paid' = [paid EXCEPT ![Direct] = paid[Direct] + u]
      /\ journal' = Append(journal, e) /\ at' = [at EXCEPT ![h] = Idle]
      /\ UNCHANGED <<cancelled, paymentStatus, rate, tolerance>>
  BY <1>2, <1>3 DEF RecordDirect, Goto
<1>5. paid' \in [Targets -> Nat] /\ \A o \in Orders : paid'[o] = paid[o]
  BY <1>4, PaymentsAssumption DEF IInv, TypeOK, Targets
<1> QED BY <1>1, <1>3, <1>4, <1>5, OtherEntryPreserves, PaymentsAssumption DEF Holding

LEMMA RecordIncomePreserves ==
    ASSUME IInv, NEW h \in Handlers, RecordIncome(h)
    PROVE  IInv'
<1>1. at[h] \in Places /\ at[h].step = "income"
  BY DEF IInv, TypeOK, RecordIncome, Doing
<1>2. at[h].account \in Accounts /\ at[h].usd \in Nat
  BY <1>1, PlaceFields
<1>3. PICK e \in Entry :
         e.ref = "income" /\ journal' = Append(journal, e)
  BY <1>2 DEF RecordIncome, Entry
<1>4. at' = [at EXCEPT ![h] = Idle] /\ UNCHANGED <<cancelled, paid, paymentStatus, rate, tolerance>>
  BY DEF RecordIncome, Goto
<1>5. paid' \in [Targets -> Nat] /\ \A o \in Orders : paid'[o] = paid[o]
  BY <1>4 DEF IInv, TypeOK
<1> QED BY <1>1, <1>3, <1>4, <1>5, OtherEntryPreserves, PaymentsAssumption DEF Holding


-----------------------------------------------------------------------------
(* The reads and refusals, one by one. *)

LEMMA ReadPreserves ==
    ASSUME IInv, NEW h \in Handlers,
           \/ \E t \in Targets, a \in Accounts \cup {NoAccount}, m \in Amounts : ReadRate(h, t, a, m)
           \/ \E a \in Accounts, m \in Amounts : ReadRateForIncome(h, a, m)
           \/ ReadTolerance(h)
           \/ RefuseOverpayment(h)
           \/ Abandon(h)
    PROVE  IInv'
<1> USE DEF committed
<1>1. rate \in Rates /\ rate \in Nat \ {0} /\ tolerance \in Tolerances
      /\ at \in [Handlers -> Places] /\ Idle \in Places /\ Idle.step = "idle"
  BY PaymentsAssumption DEF IInv, TypeOK, Places, Idle
<1>2. CASE \E t \in Targets, a \in Accounts \cup {NoAccount}, m \in Amounts : ReadRate(h, t, a, m)
  <2>1. PICK t \in Targets, a \in Accounts \cup {NoAccount}, m \in Amounts : ReadRate(h, t, a, m)
    BY <1>2
  <2>2. ToUsd(m, rate) \in Nat
    BY <1>1, ToUsdNat, PaymentsAssumption
  <2>3. PICK u \in Nat : u = ToUsd(m, rate)
    BY <2>2
  <2> DEFINE p == [step |-> "priced", target |-> t, account |-> a, usd |-> u]
  <2>4. p \in Places /\ p.step = "priced"
    BY DEF Places
  <2>5. Goto(h, p) /\ UNCHANGED committed /\ rate' = rate /\ tolerance' = tolerance
    BY <2>1, <2>3, <2>4 DEF ReadRate
  <2> HIDE DEF p
  <2> QED BY <1>1, <2>4, <2>5, LetGo
<1>3. CASE \E a \in Accounts, m \in Amounts : ReadRateForIncome(h, a, m)
  <2>1. PICK a \in Accounts, m \in Amounts : ReadRateForIncome(h, a, m)
    BY <1>3
  <2>2. ToUsd(m, rate) \in Nat
    BY <1>1, ToUsdNat, PaymentsAssumption
  <2>3. PICK u \in Nat : u = ToUsd(m, rate)
    BY <2>2
  <2> DEFINE p == [step |-> "income", account |-> a, usd |-> u]
  <2>4. p \in Places /\ p.step = "income"
    BY DEF Places
  <2>5. Goto(h, p) /\ UNCHANGED committed /\ rate' = rate /\ tolerance' = tolerance
    BY <2>1, <2>3, <2>4 DEF ReadRateForIncome
  <2> HIDE DEF p
  <2> QED BY <1>1, <2>4, <2>5, LetGo
<1>4. CASE ReadTolerance(h)
  <2>1. at[h] \in Places /\ at[h].step = "priced"
    BY <1>1, <1>4 DEF ReadTolerance, Doing
  <2>2. PICK t \in Targets, a \in Accounts \cup {NoAccount}, u \in Nat :
           t = at[h].target /\ a = at[h].account /\ u = at[h].usd
    BY <2>1, PlaceFields
  <2> DEFINE p == [step |-> "ready", target |-> t, account |-> a, usd |-> u,
                   tolerance |-> tolerance]
  <2>3. p \in Places /\ p.step = "ready"
    BY <1>1 DEF Places
  <2>4. Goto(h, p) /\ UNCHANGED committed /\ rate' = rate /\ tolerance' = tolerance
    BY <1>4, <2>2, <2>3 DEF ReadTolerance
  <2> HIDE DEF p
  <2> QED BY <1>1, <2>3, <2>4, LetGo
<1>5. CASE RefuseOverpayment(h) \/ Abandon(h)
  <2>1. Goto(h, Idle) /\ UNCHANGED committed /\ rate' = rate /\ tolerance' = tolerance
    BY <1>5 DEF RefuseOverpayment, Abandon
  <2> QED BY <1>1, <2>1, LetGo
<1> QED BY <1>2, <1>3, <1>4, <1>5

LEMMA NextInv == IInv /\ [Next]_vars => IInv'
<1> SUFFICES ASSUME IInv, [Next]_vars PROVE IInv'
  OBVIOUS
<1>1. rate \in Rates /\ tolerance \in Tolerances /\ cancelled \subseteq Orders
  BY DEF IInv, TypeOK
<1>2. CASE \E h \in Handlers :
              \/ ReadTolerance(h) \/ RefuseOverpayment(h) \/ Abandon(h)
              \/ \E t \in Targets, a \in Accounts \cup {NoAccount}, m \in Amounts :
                    ReadRate(h, t, a, m)
              \/ \E a \in Accounts, m \in Amounts : ReadRateForIncome(h, a, m)
  BY <1>2, ReadPreserves
<1>3. CASE \E h \in Handlers : LockOrder(h) \/ RollUp(h)
  BY <1>3, LockPreserves, RollUpPreserves
<1>4. CASE \E h \in Handlers : Record(h) \/ RecordDirect(h) \/ RecordIncome(h)
  BY <1>4, RecordPreserves, RecordDirectPreserves, RecordIncomePreserves
<1>5. CASE \E o \in Orders : CancelOrder(o)
  BY <1>1, <1>5, SettingStep DEF CancelOrder
<1>6. CASE \E q \in Rates : SetRate(q)
  BY <1>1, <1>6, SettingStep DEF SetRate, committed
<1>7. CASE \E pct \in Tolerances : SetTolerance(pct)
  BY <1>1, <1>7, SettingStep DEF SetTolerance, committed
<1>8. CASE UNCHANGED vars
  BY <1>1, <1>8, SettingStep DEF vars
<1> QED BY <1>2, <1>3, <1>4, <1>5, <1>6, <1>7, <1>8 DEF Next

\* The inductive invariant holds of every behaviour.
LEMMA Inductive == Spec => []IInv
BY InitInv, NextInv, PTL DEF Spec

-----------------------------------------------------------------------------
(* The books. *)

Usd == [k \in 1..Len(journal) |-> journal[k].usd]

\* An entry of an order is debited to the order's account, if it has one.
OnAccount(e) ==
    e.ref \in Orders /\ OrderAccount[e.ref] # NoAccount => e.debit = OrderAccount[e.ref]

\* Appending an entry adds its amount to what it refers to, and to nothing else.
LEMMA ExpenseAppend ==
    ASSUME journal \in Seq(Entry), NEW e \in Entry, journal' = Append(journal, e), NEW t
    PROVE  Expense(t)' = IF e.ref = t THEN Expense(t) + e.usd ELSE Expense(t)
<1> DEFINE n == Len(journal)
           old == PaymentsOf(t)
<1>1. /\ n \in Nat /\ Len(journal') = n + 1 /\ journal'[n + 1] = e
      /\ \A k \in 1..n : journal'[k] = journal[k] /\ journal[k] \in Entry
      /\ 1..(n + 1) = 1..n \cup {n + 1} /\ n + 1 \notin 1..n
  OBVIOUS
<1>2. old \subseteq 1..n /\ IsFiniteSet(old)
  <2>1. IsFiniteSet(1..n)
    BY <1>1, FS_Interval
  <2> QED BY <2>1, FS_Subset DEF PaymentsOf
<1>3. \A k \in 1..(n + 1) : Usd'[k] = journal'[k].usd /\ Usd'[k] \in Int
  BY <1>1 DEF Usd, Entry
<1>4. \A k \in old : Usd'[k] = Usd[k]
  BY <1>1, <1>2 DEF Usd
<1>5. SumFunctionOnSet(Usd', old) = SumFunctionOnSet(Usd, old)
  BY <1>2, <1>4, SameSum
<1>6. Expense(t) = SumFunctionOnSet(Usd, old) /\ Expense(t)' = SumFunctionOnSet(Usd', PaymentsOf(t)')
  BY DEF Expense, Usd
<1>7. CASE e.ref = t
  <2>1. PaymentsOf(t)' = old \cup {n + 1}
    BY <1>1, <1>7 DEF PaymentsOf
  <2>2. SumFunctionOnSet(Usd', old \cup {n + 1}) = SumFunctionOnSet(Usd', old) + Usd'[n + 1]
    <3>1. n + 1 \notin old /\ \A k \in old \cup {n + 1} : Usd'[k] \in Int
      BY <1>1, <1>2, <1>3
    <3> HIDE DEF old, n
    <3> QED BY <1>2, <3>1, SumAdd
  <2>3. Usd'[n + 1] = e.usd
    BY <1>1, <1>3
  <2> QED BY <1>5, <1>6, <1>7, <2>1, <2>2, <2>3
<1>8. CASE e.ref # t
  <2>1. PaymentsOf(t)' = old
    BY <1>1, <1>8 DEF PaymentsOf
  <2> QED BY <1>5, <1>6, <1>8, <2>1
<1> QED BY <1>7, <1>8

\* A posted entry keeps the books in agreement when its amount is added to what
\* was paid for what it refers to.
LEMMA PostedAgrees ==
    ASSUME TypeOK, BooksAgree, NEW e \in Entry, OnAccount(e), journal' = Append(journal, e),
           \A t \in Targets : paid'[t] = IF e.ref = t THEN paid[t] + e.usd ELSE paid[t]
    PROVE  BooksAgree'
<1>1. journal \in Seq(Entry)
  BY DEF TypeOK
<1>2. SUFFICES ASSUME NEW t \in Targets
               PROVE  /\ paid'[t] = Expense(t)'
                      /\ t \in Orders => \A k \in PaymentsOf(t)' :
                            OrderAccount[t] # NoAccount => journal'[k].debit = OrderAccount[t]
  BY DEF BooksAgree
<1>3. paid[t] = Expense(t)
  BY DEF BooksAgree
<1>4. paid'[t] = Expense(t)'
  BY <1>1, <1>3, ExpenseAppend
<1>5. ASSUME t \in Orders, NEW k \in PaymentsOf(t)', OrderAccount[t] # NoAccount
      PROVE  journal'[k].debit = OrderAccount[t]
  <2>1. k \in 1..(Len(journal) + 1) /\ journal'[k].ref = t
    BY <1>1, <1>5 DEF PaymentsOf
  <2>2. CASE k = Len(journal) + 1
    BY <1>1, <1>5, <2>1, <2>2 DEF OnAccount
  <2>3. CASE k \in 1..Len(journal)
    <3>1. journal'[k] = journal[k] /\ k \in PaymentsOf(t)
      BY <1>1, <2>1, <2>3 DEF PaymentsOf
    <3> QED BY <1>5, <3>1 DEF BooksAgree
  <2> QED BY <1>1, <2>1, <2>2, <2>3
<1> QED BY <1>4, <1>5

LEMMA InitBooks == Init => BooksAgree
<1> SUFFICES ASSUME Init, NEW t \in Targets PROVE paid[t] = Expense(t) /\ PaymentsOf(t) = {}
  BY DEF BooksAgree
<1>1. PaymentsOf(t) = {} /\ paid[t] = 0
  BY DEF Init, PaymentsOf
<1> QED BY <1>1, SumOfNone DEF Expense

LEMMA NextBooks == IInv /\ BooksAgree /\ [Next]_vars => BooksAgree'
<1> SUFFICES ASSUME IInv, BooksAgree, [Next]_vars PROVE BooksAgree'
  OBVIOUS
<1>1. TypeOK /\ paid \in [Targets -> Nat] /\ at \in [Handlers -> Places]
  BY DEF IInv, TypeOK
<1>2. ASSUME NEW h \in Handlers, Record(h) PROVE BooksAgree'
  <2>1. PICK p \in Places : p = at[h] /\ p.step = "rolledUp"
    BY <1>1, <1>2 DEF Record, Doing
  <2>2. p.target \in Orders /\ p.usd \in Nat /\ p.account \in Accounts \cup {NoAccount}
    BY <2>1, PlaceFields
  <2>3. PICK e : e = PaymentEntry(p.target, p.account, p.usd)
    OBVIOUS
  <2>4. e \in Entry /\ e.ref = p.target /\ e.usd = p.usd /\ OnAccount(e)
    BY <2>2, <2>3, PaymentEntryTyped, PaymentsAssumption DEF PaymentEntry, OnAccount, Targets
  <2>5. journal' = Append(journal, e) /\ paid' = [paid EXCEPT ![p.target] = @ + p.usd]
    BY <1>2, <2>1, <2>3 DEF Record
  <2>6. \A t \in Targets : paid'[t] = IF e.ref = t THEN paid[t] + e.usd ELSE paid[t]
    BY <1>1, <2>4, <2>5
  <2> QED BY <1>1, <2>4, <2>5, <2>6, PostedAgrees
<1>3. ASSUME NEW h \in Handlers, RecordDirect(h) PROVE BooksAgree'
  <2>1. PICK p \in Places : p = at[h] /\ p.step = "ready" /\ p.target = Direct
    BY <1>1, <1>3 DEF RecordDirect, Doing
  <2>2. p.usd \in Nat /\ p.account \in Accounts \cup {NoAccount}
    BY <2>1, PlaceFields
  <2>3. PICK e : e = PaymentEntry(Direct, p.account, p.usd)
    OBVIOUS
  <2>4. e \in Entry /\ e.ref = Direct /\ e.usd = p.usd /\ OnAccount(e)
    BY <2>2, <2>3, PaymentEntryTyped, PaymentsAssumption DEF PaymentEntry, OnAccount, Targets
  <2>5. journal' = Append(journal, e) /\ paid' = [paid EXCEPT ![Direct] = @ + p.usd]
    BY <1>3, <2>1, <2>3 DEF RecordDirect
  <2>6. \A t \in Targets : paid'[t] = IF e.ref = t THEN paid[t] + e.usd ELSE paid[t]
    BY <1>1, <2>4, <2>5
  <2> QED BY <1>1, <2>4, <2>5, <2>6, PostedAgrees
<1>4. ASSUME NEW h \in Handlers, RecordIncome(h) PROVE BooksAgree'
  <2>1. PICK p \in Places : p = at[h] /\ p.step = "income"
    BY <1>1, <1>4 DEF RecordIncome, Doing
  <2>2. PICK e : /\ e = [ref |-> "income", debit |-> Cash, credit |-> p.account, usd |-> p.usd]
                 /\ journal' = Append(journal, e)
    BY <1>4, <2>1 DEF RecordIncome
  <2>3. e \in Entry /\ e.ref = "income" /\ OnAccount(e)
    BY <2>1, <2>2, PlaceFields, PaymentsAssumption DEF Entry, OnAccount
  <2>4. paid' = paid
    BY <1>4 DEF RecordIncome
  <2>5. \A t \in Targets : e.ref # t
    BY <2>3, PaymentsAssumption DEF Targets
  <2>6. \A t \in Targets : paid'[t] = IF e.ref = t THEN paid[t] + e.usd ELSE paid[t]
    BY <2>4, <2>5
  <2> QED BY <1>1, <2>2, <2>3, <2>6, PostedAgrees
<1>5. CASE paid' = paid /\ journal' = journal
  BY <1>5 DEF BooksAgree, Expense, PaymentsOf
<1> QED BY <1>2, <1>3, <1>4, <1>5
    DEF Next, vars, committed, ReadTolerance, LockOrder, RefuseOverpayment, RollUp, Abandon,
        ReadRate, ReadRateForIncome, CancelOrder, SetRate, SetTolerance

-----------------------------------------------------------------------------

\* PaymentsService, PurchaseOrdersService, JournalService: every row keeps its type.
THEOREM TypeCorrect == Spec => []TypeOK
BY Inductive, PTL DEF IInv

\* C3, for any number of concurrent payments: record never lets the payments of
\* an order pass its total by more than the most generous tolerance.
THEOREM OverpaymentGuard == Spec => []NeverOverpaid
BY Inductive, PTL DEF IInv

\* rollUpPaymentStatus, run under the order's lock, leaves a payment status that
\* is exactly the roll-up of the committed payments.
THEOREM StatusRolledUp == Spec => []StatusExact
BY Inductive, PTL DEF IInv

\* JournalService posts inside the payment's own transaction, so the expense the
\* books show for an order is always exactly what was paid for it, on the order's
\* own account when it has one, however the payments interleave.
THEOREM BooksBalance == Spec => []BooksAgree
<1>1. Spec => [](IInv /\ BooksAgree)
  BY Inductive, InitBooks, NextBooks, PTL DEF Spec
<1> QED BY <1>1, PTL

=============================================================================
