----------------------- MODULE PurchaseRequestsProofs -----------------------
(***************************************************************************)
(* Proofs about PurchaseRequests, for any requests, handlers, limits and   *)
(* rates: what holds however the unlocked operations interleave, what      *)
(* holds as long as two submissions of a request never overlap, and what   *)
(* holds as long as no two operations do.                                  *)
(***************************************************************************)
EXTENDS PurchaseRequests, ArithmeticProofs

\* A handler inside an operation carries a step, a request and a row.
LEMMA Carries ==
    ASSUME TypeOK, NEW h \in Handlers
    PROVE  /\ at[h] = Idle => at[h].step = "idle"
           /\ at[h] # Idle => /\ at[h].step \in Steps
                              /\ at[h].request \in Requests
                              /\ at[h].seen \in Row
           /\ \A s \in Steps : Doing(h, s) <=> at[h].step = s
BY DEF TypeOK, Doing, Steps, Idle

\* A row taken at a rate is a row.
LEMMA AtRateTyped ==
    ASSUME NEW r \in Requests, NEW row \in Row, NEW q \in Nat \ {0}
    PROVE  /\ AtRate(row, r, q) \in Row
           /\ AtRate(row, r, q).status = row.status
           /\ AtRate(row, r, q).approver = row.approver
           /\ AtRate(row, r, q).rate = q
           /\ AtRate(row, r, q).totalUsd = ToUsd(Total[r], q)
<1>1. ToUsd(Total[r], q) \in Nat
  BY ToUsdNat, PurchaseRequestsAssumption
<1> QED BY <1>1 DEF AtRate, Row

\* The rate on file is a rate.
LEMMA RateTyped ==
    ASSUME TypeOK, NEW r \in Requests, CurrentRate(r) # NoRate
    PROVE  CurrentRate(r) \in Nat \ {0}
BY PurchaseRequestsAssumption DEF TypeOK, CurrentRate

\* An order's request is a request.
LEMMA OrderTyped ==
    ASSUME TypeOK, NEW k \in 1..Len(orders)
    PROVE  orders[k].request \in Requests
<1> DEFINE Order == [request : Requests, rate : Nat \ {0}, totalUsd : Nat]
<1>1. orders \in Seq(Order)
  BY DEF TypeOK
<1>2. orders[k] \in Order
  <2> HIDE DEF Order
  <2> QED BY <1>1
<1> QED BY <1>2

LEMMA InitType == Init => TypeOK
BY DEF Init, TypeOK, Row, Statuses

-----------------------------------------------------------------------------
(* Types. *)

\* UPDATE ... WHERE id with a row of the right type.
LEMMA UpdateTyped ==
    ASSUME TypeOK, NEW h \in Handlers, at[h] # Idle, NEW row \in Row, UpdateRow(h, row)
    PROVE  TypeOK'
<1>1. at[h].request \in Requests
  BY Carries
<1>2. pr' \in [Requests -> Row]
  BY <1>1 DEF UpdateRow, TypeOK
<1>3. at' \in [Handlers -> {Idle} \cup [step : Steps, request : Requests, seen : Row]]
  BY DEF UpdateRow, Leave, TypeOK
<1> QED BY <1>2, <1>3 DEF UpdateRow, TypeOK

\* A read leaves a place of the right type.
LEMMA ReadTyped ==
    ASSUME TypeOK, NEW h \in Handlers, NEW r \in Requests, NEW s \in Steps, NEW S,
           Read(h, s, r, S)
    PROVE  TypeOK'
BY DEF Read, Goto, TypeOK

LEMMA SubmitterStepTyped ==
    ASSUME TypeOK, NEW h \in Submitters,
           \/ Create(h) \/ LockRate(h) \/ Submit(h)
           \/ \E r \in Requests :
                 ReadForSubmit(h, r) \/ \E s \in {"draft", "pending"} : ReadRateForCreate(h, r, s)
    PROVE  TypeOK'
<1> h \in Handlers
  BY DEF Handlers
<1>1. CASE Create(h)
  <2>1. at[h] # Idle /\ at[h].seen \in Row
    BY <1>1, Carries DEF Create, Doing
  <2> QED BY <1>1, <2>1, UpdateTyped DEF Create
<1>2. CASE LockRate(h)
  <2>1. at[h] # Idle /\ at[h].request \in Requests /\ at[h].seen \in Row
    BY <1>2, Carries DEF LockRate, Doing
  <2>2. AtRate(at[h].seen, at[h].request, CurrentRate(at[h].request)) \in Row
    BY <1>2, <2>1, AtRateTyped, RateTyped DEF LockRate
  <2> QED BY <1>2, <2>1, <2>2 DEF LockRate, Goto, TypeOK, Steps
<1>3. CASE Submit(h)
  <2>1. at[h] # Idle /\ at[h].request \in Requests /\ at[h].seen \in Row
    BY <1>3, Carries DEF Submit, Doing
  <2>2. [pr[at[h].request] EXCEPT !.status = "pending", !.rate = at[h].seen.rate,
                                  !.totalUsd = at[h].seen.totalUsd] \in Row
    BY <2>1 DEF TypeOK, Row, Statuses
  <2> QED BY <1>3, <2>1, <2>2, UpdateTyped DEF Submit
<1>4. ASSUME NEW r \in Requests, ReadForSubmit(h, r)
      PROVE  TypeOK'
  BY <1>4, ReadTyped DEF ReadForSubmit, Steps
<1>5. ASSUME NEW r \in Requests, NEW s \in {"draft", "pending"}, ReadRateForCreate(h, r, s)
      PROVE  TypeOK'
  <2>1. [pr[r] EXCEPT !.status = s] \in Row
    <3>1. pr[r] \in Row /\ s \in Statuses
      BY DEF TypeOK, Statuses
    <3> QED BY <3>1 DEF Row
  <2>2. AtRate([pr[r] EXCEPT !.status = s], r, CurrentRate(r)) \in Row
    BY <1>5, <2>1, AtRateTyped, RateTyped DEF ReadRateForCreate
  <2> QED BY <1>5, <2>2 DEF ReadRateForCreate, Goto, TypeOK, Steps
<1> QED BY <1>1, <1>2, <1>3, <1>4, <1>5

\* The updates that change the status, and for a decision the approver.
LEMMA StatusUpdateTyped ==
    ASSUME TypeOK, NEW h \in Handlers, at[h] # Idle, NEW s \in Statuses,
           NEW a \in Deciders \cup {NoOne},
           UpdateRow(h, [pr[at[h].request] EXCEPT !.status = s, !.approver = a])
    PROVE  TypeOK'
<1>1. [pr[at[h].request] EXCEPT !.status = s, !.approver = a] \in Row
  BY Carries DEF TypeOK, Row
<1> QED BY <1>1, UpdateTyped

LEMMA CreateOrderTyped ==
    ASSUME TypeOK, NEW h \in Handlers, NEW total \in OrderTotals, CreateOrder(h, total)
    PROVE  TypeOK'
<1> DEFINE r == at[h].request
           q == at[h].seen.rate
<1>1. r \in Requests /\ q \in Nat \ {0}
  BY Carries DEF CreateOrder, Doing, Row
<1>2. ToUsd(total, q) \in Nat
  BY <1>1, ToUsdNat, PurchaseRequestsAssumption
<1>3. [request |-> r, rate |-> q, totalUsd |-> ToUsd(total, q)]
        \in [request : Requests, rate : Nat \ {0}, totalUsd : Nat]
  BY <1>1, <1>2
<1>4. orders' \in Seq([request : Requests, rate : Nat \ {0}, totalUsd : Nat])
  BY <1>3 DEF CreateOrder, TypeOK
<1>5. [pr[r] EXCEPT !.status = "converted"] \in Row
  <2>1. pr[r] \in Row /\ "converted" \in Statuses
    BY <1>1 DEF TypeOK, Statuses
  <2> QED BY <2>1 DEF Row
<1>6. pr' \in [Requests -> Row]
  BY <1>1, <1>5 DEF CreateOrder, TypeOK
<1>7. at' \in [Handlers -> {Idle} \cup [step : Steps, request : Requests, seen : Row]]
  BY DEF CreateOrder, Leave, TypeOK
<1> QED BY <1>4, <1>6, <1>7 DEF CreateOrder, TypeOK

LEMMA TypeStep == TypeOK /\ [Next]_vars => TypeOK'
<1> SUFFICES ASSUME TypeOK, [Next]_vars PROVE TypeOK'
  OBVIOUS
<1>1. ASSUME NEW r \in Requests, CreateReorderDraft(r) PROVE TypeOK'
  <2>1. [pr[r] EXCEPT !.status = "draft"] \in Row
    <3>1. pr[r] \in Row /\ "draft" \in Statuses
      BY DEF TypeOK, Statuses
    <3> QED BY <3>1 DEF Row
  <2> QED BY <1>1, <2>1 DEF CreateReorderDraft, TypeOK
<1>2. ASSUME NEW q \in Rates, SetRate(q) PROVE TypeOK'
  BY <1>2 DEF SetRate, TypeOK
<1>3. ASSUME NEW h \in Deciders, NEW r \in Requests,
             ReadForApproval(h, r) \/ ReadForRejection(h, r)
      PROVE  TypeOK'
  BY <1>3, ReadTyped DEF ReadForApproval, ReadForRejection, Steps, Handlers
<1>4. ASSUME NEW h \in Deciders, Decide(h) PROVE TypeOK'
  <2>1. PICK d \in {"approved", "rejected"} :
          /\ at[h] # Idle
          /\ UpdateRow(h, [pr[at[h].request] EXCEPT !.status = d, !.approver = h])
    BY <1>4 DEF Decide, Doing
  <2> QED BY <2>1, StatusUpdateTyped DEF Handlers, Statuses
<1>5. ASSUME NEW h \in Handlers, NEW r \in Requests,
             ReadForCancel(h, r) \/ ReadForRemove(h, r) \/ ReadForOrder(h, r)
      PROVE  TypeOK'
  BY <1>5, ReadTyped DEF ReadForCancel, ReadForRemove, ReadForOrder, Steps
<1>6. ASSUME NEW h \in Handlers, Cancel(h) \/ Remove(h) PROVE TypeOK'
  <2>1. CASE UNCHANGED <<pr, orders, rate>> /\ Leave(h)
    BY <2>1 DEF Leave, TypeOK
  <2>2. ASSUME NEW s \in {"cancelled", "deleted"}, at[h] # Idle,
               UpdateRow(h, [pr[at[h].request] EXCEPT !.status = s])
        PROVE  TypeOK'
    <3>1. [pr[at[h].request] EXCEPT !.status = s] \in Row
      BY <2>2, Carries DEF TypeOK, Row, Statuses
    <3> QED BY <2>2, <3>1, UpdateTyped
  <2> QED BY <1>6, <2>1, <2>2 DEF Cancel, Remove, Doing
<1>7. ASSUME NEW h \in Handlers, Abandon(h) PROVE TypeOK'
  BY <1>7 DEF Abandon, Leave, TypeOK
<1>8. CASE UNCHANGED vars
  BY <1>8 DEF vars, TypeOK
<1> QED
  BY <1>1, <1>2, <1>3, <1>4, <1>5, <1>6, <1>7, <1>8, SubmitterStepTyped, CreateOrderTyped
  DEF Next, Handlers

\* Every reachable state of the requests, the orders and the handlers is well typed.
THEOREM TypeCorrect == Spec => []TypeOK
<1> QED BY InitType, TypeStep, PTL DEF Spec

-----------------------------------------------------------------------------
(* What no interleaving breaks.                                            *)

RowInv(r) ==
    /\ pr[r].status = "absent" =>
          pr[r].rate = 1 /\ pr[r].totalUsd = 0 /\ pr[r].approver = NoOne
    /\ pr[r].status # "absent" => pr[r].totalUsd = ToUsd(Total[r], pr[r].rate)
    /\ pr[r].status = "approved" => pr[r].approver # NoOne

\* What a handler carries: a row about to be written has its total at its rate,
\* and a request that was read exists, decided if an order is to come of it.
PlaceInv(h) ==
    /\ Doing(h, "creating") =>
          at[h].seen.status \in {"draft", "pending"} /\ at[h].seen.approver = NoOne
    /\ Doing(h, "creating") \/ Doing(h, "rated") =>
          at[h].seen.totalUsd = ToUsd(Total[at[h].request], at[h].seen.rate)
    /\ at[h] # Idle /\ ~Doing(h, "creating") => pr[at[h].request].status # "absent"
    /\ Doing(h, "ordering") => pr[at[h].request].approver # NoOne

HistoryInv ==
    /\ \A r \in Requests : RowInv(r)
    /\ \A h \in Handlers : PlaceInv(h)
    /\ OrderHasRequest
    /\ OrderWasDecided

\* All that a step may do to a request besides nothing: each move names the
\* handler behind it, and what of the row it leaves alone.
Created(r) ==
    /\ pr[r].status = "absent"
    /\ pr'[r].status \in {"draft", "pending"}
    /\ pr'[r].approver = NoOne
    /\ pr'[r].totalUsd = ToUsd(Total[r], pr'[r].rate)

Submitted(r) == \E h \in Submitters :
    /\ Doing(h, "rated") /\ at[h].request = r /\ at'[h] = Idle
    /\ pr'[r].status = "pending"
    /\ pr'[r].approver = pr[r].approver
    /\ pr'[r].totalUsd = ToUsd(Total[r], pr'[r].rate)

SameAmount(r) == pr'[r].rate = pr[r].rate /\ pr'[r].totalUsd = pr[r].totalUsd

Decided(r) == \E h \in Deciders :
    /\ at[h] # Idle /\ at[h].request = r
    /\ \/ Doing(h, "approving") /\ pr'[r].status = "approved"
       \/ Doing(h, "rejecting") /\ pr'[r].status = "rejected"
    /\ pr'[r].approver = h
    /\ SameAmount(r)

Ended(r) ==
    /\ pr'[r].status \in {"cancelled", "deleted"}
    /\ pr'[r].status = "deleted" => ~Referenced(r)
    /\ pr'[r].approver = pr[r].approver
    /\ SameAmount(r)

Converted(r) ==
    /\ \E h \in Buyers : Doing(h, "ordering") /\ at[h].request = r
    /\ pr'[r].status = "converted"
    /\ pr'[r].approver = pr[r].approver
    /\ SameAmount(r)

RowMove(r) ==
    \/ pr'[r] = pr[r]
    \/ Created(r)
    \/ pr[r].status # "absent" /\ (Submitted(r) \/ Decided(r) \/ Ended(r) \/ Converted(r))

\* UPDATE ... WHERE id touches one row, or none.
LEMMA UpdateShape ==
    ASSUME TypeOK, NEW h \in Handlers, at[h] # Idle, NEW row, UpdateRow(h, row)
    PROVE  /\ pr'[at[h].request] \in {row, pr[at[h].request]}
           /\ \A r \in Requests \ {at[h].request} : pr'[r] = pr[r]
BY Carries DEF UpdateRow, TypeOK

\* Changing the status of a row, and with it the approver, changes nothing else.
LEMMA WithStatus ==
    ASSUME NEW row \in Row, NEW s
    PROVE  /\ [row EXCEPT !.status = s].status = s
           /\ [row EXCEPT !.status = s].rate = row.rate
           /\ [row EXCEPT !.status = s].totalUsd = row.totalUsd
           /\ [row EXCEPT !.status = s].approver = row.approver
           /\ \A a : /\ [row EXCEPT !.status = s, !.approver = a].status = s
                     /\ [row EXCEPT !.status = s, !.approver = a].rate = row.rate
                     /\ [row EXCEPT !.status = s, !.approver = a].totalUsd = row.totalUsd
                     /\ [row EXCEPT !.status = s, !.approver = a].approver = a
BY DEF Row

LEMMA InitHistory == Init => HistoryInv
BY DEF Init, HistoryInv, RowInv, PlaceInv, OrderHasRequest, OrderWasDecided, Doing

\* UPDATE ... WHERE id of the status and the approver of a request that was read.
LEMMA StatusUpdateShape ==
    ASSUME TypeOK, HistoryInv, NEW h \in Handlers, NEW r, at[h] # Idle, at[h].request = r,
           ~Doing(h, "creating"), NEW s, NEW a,
           pr' = pr \/ pr' = [pr EXCEPT ![r] = [pr[r] EXCEPT !.status = s, !.approver = a]]
    PROVE  /\ r \in Requests /\ pr[r].status # "absent"
           /\ \A p \in Requests \ {r} : pr'[p] = pr[p]
           /\ \/ pr'[r] = pr[r]
              \/ pr'[r].status = s /\ pr'[r].approver = a /\ SameAmount(r)
<1> DEFINE row == [pr[r] EXCEPT !.status = s, !.approver = a]
<1>1. r \in Requests /\ pr[r] \in Row /\ pr[r].status # "absent"
  BY Carries DEF TypeOK, HistoryInv, PlaceInv
<1>2. row.status = s /\ row.rate = pr[r].rate /\ row.totalUsd = pr[r].totalUsd /\ row.approver = a
  BY <1>1, WithStatus
<1>3. pr' = pr \/ pr' = [pr EXCEPT ![r] = row]
  OBVIOUS
<1> HIDE DEF row
<1>4. pr'[r] \in {row, pr[r]} /\ \A p \in Requests \ {r} : pr'[p] = pr[p]
  BY <1>1, <1>3 DEF TypeOK
<1> QED BY <1>1, <1>2, <1>4 DEF SameAmount

LEMMA RowStep ==
    ASSUME TypeOK, HistoryInv, [Next]_vars
    PROVE  \A r \in Requests : RowMove(r)
<1>1. ASSUME UNCHANGED pr PROVE \A r \in Requests : RowMove(r)
  BY <1>1 DEF RowMove
<1>2. ASSUME NEW r \in Requests, RowMove(r), \A p \in Requests \ {r} : pr'[p] = pr[p]
      PROVE  \A p \in Requests : RowMove(p)
  BY <1>2 DEF RowMove
<1>3. ASSUME NEW r \in Requests, CreateReorderDraft(r) PROVE \A p \in Requests : RowMove(p)
  <2>1. pr[r] \in Row /\ Total[r] = 0
    BY <1>3, PurchaseRequestsAssumption DEF CreateReorderDraft, TypeOK
  <2>2. pr'[r] = [pr[r] EXCEPT !.status = "draft"] /\ \A p \in Requests \ {r} : pr'[p] = pr[p]
    BY <1>3 DEF CreateReorderDraft, TypeOK
  <2>3. ToUsd(0, 1) = 0
    BY DEF ToUsd
  <2>4. pr[r].rate = 1 /\ pr[r].totalUsd = 0 /\ pr[r].approver = NoOne /\ pr[r].status = "absent"
    BY <1>3 DEF CreateReorderDraft, HistoryInv, RowInv
  <2>5. /\ pr'[r].status = "draft" /\ pr'[r].rate = 1
        /\ pr'[r].totalUsd = 0 /\ pr'[r].approver = NoOne
    BY <2>1, <2>2, <2>4, WithStatus
  <2>6. Created(r)
    BY <2>1, <2>3, <2>4, <2>5 DEF Created
  <2> QED BY <1>2, <2>2, <2>6 DEF RowMove
<1>4. ASSUME NEW h \in Handlers, Create(h) PROVE \A r \in Requests : RowMove(r)
  <2>1. at[h] # Idle /\ at[h].request \in Requests
    BY <1>4, Carries DEF Create, Doing
  <2>2. pr'[at[h].request] = pr[at[h].request] \/ Created(at[h].request)
    BY <1>4, <2>1, UpdateShape DEF Create, Created, HistoryInv, PlaceInv
  <2>3. \A p \in Requests \ {at[h].request} : pr'[p] = pr[p]
    BY <1>4, <2>1, UpdateShape DEF Create
  <2> QED BY <1>2, <2>1, <2>2, <2>3 DEF RowMove
<1>5. ASSUME NEW h \in Submitters, Submit(h) PROVE \A r \in Requests : RowMove(r)
  <2> h \in Handlers
    BY DEF Handlers
  <2> DEFINE r == at[h].request
             row == [pr[r] EXCEPT !.status = "pending", !.rate = at[h].seen.rate,
                                  !.totalUsd = at[h].seen.totalUsd]
  <2>1. Doing(h, "rated") /\ at[h] # Idle /\ r \in Requests /\ pr[r] \in Row
    BY <1>5, Carries DEF Submit, Doing, TypeOK
  <2>2. /\ row.status = "pending" /\ row.approver = pr[r].approver
        /\ row.rate = at[h].seen.rate /\ row.totalUsd = at[h].seen.totalUsd
    BY <2>1 DEF Row
  <2>3. UpdateRow(h, row) /\ at'[h] = Idle
    BY <1>5 DEF Submit, UpdateRow, Leave, TypeOK
  <2>4. pr[r].status # "absent" /\ row.totalUsd = ToUsd(Total[r], row.rate)
    BY <2>1, <2>2 DEF HistoryInv, PlaceInv, Doing
  <2> HIDE DEF row
  <2>5. pr'[r] \in {row, pr[r]} /\ \A p \in Requests \ {r} : pr'[p] = pr[p]
    BY <2>1, <2>3, UpdateShape
  <2>6. pr'[r] = row => Submitted(r)
    BY <2>1, <2>2, <2>3, <2>4 DEF Submitted
  <2> QED BY <1>2, <2>1, <2>4, <2>5, <2>6 DEF RowMove
<1>6. ASSUME NEW h \in Deciders, Decide(h) PROVE \A r \in Requests : RowMove(r)
  <2>1. PICK d \in {"approved", "rejected"} :
          /\ Doing(h, IF d = "approved" THEN "approving" ELSE "rejecting")
          /\ UpdateRow(h, [pr[at[h].request] EXCEPT !.status = d, !.approver = h])
    BY <1>6 DEF Decide
  <2>2. /\ h \in Handlers /\ at[h] # Idle /\ ~Doing(h, "creating")
        /\ \/ d = "approved" /\ Doing(h, "approving")
           \/ d = "rejected" /\ Doing(h, "rejecting")
    BY <2>1 DEF Doing, Handlers
  <2>3. pr' = pr \/ pr' = [pr EXCEPT ![at[h].request] =
                              [pr[at[h].request] EXCEPT !.status = d, !.approver = h]]
    BY <2>1 DEF UpdateRow
  <2> DEFINE r == at[h].request
  <2>4. /\ r \in Requests /\ pr[r].status # "absent"
        /\ \A p \in Requests \ {r} : pr'[p] = pr[p]
        /\ \/ pr'[r] = pr[r]
           \/ pr'[r].status = d /\ pr'[r].approver = h /\ SameAmount(r)
    BY <2>2, <2>3, StatusUpdateShape
  <2>5. pr'[r] = pr[r] \/ Decided(r)
    BY <2>2, <2>4 DEF Decided
  <2> QED BY <1>2, <2>4, <2>5 DEF RowMove
<1>7. ASSUME NEW h \in Handlers, at[h] # Idle, ~Doing(h, "creating"),
             NEW s \in {"cancelled", "deleted", "converted"},
             pr' = pr \/ pr' = [pr EXCEPT ![at[h].request] =
                                   [pr[at[h].request] EXCEPT !.status = s]],
             s = "deleted" => ~Referenced(at[h].request),
             s = "converted" => h \in Buyers /\ Doing(h, "ordering")
      PROVE  \A r \in Requests : RowMove(r)
  <2> DEFINE r == at[h].request
  <2>1. PICK a : a = pr[r].approver
    OBVIOUS
  <2>2. pr' = pr \/ pr' = [pr EXCEPT ![r] = [pr[r] EXCEPT !.status = s, !.approver = a]]
    <3>1. [pr[r] EXCEPT !.status = s] = [pr[r] EXCEPT !.status = s, !.approver = a]
      BY <1>7, <2>1, Carries DEF TypeOK, Row
    <3> QED BY <1>7, <3>1
  <2>3. /\ r \in Requests /\ pr[r].status # "absent"
        /\ \A p \in Requests \ {r} : pr'[p] = pr[p]
        /\ \/ pr'[r] = pr[r]
           \/ pr'[r].status = s /\ pr'[r].approver = a /\ SameAmount(r)
    BY <1>7, <2>2, StatusUpdateShape
  <2>4. pr'[r] = pr[r] \/ Ended(r) \/ Converted(r)
    BY <1>7, <2>1, <2>3 DEF Ended, Converted
  <2> QED BY <1>2, <2>3, <2>4 DEF RowMove
<1>8. ASSUME NEW h \in Handlers, Cancel(h) \/ Remove(h) PROVE \A r \in Requests : RowMove(r)
  <2>1. CASE UNCHANGED pr
    BY <1>1, <2>1
  <2>2. CASE Cancel(h)
    BY <1>7, <2>2 DEF Cancel, UpdateRow, Doing
  <2>3. CASE Remove(h) /\ ~UNCHANGED pr
    BY <1>7, <2>3 DEF Remove, UpdateRow, Doing
  <2> QED BY <1>8, <2>1, <2>2, <2>3
<1>9. ASSUME NEW h \in Buyers, NEW total \in OrderTotals, CreateOrder(h, total)
       PROVE  \A r \in Requests : RowMove(r)
  <2>1. /\ h \in Handlers /\ at[h] # Idle /\ at[h].request \in Requests
        /\ Doing(h, "ordering") /\ ~Doing(h, "creating")
    BY <1>9, Carries DEF CreateOrder, Doing, Handlers
  <2>2. pr' = [pr EXCEPT ![at[h].request] = [pr[at[h].request] EXCEPT !.status = "converted"]]
    BY <1>9, <2>1 DEF CreateOrder, TypeOK
  <2> QED BY <1>7, <1>9, <2>1, <2>2
<1>10. ASSUME NEW h \in Handlers,
              \/ LockRate(h) \/ Abandon(h)
              \/ \E r \in Requests :
                    \/ ReadForSubmit(h, r) \/ ReadForApproval(h, r) \/ ReadForRejection(h, r)
                    \/ ReadForCancel(h, r) \/ ReadForRemove(h, r) \/ ReadForOrder(h, r)
                    \/ \E s \in {"draft", "pending"} : ReadRateForCreate(h, r, s)
       PROVE  UNCHANGED pr
  BY <1>10 DEF LockRate, Abandon, ReadForSubmit, ReadForApproval, ReadForRejection, ReadForCancel,
     ReadForRemove, ReadForOrder, ReadRateForCreate, Read
<1>11. ASSUME NEW q \in Rates, SetRate(q) PROVE UNCHANGED pr
  BY <1>11 DEF SetRate
<1>12. CASE UNCHANGED vars
  BY <1>1, <1>12 DEF vars
<1> QED
  BY <1>1, <1>3, <1>4, <1>5, <1>6, <1>8, <1>9, <1>10, <1>11, <1>12 DEF Next, Handlers

\* No move unmakes a request or a decision, or deletes what an order refers to.
LEMMA RowKeeps ==
    ASSUME HistoryInv, NEW r \in Requests, RowMove(r)
    PROVE  /\ RowInv(r)'
           /\ pr[r].status # "absent" =>
                 /\ pr'[r].status # "absent"
                 /\ pr[r].approver # NoOne => pr'[r].approver # NoOne
                 /\ Referenced(r) /\ pr[r].status # "deleted" => pr'[r].status # "deleted"
<1>1. RowInv(r)
  BY DEF HistoryInv
<1> QED
  BY <1>1, PurchaseRequestsAssumption
  DEF RowMove, RowInv, Created, Submitted, Decided, Ended, Converted, SameAmount

-----------------------------------------------------------------------------
(* How a handler moves, and the history the steps build.                   *)

\* What a handler has made sure of when it takes a row it has read into a step.
Entry(h, step, r) ==
    /\ pr[r].status # "absent"
    /\ step = "submitting" => h \in Submitters /\ pr[r].status = "draft"
    /\ step \in {"approving", "rejecting"} => pr[r].status = "pending"
    /\ step = "approving" => Covers(h, pr[r].totalUsd)
    /\ step = "ordering" => pr[r].status = "approved"

\* All that a step may do to a handler: nothing, the end of its operation, or a
\* read, after which it carries the row it read or the row it is about to write.
HandlerMove(h) ==
    \/ at'[h] = at[h]
    \/ at'[h] = Idle
    \/ /\ UNCHANGED pr
       /\ \E r \in Requests, step \in Steps \ {"creating", "rated"} :
             /\ at'[h] = [step |-> step, request |-> r, seen |-> pr[r]]
             /\ Entry(h, step, r)
    \/ /\ UNCHANGED pr
       /\ \E r \in Requests, s \in {"draft", "pending"}, q \in Nat \ {0} :
             /\ at'[h] = [step |-> "creating", request |-> r,
                          seen |-> AtRate([pr[r] EXCEPT !.status = s], r, q)]
             /\ pr[r].status = "absent"
    \/ /\ UNCHANGED pr
       /\ Doing(h, "submitting")
       /\ \E q \in Nat \ {0} :
             at'[h] = [step |-> "rated", request |-> at[h].request,
                       seen |-> AtRate(at[h].seen, at[h].request, q)]

LEMMA HandlerStep ==
    ASSUME TypeOK, [Next]_vars
    PROVE  \A h \in Handlers : HandlerMove(h)
<1>1. ASSUME UNCHANGED at PROVE \A h \in Handlers : HandlerMove(h)
  BY <1>1 DEF HandlerMove
<1>2. ASSUME NEW h \in Handlers, Leave(h) PROVE \A g \in Handlers : HandlerMove(g)
  BY <1>2 DEF Leave, HandlerMove, TypeOK
<1>3. ASSUME NEW h \in Handlers, HandlerMove(h), \A g \in Handlers \ {h} : at'[g] = at[g]
      PROVE  \A g \in Handlers : HandlerMove(g)
  BY <1>3 DEF HandlerMove
<1>4. ASSUME NEW h \in Handlers, NEW r \in Requests,
             \/ h \in Submitters /\ ReadForSubmit(h, r)
             \/ ReadForApproval(h, r) \/ ReadForRejection(h, r)
             \/ ReadForCancel(h, r) \/ ReadForRemove(h, r) \/ ReadForOrder(h, r)
      PROVE  \A g \in Handlers : HandlerMove(g)
  <2>1. PICK step \in Steps \ {"creating", "rated"} :
          UNCHANGED pr /\ Goto(h, step, r, pr[r]) /\ Entry(h, step, r)
    BY <1>4 DEF ReadForSubmit, ReadForApproval, ReadForRejection, ReadForCancel, ReadForRemove,
       ReadForOrder, Read, Steps, Entry
  <2>2. /\ at'[h] = [step |-> step, request |-> r, seen |-> pr[r]]
        /\ \A g \in Handlers \ {h} : at'[g] = at[g]
    BY <2>1 DEF Goto, TypeOK
  <2>3. HandlerMove(h)
    BY <2>1, <2>2 DEF HandlerMove
  <2> QED BY <1>3, <2>2, <2>3
<1>5. ASSUME NEW h \in Handlers, NEW r \in Requests, NEW s \in {"draft", "pending"},
             ReadRateForCreate(h, r, s)
      PROVE  \A g \in Handlers : HandlerMove(g)
  <2>1. CurrentRate(r) \in Nat \ {0} /\ UNCHANGED pr /\ pr[r].status = "absent"
    BY <1>5, RateTyped DEF ReadRateForCreate
  <2>2. /\ at'[h] = [step |-> "creating", request |-> r,
                     seen |-> AtRate([pr[r] EXCEPT !.status = s], r, CurrentRate(r))]
        /\ \A g \in Handlers \ {h} : at'[g] = at[g]
    BY <1>5 DEF ReadRateForCreate, Goto, TypeOK
  <2>3. HandlerMove(h)
    BY <2>1, <2>2 DEF HandlerMove
  <2> QED BY <1>3, <2>2, <2>3
<1>6. ASSUME NEW h \in Handlers, LockRate(h) PROVE \A g \in Handlers : HandlerMove(g)
  <2> DEFINE r == at[h].request
  <2>1. Doing(h, "submitting") /\ UNCHANGED pr /\ CurrentRate(r) # NoRate /\ r \in Requests
    BY <1>6, Carries DEF LockRate, Doing
  <2>2. CurrentRate(r) \in Nat \ {0}
    BY <2>1, RateTyped
  <2>3. /\ at'[h] = [step |-> "rated", request |-> r,
                     seen |-> AtRate(at[h].seen, r, CurrentRate(r))]
        /\ \A g \in Handlers \ {h} : at'[g] = at[g]
    BY <1>6 DEF LockRate, Goto, TypeOK
  <2>4. HandlerMove(h)
    BY <2>1, <2>2, <2>3 DEF HandlerMove
  <2> QED BY <1>3, <2>3, <2>4
<1>7. ASSUME NEW h \in Handlers,
             \/ Create(h) \/ Submit(h) \/ Decide(h) \/ Cancel(h) \/ Remove(h) \/ Abandon(h)
             \/ \E total \in OrderTotals : CreateOrder(h, total)
      PROVE  Leave(h)
  BY <1>7 DEF Create, Submit, Decide, Cancel, Remove, Abandon, CreateOrder, UpdateRow
<1>8. ASSUME \/ \E r \in Requests : CreateReorderDraft(r)
             \/ \E q \in Rates : SetRate(q)
             \/ UNCHANGED vars
      PROVE  UNCHANGED at
  BY <1>8 DEF CreateReorderDraft, SetRate, vars
<1> QED
  BY <1>1, <1>2, <1>4, <1>5, <1>6, <1>7, <1>8 DEF Next, Handlers

LEMMA PlaceStep ==
    ASSUME TypeOK, HistoryInv, [Next]_vars, NEW h \in Handlers
    PROVE  PlaceInv(h)'
<1>1. HandlerMove(h) /\ \A r \in Requests : RowMove(r)
  BY HandlerStep, RowStep
<1>2. CASE at'[h] = at[h]
  <2>1. CASE at[h] = Idle
    BY <1>2, <2>1 DEF PlaceInv, Doing
  <2>2. CASE at[h] # Idle
    <3>1. at[h].request \in Requests
      BY <2>2, Carries
    <3>2. RowMove(at[h].request)
      BY <1>1, <3>1
    <3>4. pr[at[h].request].status # "absent" =>
            /\ pr'[at[h].request].status # "absent"
            /\ pr[at[h].request].approver # NoOne => pr'[at[h].request].approver # NoOne
      BY <3>1, <3>2, RowKeeps
    <3>3. PlaceInv(h)
      BY DEF HistoryInv
    <3> QED BY <1>2, <2>2, <3>3, <3>4 DEF PlaceInv, Doing
  <2> QED BY <2>1, <2>2
<1>3. CASE at'[h] = Idle
  BY <1>3 DEF PlaceInv, Doing
<1>4. ASSUME NEW r \in Requests, NEW step \in Steps \ {"creating", "rated"}, UNCHANGED pr,
             at'[h] = [step |-> step, request |-> r, seen |-> pr[r]],
             Entry(h, step, r)
      PROVE  PlaceInv(h)'
  BY <1>4 DEF PlaceInv, Doing, HistoryInv, RowInv, Entry
<1>5. ASSUME NEW r \in Requests, NEW s \in {"draft", "pending"}, NEW q \in Nat \ {0},
             UNCHANGED pr, pr[r].status = "absent",
             at'[h] = [step |-> "creating", request |-> r,
                       seen |-> AtRate([pr[r] EXCEPT !.status = s], r, q)]
      PROVE  PlaceInv(h)'
  <2> DEFINE row == [pr[r] EXCEPT !.status = s]
  <2>1. pr[r] \in Row /\ pr[r].approver = NoOne
    BY <1>5 DEF TypeOK, HistoryInv, RowInv
  <2>2. row \in Row /\ row.status = s /\ row.approver = NoOne
    BY <2>1, WithStatus DEF Row, Statuses
  <2> HIDE DEF row
  <2>3. /\ AtRate(row, r, q).status = s /\ AtRate(row, r, q).approver = NoOne
        /\ AtRate(row, r, q).totalUsd = ToUsd(Total[r], AtRate(row, r, q).rate)
    BY <2>2, AtRateTyped
  <2>4. at'[h] = [step |-> "creating", request |-> r, seen |-> AtRate(row, r, q)]
    BY <1>5 DEF row
  <2> QED BY <2>3, <2>4 DEF PlaceInv, Doing
<1>6. ASSUME NEW q \in Nat \ {0}, UNCHANGED pr, Doing(h, "submitting"),
             at'[h] = [step |-> "rated", request |-> at[h].request,
                       seen |-> AtRate(at[h].seen, at[h].request, q)]
      PROVE  PlaceInv(h)'
  <2> DEFINE r == at[h].request
             row == AtRate(at[h].seen, r, q)
  <2>1. r \in Requests /\ at[h].seen \in Row
    BY <1>6, Carries DEF Doing
  <2>2. row.totalUsd = ToUsd(Total[r], row.rate)
    BY <2>1, AtRateTyped
  <2>3. pr[r].status # "absent"
    BY <1>6 DEF HistoryInv, PlaceInv, Doing
  <2>4. at'[h] = [step |-> "rated", request |-> r, seen |-> row]
    BY <1>6
  <2> HIDE DEF row, r
  <2> QED BY <1>6, <2>2, <2>3, <2>4 DEF PlaceInv, Doing
<1> QED BY <1>1, <1>2, <1>3, <1>4, <1>5, <1>6 DEF HandlerMove

\* An order is appended for an approved request, which is converted with it.
LEMMA OrdersStep ==
    ASSUME TypeOK, HistoryInv, [Next]_vars
    PROVE  \/ orders' = orders
           \/ \E h \in Buyers, total \in OrderTotals :
                 /\ Doing(h, "ordering") /\ at[h].request \in Requests
                 /\ orders' = Append(orders, [request |-> at[h].request, rate |-> at[h].seen.rate,
                                              totalUsd |-> ToUsd(total, at[h].seen.rate)])
                 /\ pr' = [pr EXCEPT ![at[h].request].status = "converted"]
<1>1. ASSUME NEW h \in Buyers, NEW total \in OrderTotals, CreateOrder(h, total)
      PROVE  at[h].request \in Requests
  BY <1>1, Carries DEF CreateOrder, Doing, Handlers
<1>2. ASSUME NEW h \in Handlers, Decide(h) PROVE UNCHANGED orders
  BY <1>2 DEF Decide, UpdateRow
<1>3. ASSUME NEW h \in Handlers,
             \/ Create(h) \/ LockRate(h) \/ Submit(h) \/ Cancel(h) \/ Remove(h) \/ Abandon(h)
             \/ \E r \in Requests :
                   \/ ReadForSubmit(h, r) \/ ReadForApproval(h, r) \/ ReadForRejection(h, r)
                   \/ ReadForCancel(h, r) \/ ReadForRemove(h, r) \/ ReadForOrder(h, r)
                   \/ \E s \in {"draft", "pending"} : ReadRateForCreate(h, r, s)
      PROVE  UNCHANGED orders
  BY <1>3 DEF Create, LockRate, Submit, Cancel, Remove, Abandon, ReadForSubmit, ReadForApproval,
     ReadForRejection, ReadForCancel, ReadForRemove, ReadForOrder, ReadRateForCreate, Read, UpdateRow
<1>4. ASSUME \/ \E r \in Requests : CreateReorderDraft(r)
             \/ \E q \in Rates : SetRate(q)
             \/ UNCHANGED vars
      PROVE  UNCHANGED orders
  BY <1>4 DEF CreateReorderDraft, SetRate, vars
<1>5. ASSUME NEW h \in Buyers, NEW total \in OrderTotals, CreateOrder(h, total)
      PROVE  /\ Doing(h, "ordering")
             /\ orders' = Append(orders, [request |-> at[h].request, rate |-> at[h].seen.rate,
                                          totalUsd |-> ToUsd(total, at[h].seen.rate)])
             /\ pr' = [pr EXCEPT ![at[h].request].status = "converted"]
  BY <1>5 DEF CreateOrder
<1> QED BY <1>1, <1>2, <1>3, <1>4, <1>5 DEF Next, Handlers

LEMMA HistoryStep == TypeOK /\ HistoryInv /\ [Next]_vars => HistoryInv'
<1> SUFFICES ASSUME TypeOK, HistoryInv, [Next]_vars PROVE HistoryInv'
  OBVIOUS
<1>1. \A r \in Requests : RowMove(r)
  BY RowStep
<1>2. \A r \in Requests : RowInv(r)'
  BY <1>1, RowKeeps
<1>3. \A h \in Handlers : PlaceInv(h)'
  BY PlaceStep
<1>4. \A k \in 1..Len(orders) :
        /\ orders[k].request \in Requests
        /\ pr'[orders[k].request].status \notin {"absent", "deleted"}
        /\ pr'[orders[k].request].approver # NoOne
  <2> SUFFICES ASSUME NEW k \in 1..Len(orders)
               PROVE  /\ orders[k].request \in Requests
                      /\ pr'[orders[k].request].status \notin {"absent", "deleted"}
                      /\ pr'[orders[k].request].approver # NoOne
    OBVIOUS
  <2>1. orders[k].request \in Requests /\ Referenced(orders[k].request)
    BY OrderTyped DEF Referenced
  <2>2. /\ pr[orders[k].request].status \notin {"absent", "deleted"}
        /\ pr[orders[k].request].approver # NoOne
    BY DEF HistoryInv, OrderHasRequest, OrderWasDecided
  <2>3. RowMove(orders[k].request)
    BY <1>1, <2>1
  <2> QED BY <2>1, <2>2, <2>3, RowKeeps
<1>5. (OrderHasRequest /\ OrderWasDecided)'
  <2>1. CASE orders' = orders
    BY <1>4, <2>1 DEF OrderHasRequest, OrderWasDecided
  <2>2. ASSUME NEW r \in Requests, NEW o, orders' = Append(orders, o), o.request = r,
               pr[r].approver # NoOne, pr' = [pr EXCEPT ![r].status = "converted"]
        PROVE  (OrderHasRequest /\ OrderWasDecided)'
    <3>1. orders \in Seq([request : Requests, rate : Nat \ {0}, totalUsd : Nat])
      BY DEF TypeOK
    <3>2. /\ Len(orders') = Len(orders) + 1
          /\ \A k \in 1..Len(orders) : orders'[k] = orders[k]
          /\ orders'[Len(orders) + 1] = o
      BY <2>2, <3>1
    <3>3. pr'[r].status = "converted" /\ pr'[r].approver # NoOne
      <4>1. pr[r] \in Row /\ pr'[r] = [pr[r] EXCEPT !.status = "converted"]
        BY <2>2 DEF TypeOK
      <4>2. pr'[r].status = "converted" /\ pr'[r].approver = pr[r].approver
        BY <4>1, WithStatus
      <4> QED BY <2>2, <4>2
    <3>4. \A k \in 1..Len(orders') : k \in 1..Len(orders) \/ k = Len(orders) + 1
      BY <3>1, <3>2
    <3> QED BY <1>4, <2>2, <3>2, <3>3, <3>4 DEF OrderHasRequest, OrderWasDecided
  <2>3. ASSUME NEW h \in Buyers, Doing(h, "ordering")
        PROVE  pr[at[h].request].approver # NoOne
    BY <2>3 DEF HistoryInv, PlaceInv, Handlers
  <2> QED BY <2>1, <2>2, <2>3, OrdersStep
<1> QED BY <1>2, <1>3, <1>5 DEF HistoryInv

LEMMA HistorySound == Spec => [](UsdFollowsRate /\ OrderHasRequest /\ OrderWasDecided)
<1>1. HistoryInv => UsdFollowsRate /\ OrderHasRequest /\ OrderWasDecided
  BY DEF HistoryInv, RowInv, UsdFollowsRate
<1> QED BY <1>1, InitType, TypeStep, InitHistory, HistoryStep, PTL DEF Spec

\* RatesService and submit: whatever interleaves, a request's USD total is the one
\* its locked rate gives.
THEOREM TotalsFollowRates == Spec => []UsdFollowsRate
BY HistorySound, PTL

\* createFromRequest and remove: a request that has been ordered is never deleted,
\* although neither locks the row it checked.
THEOREM OrdersKeepRequests == Spec => []OrderHasRequest
BY HistorySound, PTL

\* Whatever was ordered was decided by somebody, even if its request has since been
\* cancelled or decided again.
THEOREM OrdersWereDecided == Spec => []OrderWasDecided
BY HistorySound, PTL

-----------------------------------------------------------------------------
(* While the submissions of a request come one after another.              *)

\* Nobody has decided the request, is deciding it or is ordering from it.
Fresh(r) ==
    /\ pr[r].approver = NoOne
    /\ ~Referenced(r)
    /\ \A h \in Handlers : at[h] # Idle /\ at[h].request = r =>
          at[h].step \notin {"approving", "rejecting", "ordering"}

\* A request is submitted while it is fresh, so whoever decides it or orders
\* from it still sees the amount it has read.
HandlerInv(h) ==
    /\ Doing(h, "submitting") \/ Doing(h, "rated") =>
          /\ h \in Submitters
          /\ pr[at[h].request].status \in {"draft", "cancelled", "deleted"}
          /\ Fresh(at[h].request)
    /\ Doing(h, "approving") =>
          /\ Covers(h, at[h].seen.totalUsd)
          /\ at[h].seen.totalUsd = pr[at[h].request].totalUsd
    /\ Doing(h, "ordering") => at[h].seen.rate = pr[at[h].request].rate

AmountInv ==
    /\ \A r \in Requests : pr[r].status \in {"absent", "draft"} => Fresh(r)
    /\ \A h \in Handlers : HandlerInv(h)
    /\ ApprovedWithinLimit
    /\ OrderAtLockedRate

LEMMA InitAmount == Init => AmountInv
<1> SUFFICES ASSUME Init PROVE AmountInv
  OBVIOUS
<1>1. \A r \in Requests : Fresh(r)
  BY DEF Init, Fresh, Referenced
<1> QED
  BY <1>1 DEF Init, AmountInv, HandlerInv, ApprovedWithinLimit, OrderAtLockedRate, Doing

\* The moves of a handler, told by the step they reach.
LEMMA HandlerCases ==
    ASSUME NEW h, HandlerMove(h)
    PROVE  \/ at'[h] \in {at[h], Idle}
           \/ UNCHANGED pr /\ \E r \in Requests, step \in Steps \ {"creating", "rated"} :
                 at'[h] = [step |-> step, request |-> r, seen |-> pr[r]] /\ Entry(h, step, r)
           \/ UNCHANGED pr /\ at'[h] # Idle /\ at'[h].step = "creating"
           \/ /\ UNCHANGED pr /\ Doing(h, "submitting")
              /\ at'[h] # Idle /\ at'[h].step = "rated" /\ at'[h].request = at[h].request
<1>1. ASSUME NEW r, NEW row, NEW step, at'[h] = [step |-> step, request |-> r, seen |-> row]
      PROVE  at'[h].step = step /\ at'[h].request = r
  BY <1>1
<1>2. at'[h].step # "idle" => at'[h] # Idle
  BY DEF Idle
<1>3. ASSUME NEW r, NEW row, at'[h] = [step |-> "creating", request |-> r, seen |-> row]
      PROVE  at'[h] # Idle /\ at'[h].step = "creating"
  BY <1>1, <1>2, <1>3
<1>4. ASSUME NEW row, at'[h] = [step |-> "rated", request |-> at[h].request, seen |-> row]
      PROVE  at'[h] # Idle /\ at'[h].step = "rated" /\ at'[h].request = at[h].request
  BY <1>1, <1>2, <1>4
<1> QED BY <1>3, <1>4, Zenon DEF HandlerMove

\* Only a pending or an approved request stops being fresh.
LEMMA FreshKept ==
    ASSUME TypeOK, HistoryInv, [Next]_vars, NEW r \in Requests, Fresh(r),
           pr[r].status \notin {"pending", "approved"}
    PROVE  Fresh(r)'
<1>1. pr'[r].approver = NoOne
  <2>1. RowMove(r)
    BY RowStep
  <2>2. ~Decided(r)
    BY DEF Fresh, Decided, Doing, Handlers
  <2> QED BY <2>1, <2>2 DEF RowMove, Created, Submitted, Ended, Converted, Fresh
<1>2. ~Referenced(r)'
  <2>1. CASE orders' = orders
    BY <2>1 DEF Fresh, Referenced
  <2>2. ASSUME NEW h \in Buyers, NEW o, Doing(h, "ordering"), o.request = at[h].request,
               orders' = Append(orders, o)
        PROVE  ~Referenced(r)'
    <3>1. o.request # r
      BY <2>2 DEF Fresh, Doing, Handlers
    <3>2. \A k \in 1..Len(orders) : orders[k].request # r
      BY DEF Fresh, Referenced
    <3>3. \A k \in 1..Len(orders') :
            orders'[k] = o \/ (k \in 1..Len(orders) /\ orders'[k] = orders[k])
      BY <2>2 DEF TypeOK
    <3> QED BY <3>1, <3>2, <3>3 DEF Referenced
  <2> QED BY <2>1, <2>2, OrdersStep
<1>3. ASSUME NEW h \in Handlers, at'[h] # Idle, at'[h].request = r
      PROVE  at'[h].step \notin {"approving", "rejecting", "ordering"}
  <2>1. HandlerMove(h)
    BY HandlerStep
  <2>2. CASE at'[h] \in {at[h], Idle}
    BY <1>3, <2>2 DEF Fresh
  <2>3. ASSUME NEW p \in Requests, NEW step \in Steps, Entry(h, step, p),
               at'[h] = [step |-> step, request |-> p, seen |-> pr[p]]
        PROVE  at'[h].step \notin {"approving", "rejecting", "ordering"}
    <3>1. at'[h].step = step /\ p = r
      BY <1>3, <2>3
    <3> QED BY <2>3, <3>1 DEF Entry
  <2> QED BY <2>1, <2>2, <2>3, HandlerCases
<1> QED BY <1>1, <1>2, <1>3 DEF Fresh

\* The amount of a request that is no longer fresh stands.
LEMMA AmountKept ==
    ASSUME TypeOK, HistoryInv, AmountInv, [Next]_vars, NEW r \in Requests, ~Fresh(r)
    PROVE  SameAmount(r) /\ ~Created(r) /\ ~Submitted(r)
<1>1. RowMove(r)
  BY RowStep
<1>2. ~Created(r)
  BY DEF AmountInv, Created
<1>3. ~Submitted(r)
  BY DEF AmountInv, HandlerInv, Submitted, Handlers
<1> QED BY <1>1, <1>2, <1>3 DEF RowMove, Decided, Ended, Converted, SameAmount

LEMMA HandlerInvStep ==
    ASSUME SubmissionsApart, TypeOK, HistoryInv, AmountInv, [Next]_vars, NEW h \in Handlers
    PROVE  HandlerInv(h)'
<1>1. HandlerMove(h)
  BY HandlerStep
<1>2. HandlerInv(h)
  BY DEF AmountInv
<1>3. CASE at'[h] = Idle
  BY <1>3 DEF HandlerInv, Doing
<1>4. CASE at'[h] = at[h] /\ at[h] # Idle
  <2> PICK r \in Requests : r = at[h].request
    BY <1>4, Carries
  <2>1. RowMove(r)
    BY RowStep
  <2>2. ASSUME Doing(h, "submitting") \/ Doing(h, "rated")
        PROVE  pr'[r].status \in {"draft", "cancelled", "deleted"} /\ Fresh(r)'
    <3>1. /\ h \in Submitters /\ Fresh(r)
          /\ pr[r].status \in {"draft", "cancelled", "deleted"}
      BY <1>2, <2>2 DEF HandlerInv
    <3>2. Fresh(r)'
      BY <2>1, <3>1, FreshKept
    <3>3. ~Submitted(r)
      BY <1>4, <2>2, <3>1 DEF Submitted, SubmissionsApart, Submitting
    <3>4. ~Decided(r) /\ ~Converted(r)
      BY <3>1 DEF Fresh, Decided, Converted, Doing, Handlers
    <3> QED BY <2>1, <3>1, <3>2, <3>3, <3>4 DEF RowMove, Created, Ended
  <2>3. ASSUME Doing(h, "approving") \/ Doing(h, "ordering") PROVE SameAmount(r)
    <3>1. ~Fresh(r)
      BY <2>3 DEF Fresh, Doing
    <3> QED BY <2>1, <3>1, AmountKept
  <2> QED BY <1>2, <1>4, <2>2, <2>3 DEF HandlerInv, Doing, SameAmount
<1>5. ASSUME NEW r \in Requests, NEW step \in Steps \ {"creating", "rated"}, UNCHANGED pr,
             at'[h] = [step |-> step, request |-> r, seen |-> pr[r]], Entry(h, step, r)
      PROVE  HandlerInv(h)'
  <2>1. ASSUME step = "submitting" PROVE Fresh(r)'
    BY <1>5, <2>1, FreshKept DEF Entry, AmountInv
  <2> QED BY <1>5, <2>1 DEF HandlerInv, Entry, Doing
<1>6. ASSUME UNCHANGED pr, at'[h] # Idle, at'[h].step = "creating"
      PROVE  HandlerInv(h)'
  BY <1>6 DEF HandlerInv, Doing
<1>7. ASSUME UNCHANGED pr, Doing(h, "submitting"), at'[h] # Idle, at'[h].step = "rated",
             at'[h].request = at[h].request
      PROVE  HandlerInv(h)'
  <2> PICK r \in Requests : r = at[h].request
    BY <1>7, Carries DEF Doing
  <2>1. h \in Submitters /\ Fresh(r) /\ pr[r].status \in {"draft", "cancelled", "deleted"}
    BY <1>2, <1>7 DEF HandlerInv
  <2>2. Fresh(r)'
    BY <2>1, FreshKept
  <2> QED BY <1>7, <2>1, <2>2 DEF HandlerInv, Doing
<1> QED BY <1>1, <1>3, <1>4, <1>5, <1>6, <1>7, HandlerCases

LEMMA AmountStep ==
    ASSUME SubmissionsApart, TypeOK, HistoryInv, AmountInv, [Next]_vars
    PROVE  AmountInv'
<1>1. ASSUME NEW r \in Requests, pr'[r].status \in {"absent", "draft"}
      PROVE  Fresh(r)'
  <2>1. pr[r].status \in {"absent", "draft"}
    BY <1>1, RowStep DEF RowMove, Created, Submitted, Decided, Ended, Converted
  <2> QED BY <2>1, FreshKept DEF AmountInv
<1>2. \A h \in Handlers : HandlerInv(h)'
  BY HandlerInvStep
<1>3. ApprovedWithinLimit'
  <2> SUFFICES ASSUME NEW r \in Requests, pr'[r].status = "approved"
               PROVE  Covers(pr'[r].approver, pr'[r].totalUsd)
    BY DEF ApprovedWithinLimit, Covers
  <2>1. pr'[r] = pr[r] \/ Decided(r)
    BY RowStep DEF RowMove, Created, Submitted, Ended, Converted
  <2>2. CASE pr'[r] = pr[r]
    BY <2>2 DEF AmountInv, ApprovedWithinLimit
  <2>3. CASE Decided(r)
    <3>1. PICK h \in Deciders : /\ at[h].request = r /\ Doing(h, "approving")
                                /\ pr'[r].approver = h /\ SameAmount(r)
      BY <2>3 DEF Decided
    <3>2. Covers(h, pr[r].totalUsd)
      BY <3>1 DEF AmountInv, HandlerInv, Handlers
    <3> QED BY <3>1, <3>2 DEF SameAmount
  <2> QED BY <2>1, <2>2, <2>3
<1>4. \A k \in 1..Len(orders) : orders[k].rate = pr'[orders[k].request].rate
  <2> SUFFICES ASSUME NEW k \in 1..Len(orders)
               PROVE  orders[k].rate = pr'[orders[k].request].rate
    OBVIOUS
  <2>1. orders[k].request \in Requests
    BY OrderTyped
  <2>2. ~Fresh(orders[k].request)
    BY DEF Fresh, Referenced
  <2> QED BY <2>1, <2>2, AmountKept DEF AmountInv, OrderAtLockedRate, SameAmount
<1>5. OrderAtLockedRate'
  <2>1. CASE orders' = orders
    BY <1>4, <2>1 DEF OrderAtLockedRate
  <2>2. ASSUME NEW h \in Buyers, NEW o, Doing(h, "ordering"), orders' = Append(orders, o),
               o.request = at[h].request, o.rate = at[h].seen.rate
        PROVE  OrderAtLockedRate'
    <3>1. h \in Handlers /\ o.request \in Requests
      BY <2>2, Carries DEF Doing, Handlers
    <3>2. ~Fresh(o.request)
      BY <2>2, <3>1 DEF Fresh, Doing
    <3>3. o.rate = pr'[o.request].rate
      BY <2>2, <3>1, <3>2, AmountKept DEF AmountInv, HandlerInv, SameAmount
    <3>4. \A k \in 1..Len(orders') :
            orders'[k] = o \/ (k \in 1..Len(orders) /\ orders'[k] = orders[k])
      BY <2>2 DEF TypeOK
    <3> QED BY <1>4, <3>3, <3>4 DEF OrderAtLockedRate
  <2> QED BY <2>1, <2>2, OrdersStep
<1> QED BY <1>1, <1>2, <1>3, <1>5 DEF AmountInv

LEMMA AmountSound ==
    Spec /\ []SubmissionsApart => [](ApprovedWithinLimit /\ OrderAtLockedRate)
<1>1. SubmissionsApart /\ TypeOK /\ HistoryInv /\ AmountInv /\ [Next]_vars => AmountInv'
  BY AmountStep
<1>2. AmountInv => ApprovedWithinLimit /\ OrderAtLockedRate
  BY DEF AmountInv
<1> QED
  BY <1>1, <1>2, InitType, TypeStep, InitHistory, HistoryStep, InitAmount, PTL DEF Spec

\* PurchaseRequestsService.decide: in every behaviour where no two submissions of one
\* request overlap, an approved request is within its approver's limit, however the
\* decisions, cancellations, removals, orders and rate changes interleave.
THEOREM ApprovalsWithinLimit ==
    Spec => LimitUnlessResubmitted
BY AmountSound, PTL DEF LimitUnlessResubmitted

\* And PurchaseOrdersService.createFromRequest: an order then carries the rate its
\* request locked when it was submitted.
THEOREM OrdersAtLockedRate ==
    Spec => RateUnlessResubmitted
BY AmountSound, PTL DEF RateUnlessResubmitted

-----------------------------------------------------------------------------
(* While a request is served by one operation at a time.                   *)

\* The statuses the guard of an operation lets through; create's is in its write.
GuardOf(step) ==
    CASE step \in {"submitting", "rated"}    -> {"draft"}
      [] step \in {"approving", "rejecting"} -> {"pending"}
      [] step = "cancelling" -> {"draft", "pending", "approved"}
      [] step = "removing"   -> {"draft", "pending", "cancelled", "rejected"}
      [] step = "ordering"   -> {"approved"}
      [] step = "creating"   -> Statuses

\* Then what an operation has checked is still so when it writes.
StillGuarded == \A h \in Handlers : at[h] # Idle => pr[at[h].request].status \in GuardOf(at[h].step)

LEMMA InitGuarded == Init => StillGuarded
BY DEF Init, StillGuarded

\* A step leaves the requests alone, or is a reorder's draft, or ends an operation and
\* writes its request at most.
LEMMA StepShape ==
    ASSUME TypeOK, [Next]_vars
    PROVE  \/ UNCHANGED <<pr, at>>
           \/ \E r \in Requests : CreateReorderDraft(r)
           \/ \E g \in Handlers :
                 /\ Leave(g) /\ at[g] # Idle
                 /\ \A r \in Requests : r # at[g].request => pr'[r] = pr[r]
           \/ \E g \in Handlers, r \in Requests, step \in Steps : \E seen :
                 /\ UNCHANGED pr /\ at[g] = Idle /\ Goto(g, step, r, seen)
                 /\ pr[r].status \in GuardOf(step) \/ step = "creating"
           \/ \E g \in Handlers : LockRate(g)
<1>1. ASSUME NEW h \in Handlers, NEW r \in Requests,
             \/ ReadForSubmit(h, r) \/ ReadForApproval(h, r) \/ ReadForRejection(h, r)
             \/ ReadForCancel(h, r) \/ ReadForRemove(h, r) \/ ReadForOrder(h, r)
      PROVE  \E step \in Steps : \E seen :
                 /\ UNCHANGED pr /\ at[h] = Idle /\ Goto(h, step, r, seen)
                 /\ pr[r].status \in GuardOf(step)
  BY <1>1 DEF ReadForSubmit, ReadForApproval, ReadForRejection, ReadForCancel, ReadForRemove,
     ReadForOrder, Read, Steps, GuardOf
<1>2. ASSUME NEW h \in Handlers, NEW r \in Requests, NEW s, ReadRateForCreate(h, r, s)
      PROVE  \E seen : UNCHANGED pr /\ at[h] = Idle /\ Goto(h, "creating", r, seen)
  BY <1>2 DEF ReadRateForCreate
<1>3. ASSUME NEW h \in Handlers,
             \/ Create(h) \/ Submit(h) \/ Decide(h) \/ Cancel(h) \/ Remove(h) \/ Abandon(h)
             \/ \E total \in OrderTotals : CreateOrder(h, total)
      PROVE  /\ Leave(h) /\ at[h] # Idle
             /\ \A r \in Requests : r # at[h].request => pr'[r] = pr[r]
  BY <1>3 DEF Create, Submit, Decide, Cancel, Remove, Abandon, CreateOrder, UpdateRow, Doing, TypeOK
<1>4. CASE UNCHANGED vars \/ \E q \in Rates : SetRate(q)
  BY <1>4 DEF vars, SetRate
<1>5. "creating" \in Steps
  BY DEF Steps
<1> QED BY <1>1, <1>2, <1>3, <1>4, <1>5 DEF Next, Handlers

LEMMA GuardedStep ==
    ASSUME TypeOK, OneAtATime, StillGuarded, [Next]_vars
    PROVE  StillGuarded'
<1> SUFFICES ASSUME NEW h \in Handlers, at'[h] # Idle
             PROVE  pr'[at'[h].request].status \in GuardOf(at'[h].step)
  BY DEF StillGuarded
<1>1. CASE UNCHANGED <<pr, at>>
  BY <1>1 DEF StillGuarded
<1>2. ASSUME NEW r \in Requests, CreateReorderDraft(r)
      PROVE  pr'[at'[h].request].status \in GuardOf(at'[h].step)
  <2>1. at' = at /\ at[h].request \in Requests /\ at[h].step \in Steps
    BY <1>2, Carries DEF CreateReorderDraft
  <2>2. CASE at[h].request # r
    BY <1>2, <2>1, <2>2 DEF CreateReorderDraft, StillGuarded, TypeOK
  <2>3. CASE at[h].request = r
    <3>1. pr[r].status = "absent" /\ pr'[r] = [pr[r] EXCEPT !.status = "draft"] /\ pr[r] \in Row
      BY <1>2 DEF CreateReorderDraft, TypeOK
    <3>2. at[h].step = "creating"
      <4>1. "absent" \in GuardOf(at[h].step)
        BY <2>1, <2>3, <3>1 DEF StillGuarded
      <4> QED BY <2>1, <4>1 DEF GuardOf, Steps
    <3>3. pr'[r].status \in Statuses
      BY <3>1, WithStatus DEF Statuses
    <3> QED BY <2>1, <2>3, <3>2, <3>3 DEF GuardOf
  <2> QED BY <2>2, <2>3
<1>3. ASSUME NEW g \in Handlers, Leave(g), at[g] # Idle,
             \A r \in Requests : r # at[g].request => pr'[r] = pr[r]
      PROVE  pr'[at'[h].request].status \in GuardOf(at'[h].step)
  <2>1. g # h /\ at'[h] = at[h]
    BY <1>3 DEF Leave, TypeOK
  <2>2. at[h].request \in Requests /\ at[h].request # at[g].request
    BY <1>3, <2>1, Carries DEF OneAtATime
  <2> QED BY <1>3, <2>1, <2>2 DEF StillGuarded
<1>4. ASSUME NEW g \in Handlers, NEW r \in Requests, NEW step \in Steps, NEW seen,
             UNCHANGED pr, Goto(g, step, r, seen), pr[r].status \in GuardOf(step) \/ step = "creating"
      PROVE  pr'[at'[h].request].status \in GuardOf(at'[h].step)
  <2>1. pr[r].status \in GuardOf(step)
    BY <1>4 DEF GuardOf, TypeOK, Row
  <2>2. at'[h] = IF h = g THEN [step |-> step, request |-> r, seen |-> seen] ELSE at[h]
    BY <1>4 DEF Goto, TypeOK
  <2>3. CASE h = g
    <3>1. at'[h].step = step /\ at'[h].request = r
      BY <2>2, <2>3
    <3> QED BY <1>4, <2>1, <3>1
  <2>4. CASE h # g
    BY <1>4, <2>2, <2>4 DEF StillGuarded
  <2> QED BY <2>3, <2>4
<1>5. ASSUME NEW g \in Handlers, LockRate(g)
      PROVE  pr'[at'[h].request].status \in GuardOf(at'[h].step)
  <2>1. PICK seen : Goto(g, "rated", at[g].request, seen)
    BY <1>5 DEF LockRate
  <2>2. UNCHANGED pr /\ at[g] # Idle /\ at[g].step = "submitting"
    BY <1>5 DEF LockRate, Doing
  <2>3. at'[h] = IF h = g THEN [step |-> "rated", request |-> at[g].request, seen |-> seen] ELSE at[h]
    BY <2>1 DEF Goto, TypeOK
  <2>4. CASE h = g
    <3>1. at'[h].step = "rated" /\ at'[h].request = at[h].request
      BY <2>3, <2>4
    <3>2. pr[at[h].request].status \in GuardOf("submitting")
      BY <2>2, <2>4 DEF StillGuarded
    <3> QED BY <2>2, <3>1, <3>2 DEF GuardOf
  <2>5. CASE h # g
    BY <2>2, <2>3, <2>5 DEF StillGuarded
  <2> QED BY <2>4, <2>5
<1> QED BY <1>1, <1>2, <1>3, <1>4, <1>5, StepShape

-----------------------------------------------------------------------------
(* Then every step is one of the lifecycle's, or none.                     *)

\* Writing one row is one move, and no order.
LEMMA WriteMoves ==
    ASSUME TypeOK, NEW r \in Requests, NEW row, pr' = [pr EXCEPT ![r] = row], orders' = orders,
           NEW from, pr[r].status \in from
    PROVE  /\ Lifecycle!Move(r, from, row.status)
           /\ UNCHANGED [p \in Requests |-> OrdersOf(p)]
<1>1. [p \in Requests |-> pr[p].status]'
         = [[p \in Requests |-> pr[p].status] EXCEPT ![r] = row.status]
  BY DEF TypeOK
<1>2. UNCHANGED [p \in Requests |-> OrdersOf(p)]
  BY DEF OrdersOf
<1> QED BY <1>1, <1>2 DEF Lifecycle!Move

\* UPDATE ... WHERE id of a row that is there.
LEMMA UpdateMoves ==
    ASSUME TypeOK, NEW h \in Handlers, at[h] # Idle, NEW row, UpdateRow(h, row),
           NEW from, pr[at[h].request].status \in from, "deleted" \notin from
    PROVE  /\ Lifecycle!Move(at[h].request, from, row.status)
           /\ UNCHANGED [p \in Requests |-> OrdersOf(p)]
<1>1. PICK r \in Requests : r = at[h].request
  BY Carries
<1>2. pr' = [pr EXCEPT ![r] = row] /\ orders' = orders
  BY <1>1 DEF UpdateRow
<1> QED BY <1>1, <1>2, WriteMoves

\* An order appended is one order more of its request.
LEMMA OrderCounted ==
    ASSUME TypeOK, NEW r \in Requests, NEW o, o.request = r, orders' = Append(orders, o)
    PROVE  [p \in Requests |-> OrdersOf(p)]'
              = [[p \in Requests |-> OrdersOf(p)] EXCEPT ![r] = @ + 1]
<1>1. SUFFICES ASSUME NEW p \in Requests
               PROVE  OrdersOf(p)' = IF p = r THEN OrdersOf(p) + 1 ELSE OrdersOf(p)
  OBVIOUS
<1> DEFINE n == Len(orders)
           old == {k \in 1..n : orders[k].request = p}
           new == {k \in 1..(n + 1) : orders'[k].request = p}
<1>2. /\ n \in Nat /\ Len(orders') = n + 1 /\ orders'[n + 1] = o
      /\ \A k \in 1..n : orders'[k] = orders[k]
  BY DEF TypeOK
<1>3. OrdersOf(p) = Cardinality(old) /\ OrdersOf(p)' = Cardinality(new)
  BY <1>2 DEF OrdersOf
<1>4. IsFiniteSet(old) /\ n + 1 \notin old
  <2>1. IsFiniteSet(1..n)
    BY <1>2, FS_Interval
  <2> QED BY <1>2, <2>1, FS_Subset
<1>5. new = IF p = r THEN old \cup {n + 1} ELSE old
  BY <1>2
<1> HIDE DEF old, new
<1> QED BY <1>3, <1>4, <1>5, FS_AddElement

LEMMA LifecycleStep ==
    ASSUME TypeOK, HistoryInv, StillGuarded, [Next]_vars
    PROVE  [Lifecycle!Next]_(Lifecycle!vars)
<1> DEFINE Still == UNCHANGED <<[p \in Requests |-> pr[p].status], [p \in Requests |-> OrdersOf(p)]>>
<1>0. Still => UNCHANGED Lifecycle!vars
  BY DEF Lifecycle!vars
<1>1. ASSUME UNCHANGED <<pr, orders>> PROVE Still
  BY <1>1 DEF OrdersOf
<1> HIDE DEF Still
<1>2. ASSUME NEW h \in Handlers, Create(h) PROVE Lifecycle!Next
  <2>1. PICK r \in Requests : /\ r = at[h].request
                              /\ at[h].seen.status \in {"draft", "pending"}
    <3>1. at[h] # Idle /\ Doing(h, "creating") /\ at[h].request \in Requests
      BY <1>2, Carries DEF Create, Doing
    <3>2. at[h].seen.status \in {"draft", "pending"}
      BY <3>1 DEF HistoryInv, PlaceInv
    <3> QED BY <3>1, <3>2
  <2>2. PICK row : row = at[h].seen
    OBVIOUS
  <2>3. pr' = [pr EXCEPT ![r] = row] /\ orders' = orders /\ pr[r].status \in {"absent"}
    BY <1>2, <2>1, <2>2 DEF Create, UpdateRow
  <2>4. Lifecycle!Move(r, {"absent"}, row.status) /\ UNCHANGED [p \in Requests |-> OrdersOf(p)]
    BY <2>1, <2>3, WriteMoves
  <2> QED BY <2>1, <2>2, <2>4 DEF Lifecycle!Create, Lifecycle!Next
<1>3. ASSUME NEW h \in Handlers, Submit(h) PROVE Lifecycle!Next
  <2> DEFINE row == [pr[at[h].request] EXCEPT !.status = "pending", !.rate = at[h].seen.rate,
                                              !.totalUsd = at[h].seen.totalUsd]
  <2>1. at[h] # Idle /\ at[h].step = "rated" /\ at[h].request \in Requests
    BY <1>3, Carries DEF Submit, Doing
  <2>2. UpdateRow(h, row)
    BY <1>3 DEF Submit
  <2>3. row.status = "pending"
    BY <2>1 DEF TypeOK, Row
  <2>4. pr[at[h].request].status \in {"draft"}
    BY <2>1 DEF StillGuarded, GuardOf
  <2> HIDE DEF row
  <2>5. /\ Lifecycle!Move(at[h].request, {"draft"}, "pending")
        /\ UNCHANGED [p \in Requests |-> OrdersOf(p)]
    BY <2>1, <2>2, <2>3, <2>4, UpdateMoves
  <2> QED BY <2>1, <2>5 DEF Lifecycle!Submit, Lifecycle!Next
<1>4. ASSUME NEW h \in Handlers, Decide(h) PROVE Lifecycle!Next
  <2>1. PICK d \in {"approved", "rejected"} :
          /\ Doing(h, IF d = "approved" THEN "approving" ELSE "rejecting")
          /\ UpdateRow(h, [pr[at[h].request] EXCEPT !.status = d, !.approver = h])
    BY <1>4 DEF Decide
  <2>2. at[h] # Idle /\ at[h].step \in {"approving", "rejecting"} /\ at[h].request \in Requests
    BY <2>1, Carries DEF Doing
  <2>3. PICK r \in Requests : r = at[h].request
    BY <2>2
  <2> DEFINE row == [pr[r] EXCEPT !.status = d, !.approver = h]
  <2>4. row.status = d
    BY <2>3, WithStatus DEF TypeOK
  <2>5. pr[r].status \in {"pending"}
    BY <2>2, <2>3 DEF StillGuarded, GuardOf
  <2>6. pr' = [pr EXCEPT ![r] = row] /\ orders' = orders
    BY <2>1, <2>3, <2>5 DEF UpdateRow
  <2> HIDE DEF row
  <2>7. Lifecycle!Move(r, {"pending"}, d) /\ UNCHANGED [p \in Requests |-> OrdersOf(p)]
    BY <2>4, <2>5, <2>6, WriteMoves
  <2> QED BY <2>7 DEF Lifecycle!Decide, Lifecycle!Next
<1>5. ASSUME NEW h \in Handlers, NEW s, NEW from, at[h] # Idle, "deleted" \notin from,
             pr[at[h].request].status \in from,
             UpdateRow(h, [pr[at[h].request] EXCEPT !.status = s])
      PROVE  /\ at[h].request \in Requests
             /\ Lifecycle!Move(at[h].request, from, s)
             /\ UNCHANGED [p \in Requests |-> OrdersOf(p)]
  <2>1. at[h].request \in Requests /\ pr[at[h].request] \in Row
    BY <1>5, Carries DEF TypeOK
  <2>2. PICK row : row = [pr[at[h].request] EXCEPT !.status = s]
    OBVIOUS
  <2>3. row.status = s
    BY <2>1, <2>2, WithStatus
  <2> QED BY <1>5, <2>1, <2>2, <2>3, UpdateMoves
<1>6. ASSUME NEW h \in Handlers, Cancel(h) PROVE Lifecycle!Next
  <2>1. at[h] # Idle /\ at[h].step = "cancelling"
    BY <1>6 DEF Cancel, Doing
  <2>2. pr[at[h].request].status \in {"draft", "pending", "approved"}
    BY <2>1 DEF StillGuarded, GuardOf
  <2> QED BY <1>5, <1>6, <2>1, <2>2 DEF Cancel, Lifecycle!Cancel, Lifecycle!Next
<1>7. ASSUME NEW h \in Handlers, Remove(h) PROVE Lifecycle!Next \/ Still
  <2>1. at[h] # Idle /\ at[h].step = "removing"
    BY <1>7 DEF Remove, Doing
  <2>2. pr[at[h].request].status \in {"draft", "pending", "cancelled", "rejected"}
    BY <2>1 DEF StillGuarded, GuardOf
  <2>3. CASE UpdateRow(h, [pr[at[h].request] EXCEPT !.status = "deleted"])
    BY <1>5, <2>1, <2>2, <2>3 DEF Lifecycle!Remove, Lifecycle!Next
  <2>4. CASE UNCHANGED <<pr, orders>>
    BY <1>1, <2>4
  <2> QED BY <1>7, <2>3, <2>4 DEF Remove
<1>8. ASSUME NEW h \in Handlers, NEW total \in OrderTotals, CreateOrder(h, total) PROVE Lifecycle!Next
  <2>1. at[h] # Idle /\ at[h].step = "ordering"
    BY <1>8 DEF CreateOrder, Doing
  <2>2. PICK r \in Requests : r = at[h].request
    BY <2>1, Carries
  <2>3. pr[r].status \in {"approved"}
    BY <2>1, <2>2 DEF StillGuarded, GuardOf
  <2>4. PICK o : o.request = r /\ orders' = Append(orders, o)
    BY <1>8, <2>2 DEF CreateOrder
  <2>5. [p \in Requests |-> pr[p].status]'
           = [[p \in Requests |-> pr[p].status] EXCEPT ![r] = "converted"]
    BY <1>8, <2>2 DEF CreateOrder, TypeOK, Row
  <2>6. Lifecycle!Move(r, {"approved"}, "converted")
    BY <2>3, <2>5 DEF Lifecycle!Move
  <2>7. Lifecycle!Convert(r)
    BY <2>4, <2>6, OrderCounted DEF Lifecycle!Convert
  <2> QED BY <2>7 DEF Lifecycle!Next
<1>9. ASSUME NEW r \in Requests, CreateReorderDraft(r) PROVE Lifecycle!Next
  <2>1. PICK row : row = [pr[r] EXCEPT !.status = "draft"]
    OBVIOUS
  <2>2. row.status = "draft" /\ pr[r].status \in {"absent"}
    BY <1>9, <2>1, WithStatus DEF CreateReorderDraft, TypeOK
  <2>3. pr' = [pr EXCEPT ![r] = row] /\ orders' = orders
    BY <1>9, <2>1 DEF CreateReorderDraft
  <2>4. Lifecycle!Move(r, {"absent"}, "draft") /\ UNCHANGED [p \in Requests |-> OrdersOf(p)]
    BY <2>2, <2>3, WriteMoves
  <2> QED BY <2>4 DEF Lifecycle!Create, Lifecycle!Next
<1>10. ASSUME \/ UNCHANGED vars
              \/ \E q \in Rates : SetRate(q)
              \/ \E h \in Handlers :
                   \/ LockRate(h) \/ Abandon(h)
                   \/ \E r \in Requests :
                      \/ ReadForSubmit(h, r) \/ ReadForApproval(h, r) \/ ReadForRejection(h, r)
                      \/ ReadForCancel(h, r) \/ ReadForRemove(h, r) \/ ReadForOrder(h, r)
                      \/ \E s \in {"draft", "pending"} : ReadRateForCreate(h, r, s)
       PROVE  UNCHANGED <<pr, orders>>
  BY <1>10 DEF vars, SetRate, LockRate, Abandon, ReadForSubmit, ReadForApproval, ReadForRejection,
     ReadForCancel, ReadForRemove, ReadForOrder, ReadRateForCreate, Read
<1> QED BY <1>0, <1>1, <1>2, <1>3, <1>4, <1>6, <1>7, <1>8, <1>9, <1>10 DEF Next, Handlers

\* The status guards of PurchaseRequestsService and createFromRequest: requests that are
\* each served by one operation at a time, any number of them side by side, follow the
\* lifecycle - one submission, one decision, one order - although no operation locks the
\* row it has checked.
THEOREM ServedInTurn ==
    Spec /\ []OneAtATime => FollowsLifecycle
<1>1. Init => Lifecycle!Init
  <2> SUFFICES ASSUME Init, NEW r \in Requests PROVE pr[r].status = "absent" /\ OrdersOf(r) = 0
    BY DEF Lifecycle!Init
  <2>1. pr[r].status = "absent" /\ {k \in 1..Len(orders) : orders[k].request = r} = {}
    BY DEF Init
  <2> QED BY <2>1, FS_EmptySet DEF OrdersOf
<1>2. TypeOK /\ OneAtATime /\ StillGuarded /\ [Next]_vars => StillGuarded'
  BY GuardedStep
<1>3. TypeOK /\ HistoryInv /\ StillGuarded /\ [Next]_vars => [Lifecycle!Next]_(Lifecycle!vars)
  BY LifecycleStep
<1> QED
  BY <1>1, <1>2, <1>3, InitType, TypeStep, InitHistory, HistoryStep, InitGuarded, PTL
  DEF Spec, FollowsLifecycle, Lifecycle!Spec

\* "only an approved request can become an order": true of them too.
THEOREM OrdersFromApproved ==
    Spec /\ []OneAtATime => OrderFromApproved
<1>1. ASSUME TypeOK, HistoryInv, StillGuarded, [Next]_vars, Len(orders') > Len(orders)
      PROVE  pr[orders'[Len(orders')].request].status = "approved"
  <2>1. PICK h \in Buyers : \E o :
          /\ Doing(h, "ordering") /\ orders' = Append(orders, o) /\ o.request = at[h].request
    <3>1. orders' # orders
      BY <1>1 DEF TypeOK
    <3>2. PICK h \in Buyers, total \in OrderTotals :
            /\ Doing(h, "ordering")
            /\ orders' = Append(orders, [request |-> at[h].request, rate |-> at[h].seen.rate,
                                         totalUsd |-> ToUsd(total, at[h].seen.rate)])
      BY <1>1, <3>1, OrdersStep
    <3> DEFINE o == [request |-> at[h].request, rate |-> at[h].seen.rate,
                     totalUsd |-> ToUsd(total, at[h].seen.rate)]
    <3>3. o.request = at[h].request
      OBVIOUS
    <3> QED BY <3>2, <3>3
  <2>2. orders'[Len(orders')].request = at[h].request
    BY <2>1 DEF TypeOK
  <2>3. at[h] # Idle /\ at[h].step = "ordering" /\ h \in Handlers
    BY <2>1 DEF Doing, Handlers
  <2>4. pr[at[h].request].status \in {"approved"}
    BY <1>1, <2>3 DEF StillGuarded, GuardOf
  <2> QED BY <2>2, <2>4
<1>2. TypeOK /\ OneAtATime /\ StillGuarded /\ [Next]_vars => StillGuarded'
  BY GuardedStep
<1>3. TypeOK /\ HistoryInv /\ StillGuarded /\ [Next]_vars
        => [Len(orders') > Len(orders)
              => pr[orders'[Len(orders')].request].status = "approved"]_vars
  BY <1>1
<1> QED
  BY <1>2, <1>3, InitType, TypeStep, InitHistory, HistoryStep, InitGuarded, PTL
  DEF Spec, OrderFromApproved

\* The lifecycle has no way out of converted.
LEMMA ConvertedStep ==
    ASSUME TypeOK, HistoryInv, StillGuarded, [Next]_vars, OrderedIsConverted
    PROVE  OrderedIsConverted'
<1>1. ASSUME NEW r \in Requests, pr[r].status = "converted" PROVE pr'[r].status = "converted"
  <2>1. [Lifecycle!Next]_(Lifecycle!vars)
    BY LifecycleStep
  <2>2. CASE UNCHANGED Lifecycle!vars
    <3>1. [p \in Requests |-> pr'[p].status] = [p \in Requests |-> pr[p].status]
      BY <2>2 DEF Lifecycle!vars
    <3>2. [p \in Requests |-> pr'[p].status][r] = pr'[r].status
      OBVIOUS
    <3> QED BY <1>1, <3>1, <3>2
  <2>3. ASSUME NEW q \in Requests, NEW from, NEW to, "converted" \notin from,
               Lifecycle!Move(q, from, to)
        PROVE  pr'[r].status = "converted"
    <3>1. /\ pr[q].status \in from
          /\ [p \in Requests |-> pr'[p].status] =
                [[p \in Requests |-> pr[p].status] EXCEPT ![q] = to]
      BY <2>3 DEF Lifecycle!Move
    <3>2. [p \in Requests |-> pr'[p].status][r] = pr[r].status
      BY <1>1, <2>3, <3>1
    <3> QED BY <1>1, <3>2
  <2>4. CASE Lifecycle!Next
    <3>1. PICK q \in Requests : \E from, to : "converted" \notin from /\ Lifecycle!Move(q, from, to)
      BY <2>4 DEF Lifecycle!Next, Lifecycle!Create, Lifecycle!Submit, Lifecycle!Decide,
                  Lifecycle!Cancel, Lifecycle!Remove, Lifecycle!Convert
    <3> QED BY <2>3, <3>1
  <2> QED BY <2>1, <2>2, <2>4
<1>2. \A k \in 1..Len(orders) : orders[k].request \in Requests
  BY OrderTyped
<1>3. CASE orders' = orders
  BY <1>1, <1>2, <1>3 DEF OrderedIsConverted
<1>4. ASSUME NEW h \in Buyers, NEW r, r = at[h].request, r \in Requests, NEW o, o.request = r,
             orders' = Append(orders, o), pr' = [pr EXCEPT ![r].status = "converted"]
      PROVE  OrderedIsConverted'
  <2>1. pr'[r].status = "converted"
    <3>1. pr[r] \in Row /\ pr' = [pr EXCEPT ![r] = [pr[r] EXCEPT !.status = "converted"]]
      BY <1>4 DEF TypeOK
    <3>2. [pr[r] EXCEPT !.status = "converted"].status = "converted"
      BY <3>1, WithStatus
    <3> QED BY <1>4, <3>1, <3>2 DEF TypeOK
  <2>2. orders \in Seq([request : Requests, rate : Nat \ {0}, totalUsd : Nat])
    BY DEF TypeOK
  <2>3. /\ Len(orders') = Len(orders) + 1
        /\ \A k \in 1..Len(orders) : orders'[k] = orders[k]
        /\ orders'[Len(orders) + 1] = o
    BY <1>4, <2>2
  <2>4. \A k \in 1..Len(orders') : k \in 1..Len(orders) \/ k = Len(orders) + 1
    BY <2>2, <2>3
  <2> QED BY <1>1, <1>2, <1>4, <2>1, <2>3, <2>4 DEF OrderedIsConverted
<1>5. \/ orders' = orders
      \/ \E h \in Buyers : \E o :
            /\ at[h].request \in Requests /\ o.request = at[h].request
            /\ orders' = Append(orders, o)
            /\ pr' = [pr EXCEPT ![at[h].request].status = "converted"]
  <2>1. \A r, q, usd : [request |-> r, rate |-> q, totalUsd |-> usd].request = r
    OBVIOUS
  <2> QED BY <2>1, OrdersStep
<1> QED BY <1>3, <1>4, <1>5

\* cancel, decide and remove write by id whatever they read; while a request is served by
\* one operation at a time, none of them touches one that has an order.
THEOREM OrderedStaysConverted == Spec => ConvertedUnlessOverlapped
<1>1. Init => OrderedIsConverted
  BY DEF Init, OrderedIsConverted
<1>2. TypeOK /\ OneAtATime /\ StillGuarded /\ [Next]_vars => StillGuarded'
  BY GuardedStep
<1>3. TypeOK /\ HistoryInv /\ StillGuarded /\ [Next]_vars /\ OrderedIsConverted
        => OrderedIsConverted'
  BY ConvertedStep
<1> QED
  BY <1>1, <1>2, <1>3, InitType, TypeStep, InitHistory, HistoryStep, InitGuarded, PTL
  DEF Spec, ConvertedUnlessOverlapped

=============================================================================
