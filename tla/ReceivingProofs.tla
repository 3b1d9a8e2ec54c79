-------------------------- MODULE ReceivingProofs --------------------------
(* Goods receipts, for any number of handlers, claims, lines and orders. *)
EXTENDS Receiving, StockLedgerProofs, ArithmeticProofs

InConfirm == {"claim", "line", "order", "item"}

\* What a handler has read under its locks is still so in the committed rows.
Own(h) ==
    /\ moving[h] # NoMovement =>
          /\ At(h, {"item"})
          /\ moving[h].ref = rx[h].claim
          /\ moving[h].item = ItemOf[rx[h].claim]
          /\ moving[h].delta = ClaimQty[rx[h].claim]
    /\ At(h, InConfirm) => claimStatus[rx[h].claim] = "pending"
    /\ At(h, {"rejecting"}) => claimStatus[rx[h].claim] # "absent"
    /\ At(h, {"line", "order", "item"}) =>
          /\ rx[h].qty = qtyClaimed[LineOf[rx[h].claim]] + ClaimQty[rx[h].claim]
          /\ Atomic!WithinTolerance(LineOf[rx[h].claim], rx[h].qty)
    /\ At(h, {"item"}) =>
          rx[h].po = Atomic!RolledUp(OrderOf[LineOf[rx[h].claim]], SeenBy(h))

\* Two confirmations hold different claims, different lines, different orders.
Apart(g, h) ==
    /\ At(g, InConfirm) /\ At(h, InConfirm) => rx[g].claim # rx[h].claim
    /\ At(g, {"line", "order", "item"}) /\ At(h, {"line", "order", "item"}) =>
          LineOf[rx[g].claim] # LineOf[rx[h].claim]
    /\ At(g, {"order", "item"}) /\ At(h, {"order", "item"}) =>
          OrderOf[LineOf[rx[g].claim]] # OrderOf[LineOf[rx[h].claim]]

LockInv ==
    /\ \A h \in Handlers : Own(h)
    /\ \A g, h \in Handlers : g # h => Apart(g, h)

-----------------------------------------------------------------------------

LEMMA InitInv == Init => TypeOK /\ LedgerInv /\ LockInv
<1> SUFFICES ASSUME Init PROVE TypeOK /\ LedgerInv /\ LockInv
  OBVIOUS
<1>1. LedgerInv
  BY LedgerInitInv DEF Init
<1>2. TypeOK
  BY <1>1 DEF Init, TypeOK, LedgerInv, ClaimStatuses, OrderStatuses, Idle
<1>3. LockInv
  BY DEF Init, LedgerInit, LockInv, Own, Apart, InConfirm, At, Idle
<1> QED BY <1>1, <1>2, <1>3

\* Where a handler stands says which fields it carries.
LEMMA Carries ==
  ASSUME TypeOK, NEW h \in Handlers
  PROVE  /\ At(h, {"claim", "line", "order", "item", "rejecting"}) => rx[h].claim \in Claims
         /\ At(h, {"line", "order", "item"}) => rx[h].qty \in Nat
         /\ At(h, {"item"}) => rx[h].po \in OrderStatuses
         /\ At(h, {"cancelling"}) => rx[h].order \in Orders
BY DEF TypeOK, At, Idle

\* Every step moves stock the way the ledger allows or not at all.
LEMMA LedgerSimulation == TypeOK /\ [Next]_vars => [LedgerNext]_ledgerVars
<1> SUFFICES ASSUME TypeOK, [Next]_vars PROVE [LedgerNext]_ledgerVars
  OBVIOUS
<1>1. ASSUME NEW h \in Handlers, MoveStock(h) PROVE LedgerNext
  <2>1. PICK c \in Claims : c = rx[h].claim
    BY <1>1, Carries DEF MoveStock, At
  <2>2. ItemOf[c] \in Items /\ ClaimQty[c] \in Deltas /\ c \in Refs
    BY ReceivingAssumption
  <2> QED BY <1>1, <2>1, <2>2 DEF MoveStock, LedgerNext
<1>2. ASSUME NEW h \in Handlers, Confirm(h) PROVE LedgerNext
  BY <1>2 DEF Confirm, LedgerNext
<1>3. ASSUME NEW h \in Handlers, Abandon(h) PROVE LedgerNext \/ UNCHANGED ledgerVars
  <2>1. CASE moving[h] = NoMovement
    BY <1>3, <2>1 DEF Abandon, ledgerVars, TypeOK, LedgerTypeOK
  <2>2. CASE moving[h] # NoMovement
    BY <1>3, <2>2 DEF Abandon, LedgerNext, RollbackMovement
  <2> QED BY <2>1, <2>2
<1>4. CASE \/ \E c \in Claims : File(c)
           \/ \E h \in Handlers : \E c \in Claims : LockClaim(h, c) \/ ReadForRejection(h, c)
           \/ \E h \in Handlers : \E o \in Orders : ReadForCancel(h, o)
           \/ \E h \in Handlers : \/ LockLine(h) \/ RefuseOverReceipt(h) \/ LockOrder(h)
                                  \/ RollUp(h) \/ Reject(h) \/ Cancel(h)
           \/ UNCHANGED vars
  BY <1>4 DEF File, LockClaim, ReadForRejection, ReadForCancel, LockLine, RefuseOverReceipt,
              LockOrder, RollUp, Reject, Cancel, vars
<1> QED BY <1>1, <1>2, <1>3, <1>4, ReceivingAssumption DEF Next, Continue

LEMMA TypeStep == TypeOK /\ LedgerTypeOK' /\ [Next]_vars => TypeOK'
<1> SUFFICES ASSUME TypeOK, LedgerTypeOK', [Next]_vars PROVE TypeOK'
  OBVIOUS
<1> USE DEF TypeOK, ClaimStatuses, OrderStatuses
<1>1. ASSUME NEW c \in Claims, File(c) PROVE TypeOK'
  BY <1>1 DEF File
<1>2. ASSUME NEW h \in Handlers, NEW c \in Claims, LockClaim(h, c) \/ ReadForRejection(h, c)
      PROVE  TypeOK'
  BY <1>2 DEF LockClaim, ReadForRejection
<1>3. ASSUME NEW h \in Handlers, NEW o \in Orders, ReadForCancel(h, o) PROVE TypeOK'
  BY <1>3 DEF ReadForCancel
<1>4. ASSUME NEW h \in Handlers, LockLine(h) PROVE TypeOK'
  <2> DEFINE c == rx[h].claim
             qty == qtyClaimed[LineOf[c]] + ClaimQty[c]
             place == [step |-> "line", claim |-> c, qty |-> qty]
  <2>1. /\ c \in Claims /\ rx' = [rx EXCEPT ![h] = place]
        /\ UNCHANGED <<ledgerVars, claimStatus, qtyClaimed, poStatus>>
    BY <1>4, Carries DEF LockLine, At
  <2>2. LineOf[c] \in Lines /\ ClaimQty[c] \in Nat
    BY <2>1, ReceivingAssumption
  <2>3. qty \in Nat
    BY <2>2
  <2>4. place \in [step : {"line", "order"}, claim : Claims, qty : Nat]
    BY <2>1, <2>3
  <2> QED BY <2>1, <2>4
<1>5. ASSUME NEW h \in Handlers, RefuseOverReceipt(h) \/ Abandon(h) PROVE TypeOK'
  BY <1>5 DEF RefuseOverReceipt, Abandon, Leave
<1>6. ASSUME NEW h \in Handlers, LockOrder(h) PROVE TypeOK'
  BY <1>6, Carries DEF LockOrder, At
<1>7. ASSUME NEW h \in Handlers, RollUp(h) PROVE TypeOK'
  BY <1>7, Carries, ReceivingAssumption DEF RollUp, At, Atomic!RolledUp
<1>8. ASSUME NEW h \in Handlers, MoveStock(h) PROVE TypeOK'
  BY <1>8 DEF MoveStock
<1>9. ASSUME NEW h \in Handlers, Confirm(h) PROVE TypeOK'
  BY <1>9, Carries, ReceivingAssumption DEF Confirm, Leave, At
<1>10. ASSUME NEW h \in Handlers, Reject(h) \/ Cancel(h) PROVE TypeOK'
  BY <1>10, Carries DEF Reject, Cancel, Leave, At
<1>11. CASE UNCHANGED vars
  BY <1>11 DEF vars, ledgerVars
<1> QED BY <1>1, <1>2, <1>3, <1>4, <1>5, <1>6, <1>7, <1>8, <1>9, <1>10, <1>11,
           ReceivingAssumption DEF Next, Continue

-----------------------------------------------------------------------------
(* The locks: what a confirmation has read stays true until its commit. *)

committed == <<claimStatus, qtyClaimed, poStatus>>

LEMMA OwnUntouched ==
  ASSUME NEW g, rx'[g] = rx[g], moving'[g] = moving[g], UNCHANGED committed, Own(g)
  PROVE  Own(g)'
BY DEF Own, At, SeenBy, Atomic!RolledUp, Atomic!NothingOutstanding, Atomic!WithinTolerance, committed

\* A step of one handler that commits nothing has to answer for that handler only.
LEMMA LocalStep ==
  ASSUME LockInv, NEW h \in Handlers, UNCHANGED committed,
         \A g \in Handlers \ {h} : rx'[g] = rx[g] /\ moving'[g] = moving[g],
         Own(h)',
         \A g \in Handlers \ {h} : Apart(g, h)' /\ Apart(h, g)'
  PROVE  LockInv'
<1>1. ASSUME NEW g \in Handlers PROVE Own(g)'
  BY OwnUntouched DEF LockInv
<1>2. ASSUME NEW f \in Handlers, NEW g \in Handlers, f # g PROVE Apart(f, g)'
  <2>1. CASE f # h /\ g # h
    BY <1>2, <2>1 DEF LockInv, Apart, At
  <2> QED BY <1>2, <2>1
<1> QED BY <1>1, <1>2 DEF LockInv

LEMMA LockStep == TypeOK /\ LockInv /\ [Next]_vars => LockInv'
<1> SUFFICES ASSUME TypeOK, LockInv, [Next]_vars PROVE LockInv'
  OBVIOUS
<1> USE DEF committed, InConfirm
<1>1. ASSUME NEW c \in Claims, File(c) PROVE LockInv'
  <2>1. ASSUME NEW g \in Handlers PROVE Own(g)'
    BY <1>1, <2>1, Carries DEF LockInv, Own, File, At, SeenBy, Atomic!RolledUp,
       Atomic!NothingOutstanding, Atomic!WithinTolerance, ledgerVars, TypeOK
  <2>2. \A f, g \in Handlers : f # g => Apart(f, g)'
    BY <1>1 DEF LockInv, Apart, At, File
  <2> QED BY <2>1, <2>2 DEF LockInv
<1>2. ASSUME NEW h \in Handlers, NEW c \in Claims, LockClaim(h, c) PROVE LockInv'
  <2>1. /\ rx' = [rx EXCEPT ![h] = [step |-> "claim", claim |-> c]] /\ rx[h] = Idle
        /\ UNCHANGED <<ledgerVars, committed>> /\ claimStatus[c] = "pending" /\ ~ClaimLocked(c)
    BY <1>2 DEF LockClaim
  <2>2. rx'[h] = [step |-> "claim", claim |-> c] /\ \A g \in Handlers \ {h} : rx'[g] = rx[g]
    BY <2>1 DEF TypeOK
  <2>3. moving[h] = NoMovement
    BY <2>1 DEF LockInv, Own, At, Idle
  <2>4. Own(h)'
    BY <2>1, <2>2, <2>3 DEF Own, At, ledgerVars
  <2>5. \A g \in Handlers \ {h} : Apart(g, h)'
    BY <2>1, <2>2 DEF Apart, At, ClaimLocked
  <2> QED BY <2>1, <2>2, <2>4, <2>5, LocalStep DEF Apart, At, ledgerVars
<1>3. ASSUME NEW h \in Handlers,
             (\E c \in Claims : ReadForRejection(h, c)) \/ (\E o \in Orders : ReadForCancel(h, o))
      PROVE  LockInv'
  <2>1. /\ rx[h] = Idle /\ UNCHANGED <<ledgerVars, committed>>
        /\ rx'[h].step \in {"rejecting", "cancelling"}
        /\ \A g \in Handlers \ {h} : rx'[g] = rx[g]
    BY <1>3 DEF ReadForRejection, ReadForCancel, TypeOK
  <2>2. rx'[h].step = "rejecting" => claimStatus[rx'[h].claim] # "absent"
    BY <1>3 DEF ReadForRejection, ReadForCancel, TypeOK
  <2>3. Own(h)' /\ \A g \in Handlers \ {h} : Apart(g, h)' /\ Apart(h, g)'
    BY <2>1, <2>2 DEF LockInv, Own, Apart, At, Idle, ledgerVars
  <2> QED BY <2>1, <2>3, LocalStep DEF ledgerVars
<1>4. ASSUME NEW h \in Handlers, LockLine(h) PROVE LockInv'
  <2>1. PICK c \in Claims : c = rx[h].claim
    BY <1>4, Carries DEF LockLine, At
  <2>2. PICK l \in Lines : l = LineOf[c]
    BY ReceivingAssumption
  <2>3. /\ rx[h].step = "claim" /\ ~LineLocked(l) /\ UNCHANGED <<ledgerVars, committed>>
        /\ Atomic!WithinTolerance(l, qtyClaimed[l] + ClaimQty[c])
        /\ rx'[h] = [step |-> "line", claim |-> c, qty |-> qtyClaimed[l] + ClaimQty[c]]
        /\ \A g \in Handlers \ {h} : rx'[g] = rx[g]
    BY <1>4, <2>1, <2>2 DEF LockLine, At, TypeOK
  <2>4. moving[h] = NoMovement /\ claimStatus[c] = "pending"
    BY <2>1, <2>3 DEF LockInv, Own, At
  <2>5. Own(h)'
    BY <2>2, <2>3, <2>4 DEF Own, At, ledgerVars, Atomic!WithinTolerance
  <2>6. \A g \in Handlers \ {h} : Apart(g, h)' /\ Apart(h, g)'
    BY <2>1, <2>2, <2>3 DEF LockInv, Apart, At, LineLocked
  <2> QED BY <2>3, <2>5, <2>6, LocalStep DEF ledgerVars
<1>5. ASSUME NEW h \in Handlers, RefuseOverReceipt(h) \/ Abandon(h) PROVE LockInv'
  <2>1. /\ UNCHANGED committed /\ rx'[h] = Idle
        /\ \A g \in Handlers \ {h} : rx'[g] = rx[g] /\ moving'[g] = moving[g]
    BY <1>5 DEF RefuseOverReceipt, Abandon, Leave, ledgerVars, TypeOK, LedgerTypeOK
  <2>2. moving'[h] = NoMovement
    BY <1>5 DEF RefuseOverReceipt, Abandon, ledgerVars, TypeOK, LedgerTypeOK, LockInv, Own, At
  <2>3. Own(h)' /\ \A g \in Handlers \ {h} : Apart(g, h)' /\ Apart(h, g)'
    BY <2>1, <2>2 DEF Own, Apart, At, Idle
  <2> QED BY <2>1, <2>3, LocalStep
<1>6. ASSUME NEW h \in Handlers, LockOrder(h) PROVE LockInv'
  <2>1. PICK c \in Claims, n \in Nat : c = rx[h].claim /\ n = rx[h].qty
    BY <1>6, Carries DEF LockOrder, At
  <2>2. /\ rx[h].step = "line" /\ ~OrderLocked(OrderOf[LineOf[c]]) /\ UNCHANGED <<ledgerVars, committed>>
        /\ rx'[h] = [step |-> "order", claim |-> c, qty |-> n]
        /\ \A g \in Handlers \ {h} : rx'[g] = rx[g]
    BY <1>6, <2>1 DEF LockOrder, At, TypeOK
  <2>3. /\ moving[h] = NoMovement /\ claimStatus[c] = "pending"
        /\ n = qtyClaimed[LineOf[c]] + ClaimQty[c] /\ Atomic!WithinTolerance(LineOf[c], n)
    BY <2>1, <2>2 DEF LockInv, Own, At
  <2>4. Own(h)'
    BY <2>2, <2>3 DEF Own, At, ledgerVars, Atomic!WithinTolerance
  <2>5. \A g \in Handlers \ {h} : Apart(g, h)' /\ Apart(h, g)'
    BY <2>1, <2>2 DEF LockInv, Apart, At, OrderLocked
  <2> QED BY <2>2, <2>4, <2>5, LocalStep DEF ledgerVars
<1>7. ASSUME NEW h \in Handlers, RollUp(h) PROVE LockInv'
  <2>1. PICK c \in Claims, n \in Nat : c = rx[h].claim /\ n = rx[h].qty
    BY <1>7, Carries DEF RollUp, At
  <2>2. /\ rx[h].step = "order" /\ UNCHANGED <<ledgerVars, committed>>
        /\ rx'[h] = [step |-> "item", claim |-> c, qty |-> n,
                     po |-> Atomic!RolledUp(OrderOf[LineOf[c]], SeenBy(h))]
        /\ \A g \in Handlers \ {h} : rx'[g] = rx[g]
    BY <1>7, <2>1 DEF RollUp, At, TypeOK
  <2>3. /\ moving[h] = NoMovement /\ claimStatus[c] = "pending"
        /\ n = qtyClaimed[LineOf[c]] + ClaimQty[c] /\ Atomic!WithinTolerance(LineOf[c], n)
    BY <2>1, <2>2 DEF LockInv, Own, At
  <2>4. SeenBy(h)' = SeenBy(h)
    BY <2>1, <2>2 DEF SeenBy
  <2>5. Own(h)'
    BY <2>2, <2>3, <2>4 DEF Own, At, ledgerVars, Atomic!WithinTolerance, Atomic!RolledUp,
       Atomic!NothingOutstanding
  <2>6. \A g \in Handlers \ {h} : Apart(g, h)' /\ Apart(h, g)'
    BY <2>1, <2>2 DEF LockInv, Apart, At
  <2> QED BY <2>2, <2>5, <2>6, LocalStep DEF ledgerVars
<1>8. ASSUME NEW h \in Handlers, MoveStock(h) PROVE LockInv'
  <2>1. /\ rx[h].step = "item" /\ rx' = rx /\ UNCHANGED committed
        /\ moving'[h].ref = rx[h].claim /\ moving'[h].item = ItemOf[rx[h].claim]
        /\ moving'[h].delta = ClaimQty[rx[h].claim]
        /\ \A g \in Handlers \ {h} : moving'[g] = moving[g]
    BY <1>8 DEF MoveStock, BeginMovement, At, TypeOK, LedgerTypeOK
  <2>2. Own(h)'
    BY <2>1 DEF LockInv, Own, At, SeenBy, Atomic!WithinTolerance, Atomic!RolledUp,
       Atomic!NothingOutstanding
  <2>3. \A g \in Handlers \ {h} : Apart(g, h)' /\ Apart(h, g)'
    BY <2>1 DEF LockInv, Apart, At
  <2> QED BY <2>1, <2>2, <2>3, LocalStep
<1>9. ASSUME NEW h \in Handlers, Confirm(h) PROVE LockInv'
  <2>1. PICK c \in Claims, n \in Nat, new \in OrderStatuses :
          c = rx[h].claim /\ n = rx[h].qty /\ new = rx[h].po
    BY <1>9, Carries DEF Confirm, At
  <2>2. PICK l \in Lines, o \in Orders : l = LineOf[c] /\ o = OrderOf[l]
    BY ReceivingAssumption
  <2>3. /\ rx[h].step = "item" /\ rx'[h] = Idle /\ moving'[h] = NoMovement
        /\ \A g \in Handlers \ {h} : rx'[g] = rx[g] /\ moving'[g] = moving[g]
        /\ \A d \in Claims \ {c} : claimStatus'[d] = claimStatus[d]
        /\ qtyClaimed' \in [Lines -> Nat] /\ \A k \in Lines \ {l} : qtyClaimed'[k] = qtyClaimed[k]
        /\ \A p \in Orders \ {o} : poStatus'[p] = poStatus[p]
    BY <1>9, <2>1, <2>2 DEF Confirm, CommitMovement, Leave, At, TypeOK, LedgerTypeOK
  <2>4. ASSUME NEW g \in Handlers \ {h} PROVE Own(g)'
    <3>1. Own(g) /\ Apart(g, h)
      BY DEF LockInv
    <3>2. At(g, InConfirm) => rx[g].claim \in Claims /\ LineOf[rx[g].claim] \in Lines
                              /\ OrderOf[LineOf[rx[g].claim]] \in Orders
      BY Carries, ReceivingAssumption DEF At
    <3>3. At(g, InConfirm) => claimStatus'[rx[g].claim] = claimStatus[rx[g].claim]
      BY <2>1, <2>3, <3>1, <3>2 DEF Apart, At
    <3>4. At(g, {"line", "order", "item"}) =>
             qtyClaimed'[LineOf[rx[g].claim]] = qtyClaimed[LineOf[rx[g].claim]]
      BY <2>1, <2>2, <2>3, <3>1, <3>2 DEF Apart, At
    <3>5. At(g, {"item"}) => Atomic!RolledUp(OrderOf[LineOf[rx[g].claim]], SeenBy(g))'
                              = Atomic!RolledUp(OrderOf[LineOf[rx[g].claim]], SeenBy(g))
      <4> SUFFICES ASSUME At(g, {"item"})
                   PROVE  Atomic!RolledUp(OrderOf[LineOf[rx[g].claim]], SeenBy(g))'
                              = Atomic!RolledUp(OrderOf[LineOf[rx[g].claim]], SeenBy(g))
        OBVIOUS
      <4>1. PICK p \in Orders : p = OrderOf[LineOf[rx[g].claim]] /\ p # o
        BY <2>1, <2>2, <2>3, <3>1, <3>2 DEF Apart, At
      <4>2. poStatus'[p] = poStatus[p] /\ rx'[g] = rx[g]
        BY <2>3, <4>1
      <4>3. \A k \in Lines : OrderOf[k] = p => SeenBy(g)'[k] = SeenBy(g)[k]
        BY <2>2, <2>3, <4>1, <4>2 DEF SeenBy, TypeOK
      <4>4. Atomic!NothingOutstanding(p, SeenBy(g)') <=> Atomic!NothingOutstanding(p, SeenBy(g))
        BY <4>3 DEF Atomic!NothingOutstanding
      <4> QED BY <4>1, <4>2, <4>4 DEF Atomic!RolledUp
    <3>6. At(g, {"rejecting"}) => claimStatus'[rx[g].claim] # "absent"
      BY <1>9, <3>1, Carries DEF Confirm, Own, TypeOK
    <3> QED BY <2>3, <3>1, <3>3, <3>4, <3>5, <3>6 DEF Own, At, Atomic!WithinTolerance
  <2>5. Own(h)'
    BY <2>3 DEF Own, At, Idle
  <2>6. \A f, g \in Handlers : f # g => Apart(f, g)'
    BY <2>3 DEF LockInv, Apart, At, Idle
  <2> QED BY <2>4, <2>5, <2>6 DEF LockInv
<1>10. ASSUME NEW h \in Handlers, Reject(h) PROVE LockInv'
  <2>1. PICK c \in Claims : c = rx[h].claim
    BY <1>10, Carries DEF Reject, At
  <2>2. /\ rx[h].step = "rejecting" /\ rx'[h] = Idle /\ UNCHANGED <<ledgerVars, qtyClaimed, poStatus>>
        /\ \A g \in Handlers \ {h} : rx'[g] = rx[g]
        /\ \A d \in Claims \ {c} : claimStatus'[d] = claimStatus[d]
        /\ ~ClaimLocked(c)
    BY <1>10, <2>1 DEF Reject, Leave, At, TypeOK
  <2>3. ASSUME NEW g \in Handlers \ {h} PROVE Own(g)'
    <3>1. At(g, InConfirm) => rx[g].claim \in Claims \ {c}
      BY <2>2, Carries DEF At, ClaimLocked
    <3>2. SeenBy(g)' = SeenBy(g)
      BY <2>2 DEF SeenBy
    <3>3. At(g, {"rejecting"}) => claimStatus'[rx[g].claim] # "absent"
      BY <1>10, Carries DEF Reject, LockInv, Own, TypeOK
    <3> QED BY <2>2, <3>1, <3>2, <3>3 DEF LockInv, Own, At, ledgerVars, Atomic!WithinTolerance,
               Atomic!RolledUp, Atomic!NothingOutstanding
  <2>4. Own(h)' /\ \A f, g \in Handlers : f # g => Apart(f, g)'
    BY <2>2 DEF LockInv, Own, Apart, At, Idle, ledgerVars
  <2> QED BY <2>3, <2>4 DEF LockInv
<1>11. ASSUME NEW h \in Handlers, Cancel(h) PROVE LockInv'
  <2>1. PICK o \in Orders : o = rx[h].order
    BY <1>11, Carries DEF Cancel, At
  <2>2. /\ rx[h].step = "cancelling" /\ rx'[h] = Idle /\ UNCHANGED <<ledgerVars, claimStatus, qtyClaimed>>
        /\ \A g \in Handlers \ {h} : rx'[g] = rx[g]
        /\ \A p \in Orders \ {o} : poStatus'[p] = poStatus[p]
        /\ ~OrderLocked(o)
    BY <1>11, <2>1 DEF Cancel, Leave, At, TypeOK
  <2>3. ASSUME NEW g \in Handlers \ {h} PROVE Own(g)'
    <3>1. At(g, {"item"}) => OrderOf[LineOf[rx[g].claim]] \in Orders \ {o}
      BY <2>2, Carries, ReceivingAssumption DEF At, OrderLocked
    <3>2. SeenBy(g)' = SeenBy(g)
      BY <2>2 DEF SeenBy
    <3> QED BY <2>2, <3>1, <3>2 DEF LockInv, Own, At, ledgerVars, Atomic!WithinTolerance,
               Atomic!RolledUp, Atomic!NothingOutstanding
  <2>4. Own(h)' /\ \A f, g \in Handlers : f # g => Apart(f, g)'
    BY <2>2 DEF LockInv, Own, Apart, At, Idle, ledgerVars
  <2> QED BY <2>3, <2>4 DEF LockInv
<1>12. CASE UNCHANGED vars
  BY <1>12 DEF vars, ledgerVars, LockInv, Own, Apart, At, SeenBy, Atomic!WithinTolerance,
     Atomic!RolledUp, Atomic!NothingOutstanding
<1> QED BY <1>1, <1>2, <1>3, <1>4, <1>5, <1>6, <1>7, <1>8, <1>9, <1>10, <1>11, <1>12,
           ReceivingAssumption DEF Next, Continue

-----------------------------------------------------------------------------

LEMMA AllInv == Spec => [](TypeOK /\ LedgerInv /\ LockInv)
<1>1. TypeOK /\ LedgerInv /\ LockInv /\ [Next]_vars => (TypeOK /\ LedgerInv /\ LockInv)'
  <2>1. LedgerInv' => LedgerTypeOK'
    BY DEF LedgerInv
  <2> QED BY <2>1, LedgerSimulation, LedgerStep, TypeStep, LockStep
<1> QED BY <1>1, InitInv, PTL DEF Spec

\* Claims, lines, orders and handlers keep their types.
THEOREM TypeCorrect == Spec => []TypeOK
BY AllInv, PTL

\* Receipts are a behaviour of the stock ledger.
THEOREM ImplementsLedger == Spec => LedgerSpec
<1>1. Init => LedgerInit
  BY DEF Init
<1> QED BY <1>1, LedgerSimulation, AllInv, PTL DEF Spec, LedgerSpec

-----------------------------------------------------------------------------
(* The four-lock transaction implements the atomic receipt. *)

\* At the commit, the committed rows are still those the locks were taken on:
\* the writes are the atomic receipt's.
LEMMA ConfirmIsAtomic ==
  ASSUME TypeOK, LedgerInv, LockInv, NEW h \in Handlers, Confirm(h)
  PROVE  \E c \in Claims : Atomic!Confirm(c)
<1>1. PICK c \in Claims : c = rx[h].claim
  BY Carries DEF Confirm, At
<1>2. PICK l \in Lines, o \in Orders, i \in Items : l = LineOf[c] /\ o = OrderOf[l] /\ i = ItemOf[c]
  BY ReceivingAssumption
<1>3. /\ rx[h].step = "item" /\ moving[h] # NoMovement
      /\ claimStatus[c] = "pending" /\ rx[h].qty = qtyClaimed[l] + ClaimQty[c]
      /\ Atomic!WithinTolerance(l, rx[h].qty)
      /\ moving[h].ref = c /\ moving[h].item = i /\ moving[h].delta = ClaimQty[c]
      /\ rx[h].po = Atomic!RolledUp(o, SeenBy(h))
  <2>1. At(h, {"item"}) /\ moving[h] # NoMovement
    BY DEF Confirm, CommitMovement
  <2> QED BY <1>1, <1>2, <2>1 DEF LockInv, Own, At, InConfirm
<1>4. moving[h].balanceAfter = stockQty[i] + ClaimQty[c]
  BY <1>3 DEF LedgerInv, MovementExclusive
<1>5. /\ stockQty' = [stockQty EXCEPT ![i] = @ + ClaimQty[c]]
      /\ ledger' = [ledger EXCEPT ![i] = Append(@,
             [delta |-> ClaimQty[c], ref |-> c, balanceAfter |-> stockQty[i] + ClaimQty[c]])]
  BY <1>3, <1>4 DEF Confirm, CommitMovement
<1>6. /\ claimStatus' = [claimStatus EXCEPT ![c] = "confirmed"]
      /\ qtyClaimed' = [qtyClaimed EXCEPT ![l] = @ + ClaimQty[c]]
      /\ poStatus' = [poStatus EXCEPT ![o] = rx[h].po]
  BY <1>1, <1>2, <1>3 DEF Confirm
<1>7. qtyClaimed' = SeenBy(h)
  BY <1>1, <1>2, <1>3, <1>6 DEF SeenBy
<1>8. poStatus' = [poStatus EXCEPT ![o] = Atomic!RolledUp(o, qtyClaimed')]
  BY <1>3, <1>6, <1>7
<1> QED BY <1>2, <1>3, <1>5, <1>6, <1>8 DEF Atomic!Confirm

LEMMA AtomicStep ==
  TypeOK /\ LedgerInv /\ LockInv /\ [Next]_vars => [Atomic!Next]_(Atomic!receiptVars)
<1> SUFFICES ASSUME TypeOK, LedgerInv, LockInv, [Next]_vars
             PROVE  Atomic!Next \/ UNCHANGED Atomic!receiptVars
  OBVIOUS
<1>1. ASSUME NEW c \in Claims, File(c) PROVE Atomic!File(c)
  BY <1>1 DEF File, Atomic!File, ledgerVars
<1>2. ASSUME NEW h \in Handlers, Confirm(h) PROVE Atomic!Next
  BY <1>2, ConfirmIsAtomic DEF Atomic!Next
<1>3. ASSUME NEW h \in Handlers, Reject(h) PROVE Atomic!Next
  <2>1. PICK c \in Claims : c = rx[h].claim
    BY <1>3, Carries DEF Reject, At
  <2>2. claimStatus[c] # "absent"
    BY <1>3, <2>1 DEF Reject, LockInv, Own, At
  <2> QED BY <1>3, <2>1, <2>2 DEF Reject, Atomic!Reject, Atomic!Next, ledgerVars
<1>4. ASSUME NEW h \in Handlers, Cancel(h) PROVE Atomic!Next
  <2>1. PICK o \in Orders : o = rx[h].order
    BY <1>4, Carries DEF Cancel, At
  <2> QED BY <1>4, <2>1 DEF Cancel, Atomic!Cancel, Atomic!Next, ledgerVars
<1>5. CASE \/ \E h \in Handlers : \E c \in Claims : LockClaim(h, c) \/ ReadForRejection(h, c)
           \/ \E h \in Handlers : \E o \in Orders : ReadForCancel(h, o)
           \/ \E h \in Handlers : \/ LockLine(h) \/ RefuseOverReceipt(h) \/ LockOrder(h)
                                  \/ RollUp(h) \/ MoveStock(h) \/ Abandon(h)
           \/ UNCHANGED vars
  BY <1>5 DEF LockClaim, ReadForRejection, ReadForCancel, LockLine, RefuseOverReceipt,
              LockOrder, RollUp, MoveStock, BeginMovement, Abandon, vars, ledgerVars, Atomic!receiptVars
<1> QED BY <1>1, <1>2, <1>3, <1>4, <1>5, ReceivingAssumption DEF Next, Continue, Atomic!Next

\* ClaimsService.confirm is atomic: whatever else is in flight, the committed
\* claims, lines, orders, stock and ledger change as if each confirmation were
\* one indivisible step.
THEOREM ConfirmAtomic == Spec => AtomicReceipts
<1>1. Init => Atomic!Init
  BY DEF Init, LedgerInit, Atomic!Init
<1> QED BY <1>1, AtomicStep, AllInv, PTL DEF Spec, AtomicReceipts, Atomic!Spec

-----------------------------------------------------------------------------
(* And so the guards and the roll-up hold, of the atomic receipt and of it. *)

LEMMA AtomicGuard ==
  TypeOK /\ NeverOverReceived /\ [Atomic!Next]_(Atomic!receiptVars) => NeverOverReceived'
<1> SUFFICES ASSUME TypeOK, NeverOverReceived, [Atomic!Next]_(Atomic!receiptVars)
             PROVE  NeverOverReceived'
  OBVIOUS
<1>1. ASSUME NEW c \in Claims, Atomic!Confirm(c) PROVE NeverOverReceived'
  BY <1>1, ReceivingAssumption
     DEF Atomic!Confirm, NeverOverReceived, Atomic!WithinTolerance, TypeOK
<1>2. CASE UNCHANGED qtyClaimed
  BY <1>2 DEF NeverOverReceived, Atomic!WithinTolerance
<1> QED BY <1>1, <1>2 DEF Atomic!Next, Atomic!File, Atomic!Reject, Atomic!Cancel, Atomic!receiptVars

\* The over-receipt guard (C3), for every tolerance, quantity and interleaving.
THEOREM OverReceiptGuard == Spec => []NeverOverReceived
<1>1. Init => NeverOverReceived
  BY ReceivingAssumption DEF Init, NeverOverReceived, Atomic!WithinTolerance
<1> QED BY <1>1, AtomicGuard, AtomicStep, AllInv, PTL DEF Spec

\* Any receipt leaves its line above zero, so its order is no longer open.
LEMMA AtomicRollUp ==
  TypeOK /\ OrderFollowsLines /\ [Atomic!Next]_(Atomic!receiptVars) => OrderFollowsLines'
<1> SUFFICES ASSUME TypeOK, OrderFollowsLines, [Atomic!Next]_(Atomic!receiptVars)
             PROVE  OrderFollowsLines'
  OBVIOUS
<1>1. ASSUME NEW c \in Claims, Atomic!Confirm(c) PROVE OrderFollowsLines'
  <2>1. PICK l \in Lines, o \in Orders : l = LineOf[c] /\ o = OrderOf[l]
    BY ReceivingAssumption
  <2>2. /\ qtyClaimed' = [qtyClaimed EXCEPT ![l] = @ + ClaimQty[c]]
        /\ poStatus' = [poStatus EXCEPT ![o] = Atomic!RolledUp(o, qtyClaimed')]
    BY <1>1, <2>1 DEF Atomic!Confirm
  <2>3. qtyClaimed'[l] # 0
    BY <2>2, ReceivingAssumption DEF TypeOK
  <2>4. ASSUME NEW p \in Orders \ {o}
        PROVE  /\ poStatus'[p] = poStatus[p]
               /\ \A k \in Lines : OrderOf[k] = p => qtyClaimed'[k] = qtyClaimed[k]
    BY <2>1, <2>2 DEF TypeOK
  <2>5. poStatus'[o] = Atomic!RolledUp(o, qtyClaimed')
    BY <2>2 DEF TypeOK
  <2> QED BY <2>1, <2>3, <2>4, <2>5
         DEF OrderFollowsLines, Atomic!RolledUp, Atomic!NothingOutstanding
<1>2. ASSUME NEW o \in Orders, Atomic!Cancel(o) PROVE OrderFollowsLines'
  BY <1>2 DEF Atomic!Cancel, OrderFollowsLines, Atomic!NothingOutstanding, TypeOK
<1>3. CASE UNCHANGED <<qtyClaimed, poStatus>>
  BY <1>3 DEF OrderFollowsLines, Atomic!NothingOutstanding
<1> QED BY <1>1, <1>2, <1>3 DEF Atomic!Next, Atomic!File, Atomic!Reject, Atomic!receiptVars

\* The order lock before the count: two confirmations of an order's last lines
\* cannot each leave it partial.  At every commit the status is the lines'.
THEOREM RollUpExact == Spec => []OrderFollowsLines
<1>1. Init => OrderFollowsLines
  BY DEF Init, OrderFollowsLines
<1> QED BY <1>1, AtomicRollUp, AtomicStep, AllInv, PTL DEF Spec

-----------------------------------------------------------------------------
(* One receipt per claim.                                                  *)

\* Only a confirmation writes to the ledger in a claim's name, and a claim that is
\* still to be decided has nothing there.
Once(c) ==
    /\ claimStatus[c] \in {"absent", "pending"} => Movements(c) = {}
    /\ \A j, k \in Movements(c) : j = k
    /\ claimStatus[c] = "confirmed" => Movements(c) # {}

LEMMA MovementsAfterConfirm ==
  ASSUME TypeOK, NEW c \in Claims, Atomic!Confirm(c), NEW d \in Claims
  PROVE  Movements(d)' = IF d = c THEN Movements(d) \cup {Len(ledger[ItemOf[c]]) + 1}
                         ELSE Movements(d)
<1>1. PICK i \in Items : i = ItemOf[c]
  BY ReceivingAssumption
<1>2. PICK row \in Row : row.ref = c /\ ledger' = [ledger EXCEPT ![i] = Append(@, row)]
  <2> DEFINE row == [delta |-> ClaimQty[c], ref |-> c, balanceAfter |-> stockQty[i] + ClaimQty[c]]
  <2>1. ClaimQty[c] \in Int /\ c \in Refs /\ stockQty[i] \in Int
    BY ReceivingAssumption DEF TypeOK, LedgerTypeOK
  <2>2. row \in Row /\ row.ref = c
    BY <2>1 DEF Row
  <2>3. ledger' = [ledger EXCEPT ![i] = Append(@, row)]
    BY <1>1 DEF Atomic!Confirm
  <2> HIDE DEF row
  <2> QED BY <2>2, <2>3
<1>3. PICK k \in Items : k = ItemOf[d]
  BY ReceivingAssumption
<1>4. CASE k # i
  <2>1. ledger'[k] = ledger[k] /\ d # c
    BY <1>1, <1>2, <1>3, <1>4 DEF TypeOK, LedgerTypeOK
  <2> QED BY <1>3, <2>1 DEF Movements
<1>5. CASE k = i
  <2>1. ledger[i] \in Seq(Row) /\ ledger'[i] = Append(ledger[i], row)
    BY <1>2 DEF TypeOK, LedgerTypeOK
  <2>2. /\ Len(ledger[i]) \in Nat /\ Len(ledger'[i]) = Len(ledger[i]) + 1
        /\ ledger'[i][Len(ledger[i]) + 1] = row
        /\ \A j \in 1..Len(ledger[i]) : ledger'[i][j] = ledger[i][j]
    BY <2>1
  <2>3. Movements(d) = {j \in 1..Len(ledger[i]) : ledger[i][j].ref = d}
    BY <1>3, <1>5 DEF Movements
  <2>4. Movements(d)' = {j \in 1..(Len(ledger[i]) + 1) : ledger'[i][j].ref = d}
    BY <1>3, <1>5, <2>2 DEF Movements
  <2> QED BY <1>1, <1>2, <2>2, <2>3, <2>4
<1> QED BY <1>4, <1>5

LEMMA OnceStep ==
  TypeOK /\ (\A c \in Claims : Once(c)) /\ [Atomic!Next]_(Atomic!receiptVars)
    => \A c \in Claims : Once(c)'
<1> SUFFICES ASSUME TypeOK, \A c \in Claims : Once(c), [Atomic!Next]_(Atomic!receiptVars),
                    NEW d \in Claims
             PROVE  Once(d)'
  OBVIOUS
<1>1. Once(d) /\ claimStatus \in [Claims -> ClaimStatuses]
  BY DEF TypeOK
<1>2. ASSUME NEW c \in Claims, Atomic!Confirm(c) PROVE Once(d)'
  <2>1. claimStatus[c] = "pending" /\ claimStatus' = [claimStatus EXCEPT ![c] = "confirmed"]
    BY <1>2 DEF Atomic!Confirm
  <2> QED BY <1>1, <1>2, <2>1, MovementsAfterConfirm DEF Once
<1>3. CASE \/ UNCHANGED Atomic!receiptVars \/ \E o \in Orders : Atomic!Cancel(o)
           \/ \E c \in Claims : Atomic!File(c) \/ Atomic!Reject(c)
  <2>1. Movements(d)' = Movements(d)
    BY <1>3 DEF Atomic!receiptVars, Atomic!Cancel, Atomic!File, Atomic!Reject, Movements
  <2>2. \/ claimStatus'[d] = claimStatus[d] \/ claimStatus'[d] = "rejected"
        \/ claimStatus[d] = "absent" /\ claimStatus'[d] = "pending"
    BY <1>1, <1>3 DEF Atomic!receiptVars, Atomic!Cancel, Atomic!File, Atomic!Reject
  <2> QED BY <1>1, <2>1, <2>2 DEF Once
<1> QED BY <1>2, <1>3 DEF Atomic!Next

\* A claim moves stock at most once, and a confirmed one did, whichever handlers confirm,
\* reject and cancel at the same time.
THEOREM ConfirmedOnce == Spec => []ReceivedOnce
<1>1. Init => \A c \in Claims : Once(c)
  BY ReceivingAssumption DEF Init, LedgerInit, Once, Movements
<1>2. ASSUME NEW c \in Claims, Once(c) PROVE Cardinality(Movements(c)) <= 1
  <2>1. CASE Movements(c) = {}
    BY <2>1, FS_EmptySet
  <2>2. CASE Movements(c) # {}
    <3>1. PICK k : Movements(c) = {k}
      BY <1>2, <2>2 DEF Once
    <3> QED BY <3>1, FS_Singleton
  <2> QED BY <2>1, <2>2
<1>3. (\A c \in Claims : Once(c)) => ReceivedOnce
  BY <1>2 DEF ReceivedOnce, Received, Once
<1>4. TypeOK /\ LedgerInv /\ LockInv /\ (\A c \in Claims : Once(c)) /\ [Next]_vars
        => (\A c \in Claims : Once(c))'
  BY AtomicStep, OnceStep
<1> QED BY <1>1, <1>3, <1>4, AllInv, PTL DEF Spec

-----------------------------------------------------------------------------
(* No receipt is lost. *)

\* Claims may be infinitely many; those received on a line never are.
Accounted == \A l \in Lines :
    IsFiniteSet(ReceivedOn(l)) /\ qtyClaimed[l] = SumFunctionOnSet(ClaimQty, ReceivedOn(l))

LEMMA AccountedStep ==
  /\ TypeOK /\ (\A c \in Claims : Once(c)) /\ Accounted
  /\ [Atomic!Next]_(Atomic!receiptVars)
  => Accounted'
<1> SUFFICES ASSUME TypeOK, \A c \in Claims : Once(c), Accounted,
                    [Atomic!Next]_(Atomic!receiptVars), NEW l \in Lines
             PROVE  /\ IsFiniteSet(ReceivedOn(l)')
                    /\ qtyClaimed'[l] = SumFunctionOnSet(ClaimQty, ReceivedOn(l)')
  BY DEF Accounted
<1>1. IsFiniteSet(ReceivedOn(l)) /\ qtyClaimed[l] = SumFunctionOnSet(ClaimQty, ReceivedOn(l))
  BY DEF Accounted
<1>2. ASSUME NEW c \in Claims, Atomic!Confirm(c)
      PROVE  /\ IsFiniteSet(ReceivedOn(l)')
             /\ qtyClaimed'[l] = SumFunctionOnSet(ClaimQty, ReceivedOn(l)')
  <2>1. ~Received(c)
    BY <1>2 DEF Atomic!Confirm, Once, Received
  <2>2. \A d \in Claims : Received(d)' <=> (Received(d) \/ d = c)
    BY <1>2, MovementsAfterConfirm DEF Received
  <2>3. qtyClaimed' = [qtyClaimed EXCEPT ![LineOf[c]] = @ + ClaimQty[c]]
        /\ qtyClaimed \in [Lines -> Nat] /\ LineOf[c] \in Lines
    BY <1>2, ReceivingAssumption DEF Atomic!Confirm, TypeOK
  <2>4. CASE LineOf[c] # l
    <3>1. ReceivedOn(l)' = ReceivedOn(l) /\ qtyClaimed'[l] = qtyClaimed[l]
      BY <2>2, <2>3, <2>4 DEF ReceivedOn
    <3> QED BY <1>1, <3>1
  <2>5. CASE LineOf[c] = l
    <3>1. ReceivedOn(l)' = ReceivedOn(l) \cup {c} /\ c \notin ReceivedOn(l)
      BY <2>1, <2>2, <2>5 DEF ReceivedOn
    <3>2. \A d \in ReceivedOn(l) \cup {c} : ClaimQty[d] \in Int
      BY ReceivingAssumption DEF ReceivedOn
    <3>3. SumFunctionOnSet(ClaimQty, ReceivedOn(l) \cup {c})
             = SumFunctionOnSet(ClaimQty, ReceivedOn(l)) + ClaimQty[c]
      BY <1>1, <3>1, <3>2, SumAdd
    <3>4. IsFiniteSet(ReceivedOn(l) \cup {c})
      BY <1>1, FS_AddElement
    <3> QED BY <1>1, <2>3, <2>5, <3>1, <3>3, <3>4
  <2> QED BY <2>4, <2>5
<1>3. CASE UNCHANGED <<qtyClaimed, ledger>>
  BY <1>1, <1>3 DEF ReceivedOn, Received, Movements
<1> QED BY <1>2, <1>3 DEF Atomic!Next, Atomic!File, Atomic!Reject, Atomic!Cancel, Atomic!receiptVars

\* A line has received exactly what its claims moved into stock: no quantity is
\* counted twice, and none is lost to a confirmation that ran beside it.
THEOREM NothingLost == Spec => []ReceiptsAccounted
<1>1. Init => (\A c \in Claims : Once(c)) /\ Accounted
  <2> SUFFICES ASSUME Init PROVE (\A c \in Claims : Once(c)) /\ Accounted
    OBVIOUS
  <2>1. \A c \in Claims : Once(c) /\ ~Received(c)
    BY ReceivingAssumption DEF Init, LedgerInit, Once, Movements, Received
  <2>2. \A l \in Lines : ReceivedOn(l) = {} /\ qtyClaimed[l] = 0
    BY <2>1 DEF ReceivedOn, Init
  <2> QED BY <2>1, <2>2, SumOfNone, FS_EmptySet DEF Accounted
<1>2. /\ TypeOK /\ LedgerInv /\ LockInv /\ (\A c \in Claims : Once(c)) /\ Accounted /\ [Next]_vars
      => (\A c \in Claims : Once(c))' /\ Accounted'
  BY AtomicStep, OnceStep, AccountedStep
<1>3. Accounted => ReceiptsAccounted
  BY DEF Accounted, ReceiptsAccounted
<1> QED BY <1>1, <1>2, <1>3, AllInv, PTL DEF Spec

-----------------------------------------------------------------------------
(* What a decision is worth.                                               *)

\* A decided claim never goes back to be decided, and one rejected stays so: the only
\* decision that can be undone is a confirmation, by a rejection.
OnlyConfirmationsUndone == [][\A c \in Claims :
    /\ claimStatus[c] = "rejected" => claimStatus'[c] = "rejected"
    /\ claimStatus[c] = "confirmed" => claimStatus'[c] \in {"confirmed", "rejected"}]_vars

\* confirm checks a locked row, so whatever reject does beside it a rejected claim is
\* never received.
THEOREM RejectionsStand == Spec => OnlyConfirmationsUndone
<1>1. ASSUME TypeOK, [Atomic!Next]_(Atomic!receiptVars), NEW c \in Claims
      PROVE  /\ claimStatus[c] = "rejected" => claimStatus'[c] = "rejected"
             /\ claimStatus[c] = "confirmed" => claimStatus'[c] \in {"confirmed", "rejected"}
  BY <1>1 DEF TypeOK, Atomic!Next, Atomic!File, Atomic!Confirm, Atomic!Reject, Atomic!Cancel,
              Atomic!receiptVars
<1>2. TypeOK /\ LedgerInv /\ LockInv /\ [Next]_vars
        => [\A c \in Claims :
              /\ claimStatus[c] = "rejected" => claimStatus'[c] = "rejected"
              /\ claimStatus[c] = "confirmed" => claimStatus'[c] \in {"confirmed", "rejected"}]_vars
  BY <1>1, AtomicStep
<1> QED BY <1>2, AllInv, PTL DEF Spec, OnlyConfirmationsUndone

\* No claim is between reject's read and its update, and being confirmed, at once.
RejectionsApart == \A g, h \in Handlers :
    At(g, {"rejecting"}) /\ At(h, InConfirm) => rx[g].claim # rx[h].claim

RejectingOpen == \A h \in Handlers :
    At(h, {"rejecting"}) => claimStatus[rx[h].claim] \in {"pending", "rejected"}

\* What a step does to the claims: it files one, confirms one whose row it holds,
\* rejects one it has read, or leaves them alone.
LEMMA ClaimStep ==
  ASSUME TypeOK, [Next]_vars
  PROVE  \/ claimStatus' = claimStatus
         \/ \E c \in Claims : /\ claimStatus[c] = "absent"
                              /\ claimStatus' = [claimStatus EXCEPT ![c] = "pending"]
         \/ \E h \in Handlers, c \in Claims :
               /\ At(h, {"item"}) /\ c = rx[h].claim
               /\ claimStatus' = [claimStatus EXCEPT ![c] = "confirmed"]
         \/ \E h \in Handlers, c \in Claims :
               /\ At(h, {"rejecting"}) /\ c = rx[h].claim
               /\ claimStatus' = [claimStatus EXCEPT ![c] = "rejected"]
<1>1. ASSUME NEW h \in Handlers, Confirm(h)
      PROVE  /\ At(h, {"item"}) /\ rx[h].claim \in Claims
             /\ claimStatus' = [claimStatus EXCEPT ![rx[h].claim] = "confirmed"]
  BY <1>1, Carries DEF Confirm, At
<1>2. ASSUME NEW h \in Handlers, Reject(h)
      PROVE  /\ At(h, {"rejecting"}) /\ rx[h].claim \in Claims
             /\ claimStatus' = [claimStatus EXCEPT ![rx[h].claim] = "rejected"]
  BY <1>2, Carries DEF Reject, At
<1>3. ASSUME NEW c \in Claims, File(c)
      PROVE  claimStatus[c] = "absent" /\ claimStatus' = [claimStatus EXCEPT ![c] = "pending"]
  BY <1>3 DEF File
<1>4. CASE \/ \E h \in Handlers : \E c \in Claims : LockClaim(h, c) \/ ReadForRejection(h, c)
           \/ \E h \in Handlers : \E o \in Orders : ReadForCancel(h, o)
           \/ \E h \in Handlers : \/ LockLine(h) \/ RefuseOverReceipt(h) \/ LockOrder(h)
                                  \/ RollUp(h) \/ MoveStock(h) \/ Cancel(h) \/ Abandon(h)
           \/ UNCHANGED vars
  BY <1>4 DEF LockClaim, ReadForRejection, ReadForCancel, LockLine, RefuseOverReceipt,
              LockOrder, RollUp, MoveStock, Cancel, Abandon, vars
<1> QED BY <1>1, <1>2, <1>3, <1>4, ReceivingAssumption DEF Next, Continue

\* Who rejects after the step was already rejecting, or has just read "pending".
LEMMA RejectingStep ==
  ASSUME TypeOK, [Next]_vars, NEW g \in Handlers, At(g, {"rejecting"})'
  PROVE  \/ At(g, {"rejecting"}) /\ rx'[g] = rx[g]
         \/ \E c \in Claims : /\ rx'[g].claim = c /\ claimStatus[c] = "pending"
                              /\ claimStatus' = claimStatus
<1> USE DEF At
<1>1. ASSUME NEW h \in Handlers, NEW p, rx' = [rx EXCEPT ![h] = p], p.step # "rejecting"
      PROVE  rx'[g] = rx[g]
  BY <1>1 DEF TypeOK
<1>2. ASSUME NEW h \in Handlers, NEW c \in Claims, ReadForRejection(h, c)
      PROVE  \/ rx'[g] = rx[g]
             \/ rx'[g].claim = c /\ claimStatus[c] = "pending" /\ claimStatus' = claimStatus
  BY <1>2 DEF ReadForRejection, TypeOK
<1>3. ASSUME NEW h \in Handlers, NEW c \in Claims, LockClaim(h, c) PROVE rx'[g] = rx[g]
  BY <1>1, <1>3 DEF LockClaim
<1>4. ASSUME NEW h \in Handlers, NEW o \in Orders, ReadForCancel(h, o) PROVE rx'[g] = rx[g]
  BY <1>1, <1>4 DEF ReadForCancel
<1>5. ASSUME NEW h \in Handlers, LockLine(h) PROVE rx'[g] = rx[g]
  BY <1>1, <1>5 DEF LockLine
<1>6. ASSUME NEW h \in Handlers, LockOrder(h) PROVE rx'[g] = rx[g]
  BY <1>1, <1>6 DEF LockOrder
<1>7. ASSUME NEW h \in Handlers, RollUp(h) PROVE rx'[g] = rx[g]
  BY <1>1, <1>7 DEF RollUp
<1>8. ASSUME NEW h \in Handlers,
             RefuseOverReceipt(h) \/ Confirm(h) \/ Reject(h) \/ Cancel(h) \/ Abandon(h)
      PROVE  rx'[g] = rx[g]
  <2>1. rx' = [rx EXCEPT ![h] = Idle] /\ Idle.step # "rejecting"
    BY <1>8 DEF RefuseOverReceipt, Confirm, Reject, Cancel, Abandon, Leave, Idle
  <2> QED BY <1>1, <2>1
<1>9. CASE UNCHANGED vars \/ (\E c \in Claims : File(c)) \/ (\E h \in Handlers : MoveStock(h))
  BY <1>9 DEF vars, File, MoveStock
<1> QED
  BY <1>2, <1>3, <1>4, <1>5, <1>6, <1>7, <1>8, <1>9, ReceivingAssumption DEF Next, Continue

LEMMA RejectingOpenStep ==
  ASSUME TypeOK, LockInv, RejectionsApart, RejectingOpen, [Next]_vars
  PROVE  RejectingOpen'
<1> SUFFICES ASSUME NEW g \in Handlers, At(g, {"rejecting"})'
             PROVE  claimStatus'[rx'[g].claim] \in {"pending", "rejected"}
  BY DEF RejectingOpen
<1>1. CASE At(g, {"rejecting"}) /\ rx'[g] = rx[g]
  <2>1. PICK c \in Claims : c = rx[g].claim
    BY <1>1, Carries DEF At
  <2>2. claimStatus[c] \in {"pending", "rejected"}
    BY <1>1, <2>1 DEF RejectingOpen
  <2>3. ASSUME NEW h \in Handlers, At(h, {"item"}) PROVE rx[h].claim # c
    BY <1>1, <2>1, <2>3 DEF RejectionsApart, At, InConfirm
  <2> QED BY <1>1, <2>1, <2>2, <2>3, ClaimStep DEF TypeOK
<1>2. CASE ~(At(g, {"rejecting"}) /\ rx'[g] = rx[g])
  BY <1>2, RejectingStep
<1> QED BY <1>1, <1>2

\* "pending -> confirmed | rejected", once: in every behaviour where no rejection of a
\* claim overlaps its confirmation, however the other handlers interleave.
THEOREM DecidedOnceUnlessOverlapped ==
    Spec /\ []RejectionsApart => DecidedOnce
<1>1. Init => RejectingOpen
  BY DEF Init, RejectingOpen, At, Idle
<1>2. TypeOK /\ LockInv /\ RejectionsApart /\ RejectingOpen /\ [Next]_vars => RejectingOpen'
  BY RejectingOpenStep
<1>3. ASSUME TypeOK, LockInv, RejectingOpen, [Next]_vars, NEW c \in Claims,
             claimStatus[c] \in {"confirmed", "rejected"}
      PROVE  claimStatus'[c] = claimStatus[c]
  <2>1. ASSUME NEW h \in Handlers, At(h, {"item"}) PROVE rx[h].claim # c
    <3>1. claimStatus[rx[h].claim] = "pending"
      BY <1>3, <2>1 DEF LockInv, Own, At, InConfirm
    <3> QED BY <1>3, <3>1
  <2>2. ASSUME NEW h \in Handlers, At(h, {"rejecting"}), rx[h].claim = c
        PROVE  claimStatus[c] = "rejected"
    BY <1>3, <2>2 DEF RejectingOpen
  <2> QED BY <1>3, <2>1, <2>2, ClaimStep DEF TypeOK
<1>4. TypeOK /\ LockInv /\ RejectingOpen /\ [Next]_vars
        => [\A c \in Claims : claimStatus[c] \in {"confirmed", "rejected"}
              => claimStatus'[c] = claimStatus[c]]_vars
  BY <1>3
<1> QED BY <1>1, <1>2, <1>4, AllInv, PTL DEF Spec, DecidedOnce

-----------------------------------------------------------------------------
(* No deadlock.  ENABLED is out of the prover's reach, so the guards of      *)
(* Continue are written out: CanGo(h) is ENABLED Continue(h).                *)

CanGo(h) ==
    \/ At(h, {"rejecting"}) /\ ~ClaimLocked(rx[h].claim)
    \/ At(h, {"cancelling"}) /\ ~OrderLocked(rx[h].order)
    \/ At(h, {"claim"}) /\ ~LineLocked(LineOf[rx[h].claim])
    \/ At(h, {"line"}) /\ ~OrderLocked(OrderOf[LineOf[rx[h].claim]])
    \/ At(h, {"order"})
    \/ /\ At(h, {"item"}) /\ moving[h] = NoMovement
       /\ LET i == ItemOf[rx[h].claim]
          IN ~ItemLocked(i) /\ stockQty[i] + ClaimQty[rx[h].claim] >= 0
    \/ At(h, {"item"}) /\ moving[h] # NoMovement

\* g holds the row h waits for.
Blocks(g, h) ==
    \/ /\ At(h, {"rejecting"}) /\ At(g, InConfirm)
       /\ rx[g].claim = rx[h].claim
    \/ /\ At(h, {"cancelling"}) /\ At(g, {"order", "item"})
       /\ OrderOf[LineOf[rx[g].claim]] = rx[h].order
    \/ /\ At(h, {"claim"}) /\ At(g, {"line", "order", "item"})
       /\ LineOf[rx[g].claim] = LineOf[rx[h].claim]
    \/ /\ At(h, {"line"}) /\ At(g, {"order", "item"})
       /\ OrderOf[LineOf[rx[g].claim]] = OrderOf[LineOf[rx[h].claim]]
    \/ /\ At(h, {"item"}) /\ moving[h] = NoMovement /\ moving[g] # NoMovement
       /\ moving[g].item = ItemOf[rx[h].claim]

\* How many of the four rows h holds, and one more once its writes are ready.
Depth(h) ==
    IF At(h, {"claim"}) THEN 1
    ELSE IF At(h, {"line"}) THEN 2
    ELSE IF At(h, {"order"}) THEN 3
    ELSE IF At(h, {"item"}) THEN IF moving[h] = NoMovement THEN 4 ELSE 5
    ELSE 0

\* A handler inside a request can go on, or waits for one that holds more rows.
WaitsEnd == \A h \in Handlers : rx[h] # Idle =>
    CanGo(h) \/ \E g \in Handlers : Blocks(g, h) /\ Depth(h) < Depth(g)

\* Some handler can go on whenever any is inside a request.
SomeoneGoes == (\E h \in Handlers : rx[h] # Idle) => \E h \in Handlers : CanGo(h)

LEMMA WaitOrGo == TypeOK /\ LedgerInv /\ LockInv => WaitsEnd
<1> SUFFICES ASSUME TypeOK, LedgerInv, LockInv, NEW h \in Handlers, rx[h] # Idle, ~CanGo(h)
             PROVE  \E g \in Handlers : Blocks(g, h) /\ Depth(h) < Depth(g)
  BY DEF WaitsEnd
<1>1. At(h, {"rejecting", "cancelling", "claim", "line", "item"})
  BY DEF CanGo, TypeOK, At
<1>2. CASE At(h, {"rejecting"})
  BY <1>2 DEF CanGo, ClaimLocked, Blocks, Depth, At, InConfirm
<1>3. CASE At(h, {"cancelling"})
  BY <1>3 DEF CanGo, OrderLocked, Blocks, Depth, At
<1>4. CASE At(h, {"claim"})
  BY <1>4 DEF CanGo, LineLocked, Blocks, Depth, At
<1>5. CASE At(h, {"line"})
  BY <1>5 DEF CanGo, OrderLocked, Blocks, Depth, At
<1>6. CASE At(h, {"item"})
  <2> DEFINE i == ItemOf[rx[h].claim]
  <2>1. stockQty[i] + ClaimQty[rx[h].claim] >= 0
    <3>1. rx[h].claim \in Claims
      BY <1>6, Carries DEF At
    <3>2. i \in Items /\ ClaimQty[rx[h].claim] \in Nat
      BY <3>1, ReceivingAssumption
    <3>3. stockQty[i] \in Int /\ stockQty[i] >= 0
      BY <3>2 DEF LedgerInv, LedgerTypeOK, NeverNegative
    <3> QED BY <3>2, <3>3
  <2>2. moving[h] = NoMovement /\ ItemLocked(i)
    BY <1>6, <2>1 DEF CanGo
  <2>3. PICK g \in Handlers : moving[g] # NoMovement /\ moving[g].item = i
    BY <2>2 DEF ItemLocked
  <2>4. At(g, {"item"})
    BY <2>3 DEF LockInv, Own
  <2>5. Blocks(g, h)
    BY <1>6, <2>2, <2>3 DEF Blocks
  <2>6. Depth(h) = 4 /\ Depth(g) = 5
    BY <1>6, <2>2, <2>3, <2>4 DEF Depth, At
  <2> QED BY <2>5, <2>6
<1> QED BY <1>1, <1>2, <1>3, <1>4, <1>5, <1>6 DEF At

\* The waits go up in Depth, which ends at 5.
LEMMA WaitsEndSomewhere == TypeOK /\ WaitsEnd => SomeoneGoes
<1> SUFFICES ASSUME TypeOK, WaitsEnd, NEW h \in Handlers, rx[h] # Idle,
                    \A g \in Handlers : ~CanGo(g)
             PROVE  FALSE
  BY DEF SomeoneGoes
<1> DEFINE Deep(n) == \E g \in Handlers : rx[g] # Idle /\ Depth(g) >= n
<1>1. \A g \in Handlers : Depth(g) \in 0..5 /\ (Depth(g) > 0 => rx[g] # Idle)
  <2> SUFFICES ASSUME NEW g \in Handlers
               PROVE  Depth(g) \in 0..5 /\ (Depth(g) > 0 => rx[g] # Idle)
    OBVIOUS
  <2>1. Depth(g) \in 0..5
    BY DEF Depth
  <2>2. rx[g] = Idle => Depth(g) = 0
    BY DEF Depth, At, Idle
  <2> QED BY <2>1, <2>2
<1>2. ASSUME NEW g \in Handlers, rx[g] # Idle
      PROVE  \E f \in Handlers : rx[f] # Idle /\ Depth(f) > Depth(g)
  <2>1. PICK f \in Handlers : Depth(g) < Depth(f)
    BY <1>2 DEF WaitsEnd
  <2>2. Depth(f) \in 0..5 /\ Depth(g) \in 0..5 /\ (Depth(f) > 0 => rx[f] # Idle)
    BY <1>1
  <2> QED BY <2>1, <2>2
<1>3. ASSUME NEW n \in Nat, Deep(n) PROVE Deep(n + 1)
  <2>1. PICK g \in Handlers : rx[g] # Idle /\ Depth(g) >= n
    BY <1>3
  <2>2. PICK f \in Handlers : rx[f] # Idle /\ Depth(f) > Depth(g)
    BY <1>2, <2>1
  <2>3. Depth(f) >= n + 1
    BY <1>1, <2>1, <2>2
  <2> QED BY <2>2, <2>3
<1>4. Deep(0)
  BY <1>1
<1> HIDE DEF Deep
<1>5. Deep(1)
  BY <1>3, <1>4
<1>6. Deep(2)
  BY <1>3, <1>5
<1>7. Deep(3)
  BY <1>3, <1>6
<1>8. Deep(4)
  BY <1>3, <1>7
<1>9. Deep(5)
  BY <1>3, <1>8
<1>10. Deep(6)
  BY <1>3, <1>9
<1> QED BY <1>1, <1>10 DEF Deep

\* No deadlock, for any number of confirmations, rejections and cancellations: whoever
\* waits for a row (claim, line, order, item: the order confirm takes them in) waits for
\* a transaction that holds more of them, and so some transaction can always go on.
THEOREM NoDeadlock == Spec => [](WaitsEnd /\ SomeoneGoes)
BY AllInv, WaitOrGo, WaitsEndSomewhere, PTL

=============================================================================
