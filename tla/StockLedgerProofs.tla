------------------------- MODULE StockLedgerProofs -------------------------
(* The stock ledger's promises, for any number of handlers and items. *)
EXTENDS StockLedger, ArithmeticProofs

\* Before anything has moved, every balance is the opening stock.
LEMMA LedgerInitInv == LedgerInit => LedgerInv
<1> SUFFICES ASSUME LedgerInit PROVE LedgerInv
  OBVIOUS
<1> USE LedgerAssumption DEF LedgerInit
<1>1. LedgerTypeOK
  BY DEF LedgerTypeOK
<1>2. MovementExclusive
  BY DEF MovementExclusive
<1>3. RunningBalance
  BY DEF RunningBalance, BalanceBefore
<1>4. NeverNegative
  BY DEF NeverNegative
<1> QED BY <1>1, <1>2, <1>3, <1>4 DEF LedgerInv

\* Taking the row lock and computing the balance: the lock was free, so no
\* other transaction has a balance for this item.
LEMMA BeginPreserves ==
  ASSUME LedgerInv, NEW h \in Handlers, NEW i \in Items, NEW d \in Int, NEW ref \in Refs,
         BeginMovement(h, i, d, ref)
  PROVE  LedgerInv'
<1> USE DEF LedgerInv, LedgerTypeOK, BeginMovement, ItemLocked
<1>1. LedgerTypeOK'
  BY LedgerAssumption DEF Movement
<1>2. MovementExclusive'
  BY LedgerAssumption DEF MovementExclusive, Movement
<1>3. RunningBalance'
  BY DEF RunningBalance, BalanceBefore
<1>4. NeverNegative'
  BY DEF NeverNegative
<1> QED BY <1>1, <1>2, <1>3, <1>4

\* The commit: the new row continues the item's chain of balances, and no other
\* transaction holds a balance the new stock would make stale.
LEMMA CommitPreserves ==
  ASSUME LedgerInv, NEW h \in Handlers, CommitMovement(h)
  PROVE  LedgerInv'
<1> USE DEF LedgerInv, LedgerTypeOK
<1>0. PICK m \in Movement : m = moving[h]
  BY DEF CommitMovement
<1>1. PICK i \in Items, row \in Row :
        /\ i = m.item /\ row.delta = m.delta /\ row.balanceAfter = m.balanceAfter
        /\ stockQty' = [stockQty EXCEPT ![i] = m.balanceAfter]
        /\ ledger' = [ledger EXCEPT ![i] = Append(ledger[i], row)]
        /\ moving' = [moving EXCEPT ![h] = NoMovement]
  <2>1. [delta |-> m.delta, ref |-> m.ref, balanceAfter |-> m.balanceAfter] \in Row
    BY DEF Movement, Row
  <2>2. m.item \in Items
    BY DEF Movement
  <2> QED BY <1>0, <2>1, <2>2 DEF CommitMovement
<1>2. m.balanceAfter = stockQty[i] + m.delta /\ m.balanceAfter >= 0
  BY <1>0, <1>1, LedgerAssumption DEF MovementExclusive
<1>3. LedgerTypeOK'
  BY <1>1 DEF Movement
<1>4. MovementExclusive'
  BY <1>0, <1>1, LedgerAssumption DEF MovementExclusive, Movement
<1>5. /\ ledger[i] \in Seq(Row)
      /\ Len(ledger'[i]) = Len(ledger[i]) + 1
      /\ ledger'[i][Len(ledger[i]) + 1] = row
      /\ \A k \in 1..Len(ledger[i]) : ledger'[i][k] = ledger[i][k]
      /\ \A j \in Items \ {i} : ledger'[j] = ledger[j] /\ stockQty'[j] = stockQty[j]
      /\ stockQty'[i] = m.balanceAfter
  BY <1>1
<1>6. RunningBalance'
  <2>1. ASSUME NEW j \in Items, j # i
        PROVE  /\ \A k \in 1..Len(ledger'[j]) :
                     ledger'[j][k].balanceAfter = BalanceBefore(j, k)' + ledger'[j][k].delta
               /\ stockQty'[j] = BalanceBefore(j, Len(ledger[j]) + 1)'
    <3>1. ledger'[j] = ledger[j] /\ stockQty'[j] = stockQty[j]
      BY <1>5, <2>1
    <3>2. ASSUME NEW k PROVE BalanceBefore(j, k)' = BalanceBefore(j, k)
      BY <3>1 DEF BalanceBefore
    <3> QED BY <3>1, <3>2 DEF RunningBalance
  <2>2. Len(ledger[i]) \in Nat
    BY <1>5
  <2>3. \A k \in 1..(Len(ledger[i]) + 1) : BalanceBefore(i, k)' = BalanceBefore(i, k)
    BY <1>5, <2>2 DEF BalanceBefore
  <2>4. \A k \in 1..Len(ledger'[i]) :
           ledger'[i][k].balanceAfter = BalanceBefore(i, k)' + ledger'[i][k].delta
    <3> SUFFICES ASSUME NEW k \in 1..Len(ledger'[i])
                 PROVE  ledger'[i][k].balanceAfter = BalanceBefore(i, k)' + ledger'[i][k].delta
      OBVIOUS
    <3>1. CASE k \in 1..Len(ledger[i])
      BY <1>1, <1>5, <2>2, <2>3, <3>1 DEF RunningBalance
    <3>2. CASE k = Len(ledger[i]) + 1
      <4>1. ledger'[i][k].balanceAfter = m.balanceAfter /\ ledger'[i][k].delta = m.delta
        BY <1>1, <1>5, <3>2
      <4>2. BalanceBefore(i, k)' = stockQty[i]
        BY <1>1, <2>2, <2>3, <3>2 DEF RunningBalance
      <4> QED BY <1>2, <4>1, <4>2
    <3> QED BY <1>5, <2>2, <3>1, <3>2
  <2>5. stockQty'[i] = BalanceBefore(i, Len(ledger[i]) + 1)'
    <3>1. BalanceBefore(i, Len(ledger[i]) + 1)' = ledger'[i][Len(ledger[i]) + 1].balanceAfter
      BY <1>5, <2>2 DEF BalanceBefore
    <3> QED BY <1>1, <1>5, <3>1
  <2> SUFFICES ASSUME NEW j \in Items
               PROVE  /\ \A k \in 1..Len(ledger'[j]) :
                            ledger'[j][k].balanceAfter = BalanceBefore(j, k)' + ledger'[j][k].delta
                      /\ stockQty'[j] = BalanceBefore(j, Len(ledger[j]) + 1)'
    BY DEF RunningBalance
  <2> QED BY <2>1, <2>4, <2>5
<1>7. NeverNegative'
  <2>1. ASSUME NEW j \in Items PROVE stockQty'[j] >= 0
    BY <1>1, <1>2, <1>5, <2>1 DEF NeverNegative
  <2>2. ASSUME NEW j \in Items, NEW k \in 1..Len(ledger'[j])
        PROVE  ledger'[j][k].balanceAfter >= 0
    <3>1. CASE j # i
      BY <1>5, <3>1 DEF NeverNegative
    <3>2. CASE j = i /\ k \in 1..Len(ledger[i])
      BY <1>1, <1>5, <3>2 DEF NeverNegative
    <3>3. CASE j = i /\ k = Len(ledger[i]) + 1
      BY <1>1, <1>2, <1>5, <3>3
    <3>4. Len(ledger[i]) \in Nat
      BY <1>5
    <3> QED BY <1>5, <3>1, <3>2, <3>3, <3>4
  <2> QED BY <2>1, <2>2 DEF NeverNegative
<1> QED BY <1>3, <1>4, <1>6, <1>7

\* Rolling back forgets the balance and frees the row.
LEMMA RollbackPreserves ==
  ASSUME LedgerInv, NEW h \in Handlers,
         moving' = [moving EXCEPT ![h] = NoMovement], UNCHANGED <<stockQty, ledger>>
  PROVE  LedgerInv'
<1> USE DEF LedgerInv, LedgerTypeOK
<1>1. LedgerTypeOK'
  OBVIOUS
<1>2. MovementExclusive'
  BY LedgerAssumption DEF MovementExclusive, Movement
<1>3. RunningBalance' /\ NeverNegative'
  BY DEF RunningBalance, BalanceBefore, NeverNegative
<1> QED BY <1>1, <1>2, <1>3

LEMMA LedgerStep == LedgerInv /\ [LedgerNext]_ledgerVars => LedgerInv'
<1> SUFFICES ASSUME LedgerInv, [LedgerNext]_ledgerVars PROVE LedgerInv'
  OBVIOUS
<1>1. CASE UNCHANGED ledgerVars
  BY <1>1 DEF ledgerVars, LedgerInv, LedgerTypeOK, MovementExclusive, RunningBalance,
              BalanceBefore, NeverNegative
<1>2. ASSUME NEW h \in Handlers, NEW i \in Items, NEW d \in Deltas, NEW ref \in Refs,
             BeginMovement(h, i, d, ref)
      PROVE  LedgerInv'
  <2>1. d \in Int
    BY LedgerAssumption
  <2> QED BY <1>2, <2>1, BeginPreserves
<1>3. ASSUME NEW h \in Handlers, CommitMovement(h) PROVE LedgerInv'
  BY <1>3, CommitPreserves
<1>4. ASSUME NEW h \in Handlers, RollbackMovement(h) PROVE LedgerInv'
  BY <1>4, RollbackPreserves DEF RollbackMovement
<1> QED BY <1>1, <1>2, <1>3, <1>4 DEF LedgerNext

\* The ledger keeps its promises however the transactions interleave: balances
\* chain, the stock is the last balance, nothing is negative, and one
\* transaction at a time holds an item.
THEOREM LedgerCorrect == LedgerSpec => []LedgerInv
BY LedgerInitInv, LedgerStep, PTL DEF LedgerSpec

-----------------------------------------------------------------------------
(* Reconciliation. *)

Delta(i) == [k \in 1..Len(ledger[i]) |-> ledger[i][k].delta]

\* The stock of an item is its opening stock and everything the ledger says came or went.
StockIsSum == \A i \in Items :
    stockQty[i] = OpeningStock[i] + SumFunctionOnSet(Delta(i), 1..Len(ledger[i]))

\* Along a chain of running balances the deltas add up.
LEMMA BalancesAddUp ==
    ASSUME LedgerTypeOK, RunningBalance, NEW i \in Items, NEW n \in 0..Len(ledger[i])
    PROVE  BalanceBefore(i, n + 1) = OpeningStock[i] + SumFunctionOnSet(Delta(i), 1..n)
<1> DEFINE len == Len(ledger[i])
           d == Delta(i)
           Off == {k \in 0..len : BalanceBefore(i, k + 1) # OpeningStock[i] + SumFunctionOnSet(d, 1..k)}
<1>1. len \in Nat /\ OpeningStock[i] \in Int /\ \A k \in 1..len : d[k] \in Int /\ d[k] = ledger[i][k].delta
  <2>1. ledger[i] \in Seq(Row) /\ OpeningStock[i] \in Nat
    BY LedgerAssumption DEF LedgerTypeOK
  <2>2. len \in Nat /\ \A k \in 1..len : ledger[i][k] \in Row
    BY <2>1
  <2>3. \A k \in 1..len : ledger[i][k].delta \in Int
    BY <2>2 DEF Row
  <2> QED BY <2>1, <2>2, <2>3 DEF Delta
<1>2. \A k \in Nat : IsFiniteSet(1..k)
  BY FS_Interval
<1>3. \A k \in 0..len : SumFunctionOnSet(d, 1..k) \in Int
  <2> SUFFICES ASSUME NEW k \in 0..len PROVE SumFunctionOnSet(d, 1..k) \in Int
    OBVIOUS
  <2>1. IsFiniteSet(1..k) /\ \A j \in 1..k : d[j] \in Int
    BY <1>1, <1>2
  <2> QED BY <2>1, SumInt
<1>4. SumFunctionOnSet(d, 1..0) = 0
  <2>1. 1..0 = {}
    OBVIOUS
  <2> QED BY <2>1, SumOfNone
<1>5. ASSUME NEW k \in 1..len
      PROVE  SumFunctionOnSet(d, 1..k) = SumFunctionOnSet(d, 1..(k - 1)) + d[k]
  <2>1. 1..k = 1..(k - 1) \cup {k} /\ k \notin 1..(k - 1) /\ IsFiniteSet(1..(k - 1))
    BY <1>1, <1>2
  <2>2. \A j \in 1..(k - 1) \cup {k} : d[j] \in Int
    BY <1>1
  <2> QED BY <2>1, <2>2, SumAdd
<1> HIDE DEF d
<1>6. ASSUME Off # {} PROVE FALSE
  <2>1. Off \in SUBSET Nat
    BY <1>1
  <2>2. PICK k \in Off : \A j \in Off : k <= j
    <3> HIDE DEF Off
    <3> QED BY <1>6, <2>1, Least
  <2>3. k # 0
    BY <1>1, <1>4, <2>2 DEF BalanceBefore
  <2>4. k \in 1..len /\ k - 1 \in 0..len /\ k - 1 \notin Off
    BY <1>1, <2>2, <2>3
  <2>5. BalanceBefore(i, k) = OpeningStock[i] + SumFunctionOnSet(d, 1..(k - 1))
    BY <2>4
  <2>6. BalanceBefore(i, k + 1) = ledger[i][k].balanceAfter
    BY <2>4 DEF BalanceBefore
  <2>7. ledger[i][k].balanceAfter = BalanceBefore(i, k) + d[k]
    BY <1>1, <2>4 DEF RunningBalance
  <2>8. SumFunctionOnSet(d, 1..(k - 1)) \in Int /\ d[k] \in Int
    BY <1>1, <1>3, <2>4
  <2>9. BalanceBefore(i, k + 1) = OpeningStock[i] + SumFunctionOnSet(d, 1..k)
    BY <1>1, <1>5, <2>4, <2>5, <2>6, <2>7, <2>8
  <2> QED BY <2>2, <2>9
<1> QED BY <1>6 DEF d

\* The stock reconciles with the ledger from the opening stock on, whoever moved it and
\* however many rows there are: no movement is lost or counted twice.
THEOREM StockReconciles == LedgerSpec => []StockIsSum
<1>1. LedgerInv => StockIsSum
  <2> SUFFICES ASSUME LedgerInv, NEW i \in Items
               PROVE  stockQty[i] = OpeningStock[i] + SumFunctionOnSet(Delta(i), 1..Len(ledger[i]))
    BY DEF StockIsSum
  <2>1. Len(ledger[i]) \in 0..Len(ledger[i])
    BY DEF LedgerInv, LedgerTypeOK
  <2> QED BY <2>1, BalancesAddUp DEF LedgerInv, RunningBalance
<1> QED BY <1>1, LedgerCorrect, PTL

=============================================================================
