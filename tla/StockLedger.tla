---------------------------- MODULE StockLedger ----------------------------
(***************************************************************************)
(* The stock ledger: inventory_items.stock_qty and the append-only         *)
(* stock_movements rows, which change together and only through            *)
(* InventoryService.applyMovement.                                         *)
(*                                                                         *)
(* applyMovement runs inside its caller's transaction.  It takes the item  *)
(* row FOR UPDATE, computes the balance from the row it has just read,     *)
(* refuses a negative one, and writes the balance and the ledger row; both *)
(* become visible when the transaction commits, which is also when the row *)
(* lock is released.  So one movement is two steps here: BeginMovement     *)
(* (lock, read, check) and CommitMovement (write, release).  Between them  *)
(* every other transaction that wants the item waits.                      *)
(***************************************************************************)
EXTENDS Integers, Sequences

CONSTANTS
    Handlers,       \* HTTP requests and webhooks in flight, each its own connection
    Items,          \* inventory_items rows
    Refs,           \* documents a movement can refer to (ref_table, ref_id)
    Deltas,         \* the quantities a movement can carry, signed
    OpeningStock,   \* stock_qty before the first ledger row: 0 for an item the
                    \* catalogue form created, anything for a row taken over
                    \* from the database this one replaced
    NoMovement      \* a handler with no movement in its transaction

Row == [delta : Int, ref : Refs, balanceAfter : Int]
Movement == [item : Items, delta : Int, ref : Refs, balanceAfter : Int]

ASSUME LedgerAssumption ==
    /\ Deltas \subseteq Int \ {0}
    /\ OpeningStock \in [Items -> Nat]
    /\ NoMovement \notin Movement

VARIABLES
    stockQty,       \* committed inventory_items.stock_qty
    ledger,         \* committed stock_movements rows of each item, oldest first
    moving          \* the movement a handler has computed under the row lock

ledgerVars == <<stockQty, ledger, moving>>

LedgerTypeOK ==
    /\ stockQty \in [Items -> Int]
    /\ ledger \in [Items -> Seq(Row)]
    /\ moving \in [Handlers -> Movement \cup {NoMovement}]

LedgerInit ==
    /\ stockQty = OpeningStock
    /\ ledger = [i \in Items |-> <<>>]
    /\ moving = [h \in Handlers |-> NoMovement]

-----------------------------------------------------------------------------

\* The item row is held FOR UPDATE by a transaction in flight.
ItemLocked(i) == \E h \in Handlers : moving[h] # NoMovement /\ moving[h].item = i

\* Slip: the row is read without FOR UPDATE.
BeginMovementUnlocked(h, i, d, ref) ==
    /\ moving[h] = NoMovement
    /\ stockQty[i] + d >= 0
    /\ moving' = [moving EXCEPT ![h] = [item |-> i, delta |-> d, ref |-> ref,
                                        balanceAfter |-> stockQty[i] + d]]
    /\ UNCHANGED <<stockQty, ledger>>

\* Slip: the sign of the balance is not checked.
BeginMovementUnchecked(h, i, d, ref) ==
    /\ moving[h] = NoMovement
    /\ ~ItemLocked(i)
    /\ moving' = [moving EXCEPT ![h] = [item |-> i, delta |-> d, ref |-> ref,
                                        balanceAfter |-> stockQty[i] + d]]
    /\ UNCHANGED <<stockQty, ledger>>

\* SELECT ... FOR UPDATE on the item, then the balance and its sign check.
BeginMovement(h, i, d, ref) ==
    /\ moving[h] = NoMovement
    /\ ~ItemLocked(i)
    /\ stockQty[i] + d >= 0
    /\ moving' = [moving EXCEPT ![h] = [item |-> i, delta |-> d, ref |-> ref,
                                        balanceAfter |-> stockQty[i] + d]]
    /\ UNCHANGED <<stockQty, ledger>>

\* The balance and the ledger row become visible with the caller's commit.
CommitMovement(h) ==
    LET m == moving[h] IN
    /\ m # NoMovement
    /\ stockQty' = [stockQty EXCEPT ![m.item] = m.balanceAfter]
    /\ ledger' = [ledger EXCEPT ![m.item] =
           Append(@, [delta |-> m.delta, ref |-> m.ref, balanceAfter |-> m.balanceAfter])]
    /\ moving' = [moving EXCEPT ![h] = NoMovement]

\* The caller's transaction fails, or its connection dies, after the lock.
RollbackMovement(h) ==
    /\ moving[h] # NoMovement
    /\ moving' = [moving EXCEPT ![h] = NoMovement]
    /\ UNCHANGED <<stockQty, ledger>>

LedgerNext == \E h \in Handlers :
    \/ \E i \in Items, d \in Deltas, ref \in Refs : BeginMovement(h, i, d, ref)
    \/ CommitMovement(h)
    \/ RollbackMovement(h)

LedgerSpec == LedgerInit /\ [][LedgerNext]_ledgerVars

-----------------------------------------------------------------------------
(* What the ledger promises. *)

\* The balance a movement of i starts from: the row before it, or the opening stock.
BalanceBefore(i, k) == IF k = 1 THEN OpeningStock[i] ELSE ledger[i][k - 1].balanceAfter

\* balance_after is always the true running balance, and the item's stock is
\* the balance of its last row: "so the ledger and the balance can never
\* disagree" (inventory.service.ts, update and applyMovement).
RunningBalance == \A i \in Items :
    /\ \A k \in 1..Len(ledger[i]) :
          ledger[i][k].balanceAfter = BalanceBefore(i, k) + ledger[i][k].delta
    /\ stockQty[i] = BalanceBefore(i, Len(ledger[i]) + 1)

\* Stock never goes below zero, now or at any row of the ledger.
NeverNegative == \A i \in Items :
    /\ stockQty[i] >= 0
    /\ \A k \in 1..Len(ledger[i]) : ledger[i][k].balanceAfter >= 0

\* The row lock: one transaction at a time holds an item, and the balance it
\* has computed still follows from the committed stock.
MovementExclusive == \A h \in Handlers : moving[h] # NoMovement =>
    /\ moving[h].balanceAfter = stockQty[moving[h].item] + moving[h].delta
    /\ moving[h].balanceAfter >= 0
    /\ \A g \in Handlers \ {h} :
          moving[g] # NoMovement => moving[g].item # moving[h].item

LedgerInv == LedgerTypeOK /\ MovementExclusive /\ RunningBalance /\ NeverNegative

=============================================================================
