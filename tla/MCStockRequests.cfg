SPECIFICATION FairSpec
CONSTANTS
    approver = approver
    rejecter = rejecter
    f1 = f1
    f2 = f2
    adjuster = adjuster
    r1 = r1
    r2 = r2
    item = item
    NoMovement = NoMovement
    Items = {item}
    Requests = {r1, r2}
    Handlers <- MCHandlers
    Refs <- MCRefs
    Deltas <- MCDeltas
    OpeningStock <- MCOpeningStock
    ItemOf <- MCItemOf
    QtyOf <- MCQtyOf
    ReorderPoint <- MCReorderPoint
    ReorderQty <- MCReorderQty
    Adjustments <- MCAdjustments
    MaxMovements = 3
    Approvers = {approver}
    Rejecters = {rejecter}
    Fulfillers = {f1, f2}
    Adjusters = {adjuster}
INVARIANTS TypeOK MovementExclusive RunningBalance NeverNegative FulfilledWasIssued ReordersFollowIssues
PROPERTIES LedgerSpec HandlersFinish
CHECK_DEADLOCK FALSE
