SPECIFICATION FairSpec
CONSTANTS
    h1 = h1
    h2 = h2
    clerk = clerk
    po = po
    l1 = l1
    l2 = l2
    c1 = c1
    c2 = c2
    c3 = c3
    c4 = c4
    item = item
    NoMovement = NoMovement
    Items = {item}
    Orders = {po}
    Lines = {l1, l2}
    Claims = {c1, c2, c3, c4}
    Refs = {c1, c2, c3, c4}
    Handlers <- MCHandlers
    Deltas <- MCDeltas
    OpeningStock <- MCOpeningStock
    OrderOf <- MCOrderOf
    QtyOrdered <- MCQtyOrdered
    LineOf <- MCLineOf
    ClaimQty <- MCClaimQty
    ItemOf <- MCItemOf
    TolerancePct = 50
    Confirmers = {h1, h2}
    Rejecters = {clerk}
    Cancellers = {clerk}
INVARIANTS TypeOK NeverOverReceived ReceivedOnce ReceiptsAccounted OrderFollowsLines
PROPERTIES AtomicReceipts HandlersFinish
CHECK_DEADLOCK FALSE
