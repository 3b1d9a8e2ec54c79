SPECIFICATION Spec
CONSTANTS
    s1 = s1
    s2 = s2
    d1 = d1
    d2 = d2
    c1 = c1
    x1 = x1
    b1 = b1
    b2 = b2
    r1 = r1
    r2 = r2
    NoRate = NoRate
    Unlimited = Unlimited
    NoThreshold = NoThreshold
    NoOne = NoOne
    Requests = {r1}
    Reorders = {}
    Foreign = {r1}
    Total <- MCTotal
    Rates <- MCRates
    Limit <- MCLimit
    OrderTotals <- MCOrderTotals
    Submitters = {s1}
    Deciders = {d1}
    Cancellers = {}
    Removers = {}
    Buyers = {b1, b2}
    MaxOrders = 2
PROPERTIES OrderFromApproved
CHECK_DEADLOCK FALSE
