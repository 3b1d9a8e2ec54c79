SPECIFICATION Spec
CONSTANTS
    h1 = h1
    h2 = h2
    po = po
    stationery = stationery
    Misc = Misc
    Cash = Cash
    Direct = Direct
    NoAccount = NoAccount
    Handlers = {h1, h2}
    Orders = {po}
    Accounts = {stationery, Misc}
    TotalUsd <- MCTotalUsd
    OrderAccount <- MCOrderAccount
    Amounts <- MCAmounts
    Rates <- MCOneRate
    Tolerances <- MCNoTolerance
    MaxTolerance = 0
    MaxEntries = 2
PROPERTIES CancelledNotPaid
CHECK_DEADLOCK FALSE
