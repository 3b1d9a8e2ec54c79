SPECIFICATION Spec
CONSTANTS
    h1 = h1
    h2 = h2
    po = po
    stationery = stationery
    Misc = Misc
    Cash = Cash
    Direct = Direct
    NoAccount = NoAccount
    Handlers = {h1, h2}
    Orders = {po}
    Accounts = {stationery, Misc}
    TotalUsd <- MCTotalUsd
    OrderAccount <- MCOrderAccount
    Amounts <- MCAmounts
    Rates <- MCRates
    Tolerances <- MCTolerances
    MaxTolerance = 10
    MaxEntries = 2
INVARIANTS TypeOK NeverOverpaid StatusExact BooksAgree
SYMMETRY MCSymmetry
CHECK_DEADLOCK FALSE
