SPECIFICATION FairSpec
CONSTANTS
    h1 = h1
    h2 = h2
    c1 = c1
    c2 = c2
    None = None
    Rest = Rest
    Clerks = {h1}
    Converters = {h2}
    Issuers = {h2}
    Cashiers = {h1, h2}
    MaxDocs = 3
    Customers = {c1, c2}
    NewForms <- MCNewForms
    EditForms <- MCEditForms
    Rates <- MCRates
    Amounts <- MCAmounts
    PoolSize = 2
    MaxCreated = 1
    MaxReceipts = 2
INVARIANTS TypeOK EntriesBalance
PROPERTIES CollectsReceivable DocumentStands HandlersFinish OneInvoiceUnlessOverlapped
CHECK_DEADLOCK FALSE
