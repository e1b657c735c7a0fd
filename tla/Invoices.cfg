SPECIFICATION InvoiceSpec
CONSTANTS
    Invoices = {i1, i2}
    Refreshes = {c1, c2}
    MaxVersion = 2
    MaxChanges = 3
    PageSize = 1
    MaxPages = 3
    ReadLimits = {1, 2}
    Products = {p1, p2}
    Amount <- MCAmount
    Customer <- MCCustomer
    All = All
SYMMETRY Symmetry
INVARIANTS
    NoStaleLines
    MissingIsReported
    SameSales
CHECK_DEADLOCK FALSE
