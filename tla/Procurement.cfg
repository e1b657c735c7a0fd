SPECIFICATION Spec
CONSTANTS
    Vendors = {v1, v2}
    Items = {i1}
    Defaults = {}
    Prices = {p1, p2}
    Entries = {e1, e2}
    Clients = {c1, c2}
    LastDay = 2
    Today = 1
    MonthOf <- MCMonthOf
    WindowMonths = 1
    Rate <- MCRate
    PaidByHand = 2
    ListPrice = 9
    Quantity <- MCQuantity
    Times = {1, 2}
    NoPrice = NoPrice
SYMMETRY Symmetry
INVARIANTS
    OnePriceADay
    EntriesKeepTheirPrice
    
PROPERTIES
    PastCostStands
CHECK_DEADLOCK FALSE
