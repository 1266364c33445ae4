SPECIFICATION FairSpec
CONSTANTS
    lamp = lamp
    o1 = o1
    o2 = o2
    Products = {lamp}
    Orders = {o1, o2}
    ProductOf <- OneProduct
    Quantity <- OneUnit
    Listings <- Shelf
    Clients = {c1, c2}
    Dispatchers = {d1}
    Serving = {d1}
    MaxVersion = 8
    Budgets = {0, 1}
    MaxRequests = 2
    MaxMishaps = 1
    MaxRedrives = 1
INVARIANTS
    TypeOK
    LegalHistory
    WithdrawnForGood
    AvailabilityDerived
    NoOrderBeforeProduct
    ArmedHasBudget
PROPERTIES
    Converges
CHECK_DEADLOCK FALSE
