SPECIFICATION Spec
CONSTANTS
    lamp = lamp
    o1 = o1
    o2 = o2
    Products = {lamp}
    Orders = {o1, o2}
    ProductOf <- OneProduct
    Quantity <- OneUnit
    Listings <- Shelf
    Clients = {c1, c2}
    Dispatchers = {d1, d2}
    Serving = {d1}
    MaxVersion = 8
    Budgets = {0, 1}
    MaxRequests = 2
    MaxMishaps = 0
    MaxRedrives = 0
INVARIANT
    AvailabilityDerived
CHECK_DEADLOCK FALSE
