\* A PUT that carries a stock only, and a DELETE between its read and its write.
CONSTANTS
    alice = alice
    shop = shop
    a = a
    b = b
    code = code
    None = None
    Workers = {w1}
    Users = {alice, shop}
    Products = {a}
    Promos = {code}
    OrderIds = {o1}
    Editors = {e1}
    Role <- MCRole
    Terms <- MCTerms
    Baskets <- MCBaskets
    Bodies <- StockOnly
    NewRows <- TwoEach
    MaxInt = 2
    RateLimit = 0
    MaxTime = 1
    OneAtATime = FALSE
SPECIFICATION Spec
PROPERTY ArchivedStays
